---------------------------- MODULE BridgeProofs ----------------------------
(***************************************************************************)
(* Proofs that the bridge never holds two open sockets, that serve returns *)
(* without one, and that Stop leaves no goroutine in a loop, for any       *)
(* number of links and any limits.                                         *)
(***************************************************************************)
EXTENDS Bridge, TLAPS

(* Only Dial makes a connection: where serve dials, or where it may return *)
(* without disconnecting first, there is none.                             *)
ServeFree ==
  serve \in {"dial", "backoff", "retryWait", "gaveUp", "exit"} => conn = NoLink

(* A heartbeat is only counted when there is room for it. *)
HeartRoom ==
  serve \in {"heartWait", "heart", "heartWrite"} => heartUnAck \in 0..MaxUnAck

AcksLeft ==
  \A l \in Link : recv[l] \in {"ack", "signal", "handled"} => acks[l] \in 1..MaxAcks

Inv == TypeOK /\ OneSocket /\ ServeFree /\ HeartRoom /\ AcksLeft

USE BridgeAssumption

(* What every caller of disConnectServer relies on: no connection is left, *)
(* and no socket stays open behind the field (bridge.go:157-176).          *)
LEMMA DisconnectReleases ==
  ASSUME TypeOK, OneSocket, disConnectServer
  PROVE  /\ conn' = NoLink
         /\ OneSocket'
         /\ sock' \in [Link -> {"open", "hungup", "closed"}]
         /\ status' \in {"unConnect", "tcpConnectOK", "loginOK", "exitRequest"}
         /\ waiting' \in BOOLEAN
<1>1. CASE conn = NoLink
  BY <1>1 DEF TypeOK, OneSocket, disConnectServer, linkVars
<1>2. CASE conn # NoLink
  <2>1. /\ conn' = NoLink /\ status' = "unConnect" /\ waiting' = FALSE
        /\ sock' = [sock EXCEPT ![conn] = "closed"]
    BY <1>2 DEF disConnectServer
  <2>2. OneSocket'
    BY <1>2, <2>1 DEF TypeOK, OneSocket
  <2> QED  BY <2>1, <2>2 DEF TypeOK
<1> QED  BY <1>1, <1>2

LEMMA InitInv == Init => Inv
<1> SUFFICES ASSUME Init PROVE Inv
  OBVIOUS
<1>1. TypeOK
  <2>1. 0 \in 0 .. MaxUnAck + 1 /\ acks \in [Link -> 0..MaxAcks]
    BY DEF Init
  <2>2. /\ recv \in [Link -> {"done", "top", "read", "ack", "signal", "handled", "failed"}]
        /\ reads \in [Link -> Link \cup {NoLink}]
        /\ sock \in [Link -> {"open", "hungup", "closed"}]
    BY DEF Init
  <2>3. isExit \in BOOLEAN /\ stopped \in BOOLEAN /\ waiting \in BOOLEAN /\ ack \in BOOLEAN
    BY DEF Init
  <2> QED  BY <2>1, <2>2, <2>3 DEF Init, TypeOK
<1>2. OneSocket /\ ServeFree /\ HeartRoom /\ AcksLeft
  BY DEF Init, OneSocket, ServeFree, HeartRoom, AcksLeft
<1> QED  BY <1>1, <1>2 DEF Inv

(* The steps of serve. *)
LEMMA ServeInv ==
  ASSUME Inv, ServeSteps \/ HeartWrite
  PROVE  Inv'
<1> USE DEF Inv
<1>1. CASE ServeWaits \/ CheckExit \/ DialFails \/ GaveUp
  <2>1. /\ UNCHANGED <<linkVars, ack, heartUnAck, stopVars, nc, recvVars, sendVars>>
        /\ serve' \in {"checkExit", "leave", "pause", "exit", "redial", "backoff",
                       "giveUp", "heart"}
        /\ serve' \in {"backoff", "exit"} => conn = NoLink
        /\ serve' = "heart" => serve = "heartWait"
    BY <1>1 DEF ServeWaits, Pause, Backoff, RetryWait, HeartWait, CheckExit, DialFails,
                GaveUp, Serve, ServeFree, stopVars
  <2> QED
    BY <2>1 DEF TypeOK, OneSocket, ServeFree, HeartRoom, AcksLeft, linkVars, stopVars,
                recvVars, sendVars
<1>2. CASE Redial \/ GiveUp \/ Leave
  <2>1. /\ UNCHANGED <<ack, heartUnAck, stopVars, nc, recvVars, sendVars>>
        /\ serve' \in {"dial", "gaveUp", "exit"}
        /\ disConnectServer
    BY <1>2 DEF Redial, GiveUp, Leave, Serve
  <2>2. /\ conn' = NoLink /\ OneSocket'
        /\ sock' \in [Link -> {"open", "hungup", "closed"}]
        /\ status' \in {"unConnect", "tcpConnectOK", "loginOK", "exitRequest"}
        /\ waiting' \in BOOLEAN
    BY <2>1, DisconnectReleases
  <2> QED
    BY <2>1, <2>2 DEF TypeOK, ServeFree, HeartRoom, AcksLeft, stopVars, recvVars, sendVars
<1>3. ASSUME NEW l \in Link, Dial(l) PROVE Inv'
  <2>1. /\ conn = NoLink /\ conn' = l
        /\ sock' = [sock EXCEPT ![l] = "open"]
        /\ serve' = "dialled" /\ nc' = l
        /\ UNCHANGED <<status, waiting, ack, heartUnAck, stopVars, recvVars, sendVars>>
    BY <1>3 DEF Dial, Serve, ServeFree
  <2>2. OneSocket'
    BY <2>1 DEF TypeOK, OneSocket
  <2> QED
    BY <2>1, <2>2 DEF TypeOK, ServeFree, HeartRoom, AcksLeft, stopVars, recvVars, sendVars
<1>4. CASE Dialled
  <2>1. TypeOK'
    <3>1. recv' \in [Link -> {"done", "top", "read", "ack", "signal", "handled", "failed"}]
      BY <1>4 DEF Dialled, TypeOK
    <3>2. /\ status' = "tcpConnectOK" /\ serve' = "login"
          /\ UNCHANGED <<conn, sock, waiting, ack, heartUnAck, stopVars, nc, reads, acks,
                         sendVars>>
      BY <1>4 DEF Dialled, Serve
    <3> QED  BY <3>1, <3>2 DEF TypeOK, stopVars, sendVars
  <2>2. OneSocket' /\ ServeFree' /\ HeartRoom'
    BY <1>4 DEF Dialled, Serve, OneSocket, ServeFree, HeartRoom
  <2>3. AcksLeft'
    BY <1>4 DEF Dialled, TypeOK, AcksLeft
  <2> QED  BY <2>1, <2>2, <2>3
<1>5. CASE Login \/ LoginWrite \/ LoginWait \/ LoginAcked
  <2>1. /\ UNCHANGED <<conn, sock, heartUnAck, stopVars, recvVars, sendVars>>
        /\ serve' \in {"loginFailed", "loginWrite", "loginWait", "loginAcked", "loginEnds"}
        /\ status' \in {status, "loginOK"} /\ nc' \in {nc, conn, NoLink}
    BY <1>5 DEF Login, LoginWrite, LoginWait, LoginAcked, Serve, linkVars
  <2>2. waiting' \in BOOLEAN /\ ack' \in BOOLEAN
    BY <1>5 DEF Login, LoginWrite, LoginWait, LoginAcked, linkVars, TypeOK
  <2>3. TypeOK'
    BY <2>1, <2>2 DEF TypeOK, stopVars, recvVars, sendVars
  <2> QED
    BY <2>1, <2>3 DEF OneSocket, ServeFree, HeartRoom, AcksLeft, recvVars
<1>6. CASE LoginEnds
  <2>1. TypeOK'
    <3>1. heartUnAck' \in 0 .. MaxUnAck + 1
      BY <1>6 DEF LoginEnds
    <3>2. waiting' \in BOOLEAN /\ ack' \in BOOLEAN
      BY <1>6 DEF LoginEnds
    <3>3. /\ serve' = "heartWait"
          /\ UNCHANGED <<conn, sock, status, stopVars, nc, recvVars, sendVars>>
      BY <1>6 DEF LoginEnds, Serve
    <3> QED  BY <3>1, <3>2, <3>3 DEF TypeOK, stopVars, recvVars, sendVars
  <2> QED
    BY <1>6, <2>1 DEF LoginEnds, Serve, OneSocket, ServeFree, HeartRoom, AcksLeft, recvVars
<1>7. CASE LoginFailed
  <2>1. /\ conn' = NoLink /\ waiting' = FALSE /\ ack' = FALSE
        /\ serve' = "retryWait" /\ status' \in {status, "unConnect"}
        /\ sock' = IF conn = NoLink THEN sock ELSE [sock EXCEPT ![conn] = "closed"]
        /\ UNCHANGED <<heartUnAck, stopVars, nc, recvVars, sendVars>>
    BY <1>7 DEF LoginFailed, Serve
  <2>2. OneSocket' /\ sock' \in [Link -> {"open", "hungup", "closed"}]
    BY <2>1 DEF TypeOK, OneSocket
  <2>3. TypeOK'
    BY <2>1, <2>2, ZenonT(60) DEF TypeOK, stopVars, recvVars, sendVars
  <2> QED
    BY <2>1, <2>2, <2>3 DEF ServeFree, HeartRoom, AcksLeft, recvVars
<1>8. CASE Heart
  <2>1. /\ UNCHANGED <<linkVars, ack, stopVars, recvVars, sendVars>>
        /\ heartUnAck \in 0..MaxUnAck /\ heartUnAck' = heartUnAck + 1
        /\ nc' \in {nc, conn}
        /\ \/ serve' = "giveUp"
           \/ serve' \in {"heartWait", "heartWrite"} /\ heartUnAck' <= MaxUnAck
    BY <1>8 DEF Heart, Serve, HeartRoom
  <2> QED
    BY <2>1 DEF TypeOK, OneSocket, ServeFree, HeartRoom, AcksLeft, linkVars, stopVars,
                recvVars, sendVars
<1>9. CASE HeartWrite
  BY <1>9 DEF HeartWrite, Serve, TypeOK, OneSocket, ServeFree, HeartRoom, AcksLeft,
              linkVars, stopVars, recvVars, sendVars
<1> QED
  BY <1>1, <1>2, <1>3, <1>4, <1>5, <1>6, <1>7, <1>8, <1>9 DEF ServeSteps

(* The steps of the master and of the goroutines that read from it. *)
LEMMA RecvInv ==
  ASSUME Inv, NEW l \in Link, HangUp(l) \/ RecvNext(l)
  PROVE  Inv'
<1> USE DEF Inv
<1>1. CASE HangUp(l)
  <2>1. OneSocket'
    BY <1>1 DEF HangUp, TypeOK, OneSocket
  <2> QED
    BY <1>1, <2>1 DEF HangUp, TypeOK, ServeFree, HeartRoom, AcksLeft, serveVars, stopVars,
                      recvVars, sendVars
<1>2. CASE RecvTop(l) \/ RecvFails(l)
  <2>1. /\ UNCHANGED <<linkVars, ack, heartUnAck, stopVars, serveVars, acks, sendVars>>
        /\ \E p \in {"done", "read", "failed"} : recv' = [recv EXCEPT ![l] = p]
        /\ \/ reads' = reads
           \/ reads' = [reads EXCEPT ![l] = conn]
    BY <1>2 DEF RecvTop, RecvFails, Recv
  <2> QED
    BY <2>1 DEF TypeOK, OneSocket, ServeFree, HeartRoom, AcksLeft, linkVars, serveVars,
                stopVars, sendVars
<1>3. ASSUME NEW n \in 0..MaxAcks, RecvFrames(l, n) PROVE Inv'
  BY <1>3 DEF RecvFrames, Recv, TypeOK, OneSocket, ServeFree, HeartRoom, AcksLeft,
              linkVars, serveVars, stopVars, sendVars
<1>4. CASE RecvAck(l) \/ RecvSignal(l)
  <2>1. /\ UNCHANGED <<linkVars, stopVars, serveVars, reads, acks, sendVars>>
        /\ recv[l] \in {"ack", "signal"}
        /\ \E p \in {"signal", "handled"} : recv' = [recv EXCEPT ![l] = p]
        /\ heartUnAck' \in {heartUnAck, 0}
        /\ ack' = ack \/ ack' = (ack \/ waiting)
    BY <1>4 DEF RecvAck, RecvSignal, Recv
  <2>2. ack' \in BOOLEAN
    BY <2>1 DEF TypeOK
  <2>3. UNCHANGED <<linkVars, stopVars, serveVars, reads, acks, sendVars>>
        /\ recv[l] \in {"ack", "signal"}
        /\ (\E p \in {"signal", "handled"} : recv' = [recv EXCEPT ![l] = p])
        /\ heartUnAck' \in {heartUnAck, 0}
    BY <2>1
  <2> QED
    BY <2>2, <2>3 DEF TypeOK, OneSocket, ServeFree, HeartRoom, AcksLeft, linkVars,
                      serveVars, stopVars, sendVars
<1>5. CASE RecvHandled(l)
  <2>1. acks[l] \in 1..MaxAcks
    BY <1>5 DEF RecvHandled, AcksLeft
  <2> QED
    BY <1>5, <2>1 DEF RecvHandled, Recv, TypeOK, OneSocket, ServeFree, HeartRoom,
                      AcksLeft, linkVars, serveVars, stopVars, sendVars
<1>6. CASE RecvEnds(l)
  <2>1. /\ conn' = NoLink /\ OneSocket'
        /\ sock' \in [Link -> {"open", "hungup", "closed"}]
        /\ status' \in {"unConnect", "tcpConnectOK", "loginOK", "exitRequest"}
        /\ waiting' \in BOOLEAN
    BY <1>6, DisconnectReleases DEF RecvEnds
  <2>2. /\ recv' = [recv EXCEPT ![l] = "done"]
        /\ reads' = [reads EXCEPT ![l] = NoLink]
        /\ UNCHANGED <<ack, heartUnAck, stopVars, serveVars, acks, sendVars>>
    BY <1>6 DEF RecvEnds
  <2>3. TypeOK'
    BY <2>1, <2>2 DEF TypeOK, serveVars, stopVars, sendVars
  <2> QED
    BY <1>6, <2>1, <2>2, <2>3 DEF RecvEnds, ServeFree, HeartRoom, AcksLeft, serveVars,
                                  TypeOK
<1> QED
  BY <1>1, <1>2, <1>3, <1>4, <1>5, <1>6 DEF RecvNext, RecvSteps

(* The steps of Send and of Stop. *)
LEMMA CallerInv ==
  ASSUME Inv, SendNext \/ StopFlag \/ StopEnds
  PROVE  Inv'
<1> USE DEF Inv
<1>1. CASE SendBegins \/ SendGets \/ SendWrites
  <2>1. /\ UNCHANGED <<linkVars, ack, heartUnAck, stopVars, serveVars, recvVars>>
        /\ sender' \in {"get", "idle", "write", "failed"}
        /\ sends' \in {sends, conn, NoLink}
    BY <1>1 DEF SendBegins, SendGets, SendWrites
  <2> QED
    BY <2>1 DEF TypeOK, OneSocket, ServeFree, HeartRoom, AcksLeft, linkVars, serveVars,
                stopVars, recvVars
<1>2. CASE StopFlag \/ StopStatus \/ StopClose
  <2>1. /\ UNCHANGED <<conn, sock, waiting, ack, heartUnAck, serveVars, recvVars, sendVars>>
        /\ status' \in {status, "exitRequest"}
        /\ stopper' \in {"status", "close", "disconnect"}
    BY <1>2 DEF StopFlag, StopStatus, StopClose, linkVars
  <2>2. isExit' \in BOOLEAN /\ stopped' \in BOOLEAN
    BY <1>2 DEF StopFlag, StopStatus, StopClose, TypeOK
  <2>3. TypeOK'
    BY <2>1, <2>2 DEF TypeOK, serveVars, recvVars, sendVars
  <2> QED
    BY <2>1, <2>3 DEF OneSocket, ServeFree, HeartRoom, AcksLeft, serveVars, recvVars
<1>3. CASE SendFails \/ StopDisconnect
  <2>1. /\ disConnectServer
        /\ UNCHANGED <<ack, heartUnAck, isExit, stopped, serveVars, recvVars, sends>>
        /\ sender' \in {sender, "idle"} /\ stopper' \in {stopper, "done"}
    BY <1>3 DEF SendFails, StopDisconnect, stopVars, sendVars
  <2>2. /\ conn' = NoLink /\ OneSocket'
        /\ sock' \in [Link -> {"open", "hungup", "closed"}]
        /\ status' \in {"unConnect", "tcpConnectOK", "loginOK", "exitRequest"}
        /\ waiting' \in BOOLEAN
    BY <2>1, DisconnectReleases
  <2> QED
    BY <2>1, <2>2 DEF TypeOK, ServeFree, HeartRoom, AcksLeft, serveVars, recvVars
<1> QED
  BY <1>1, <1>2, <1>3 DEF SendNext, StopEnds

LEMMA Invariance == Spec => []Inv
<1>1. Inv /\ [Next]_vars => Inv'
  <2> SUFFICES ASSUME Inv, [Next]_vars PROVE Inv'
    OBVIOUS
  <2>1. CASE Next
    BY <2>1, ServeInv, RecvInv, CallerInv DEF Next
  <2>2. CASE UNCHANGED vars
    BY <2>2 DEF vars, Inv, TypeOK, OneSocket, ServeFree, HeartRoom, AcksLeft, linkVars,
                stopVars, serveVars, recvVars, sendVars
  <2> QED  BY <2>1, <2>2
<1> QED  BY InitInv, <1>1, PTL DEF Spec

(* The counter of unanswered heartbeats stays within its limit, and every  *)
(* field has its type.                                                     *)
THEOREM BridgeTypes == Spec => []TypeOK
  BY Invariance, PTL DEF Inv

(* The bridge never holds two connections to the master, whoever drops the *)
(* one it has: serve, recv, Send or Stop.                                  *)
THEOREM OneConnection == Spec => []OneSocket
  BY Invariance, PTL DEF Inv

(* When serve has returned there is no connection left. *)
THEOREM ServeReleases == Spec => []ExitReleases
<1>1. Inv => ExitReleases
  BY DEF Inv, ServeFree, ExitReleases
<1> QED  BY Invariance, <1>1, PTL

-----------------------------------------------------------------------------
(* After Stop *)

(* How many steps serve has at most still to make once isExit is set: it   *)
(* may be about to dial and to log in, but comes round to no second dial.  *)
ServeLeft(p) ==
  CASE p = "exit" -> 0
    [] p \in {"leave", "gaveUp"} -> 1
    [] p \in {"checkExit", "giveUp"} -> 2
    [] p \in {"pause", "heartWait"} -> 3
    [] p \in {"retryWait", "backoff", "loginEnds", "heartWrite"} -> 4
    [] p \in {"loginFailed", "loginAcked", "heart"} -> 5
    [] p = "loginWait" -> 6
    [] p = "loginWrite" -> 7
    [] p = "login" -> 8
    [] p = "dialled" -> 9
    [] p = "dial" -> 10
    [] p = "redial" -> 11

(* The same for a recv goroutine with n acknowledges to handle, once there *)
(* is no connection to read from.                                          *)
RecvLeft(p, n) ==
  CASE p = "done" -> 0
    [] p \in {"top", "failed"} -> 1
    [] p = "read" -> 2
    [] p = "handled" -> 3 * n - 1
    [] p = "signal" -> 3 * n
    [] p = "ack" -> 3 * n + 1

(* Stop leaves no loop: serve comes nearer to its end with each step, and  *)
(* once it has returned no connection comes back, and with each step of a  *)
(* recv goroutine that goroutine comes nearer to its own (serve, recv and  *)
(* Stop of bridge.go).                                                     *)
WindsDown ==
  /\ isExit => isExit' /\ (serve' # serve => ServeLeft(serve') < ServeLeft(serve))
  /\ serve = "exit" =>
       /\ serve' = "exit" /\ conn' = NoLink
       /\ \A l \in Link : recv'[l] # recv[l] =>
            RecvLeft(recv'[l], acks'[l]) < RecvLeft(recv[l], acks[l])

(* The two tables, row by row. *)
LEMMA ServeTable ==
  /\ ServeLeft("exit") = 0 /\ ServeLeft("leave") = 1 /\ ServeLeft("gaveUp") = 1
  /\ ServeLeft("checkExit") = 2 /\ ServeLeft("giveUp") = 2
  /\ ServeLeft("pause") = 3 /\ ServeLeft("heartWait") = 3
  /\ ServeLeft("retryWait") = 4 /\ ServeLeft("backoff") = 4
  /\ ServeLeft("loginEnds") = 4 /\ ServeLeft("heartWrite") = 4
  /\ ServeLeft("loginFailed") = 5 /\ ServeLeft("loginAcked") = 5 /\ ServeLeft("heart") = 5
  /\ ServeLeft("loginWait") = 6 /\ ServeLeft("loginWrite") = 7 /\ ServeLeft("login") = 8
  /\ ServeLeft("dialled") = 9 /\ ServeLeft("dial") = 10 /\ ServeLeft("redial") = 11
BY DEF ServeLeft

LEMMA RecvTable ==
  ASSUME NEW n
  PROVE  /\ RecvLeft("done", n) = 0 /\ RecvLeft("top", n) = 1 /\ RecvLeft("failed", n) = 1
         /\ RecvLeft("read", n) = 2 /\ RecvLeft("handled", n) = 3 * n - 1
         /\ RecvLeft("signal", n) = 3 * n /\ RecvLeft("ack", n) = 3 * n + 1
BY DEF RecvLeft

(* What a step of serve does to its place, and that it leaves isExit.      *)
LEMMA ServeNearer ==
  ASSUME isExit, ServeSteps \/ HeartWrite
  PROVE  isExit' /\ ServeLeft(serve') < ServeLeft(serve)
<1>1. CASE ServeWaits \/ CheckExit \/ DialFails \/ GaveUp
  <2>1. /\ isExit' = isExit
        /\ <<serve, serve'>> \in
             {<<"pause", "checkExit">>, <<"pause", "leave">>, <<"backoff", "pause">>,
              <<"backoff", "leave">>, <<"retryWait", "pause">>, <<"retryWait", "exit">>,
              <<"heartWait", "leave">>, <<"heartWait", "giveUp">>, <<"checkExit", "leave">>,
              <<"dial", "backoff">>, <<"gaveUp", "exit">>}
    BY <1>1 DEF ServeWaits, Pause, Backoff, RetryWait, HeartWait, CheckExit, DialFails,
                GaveUp, Serve, stopVars
  <2> QED  BY <2>1, ServeTable
<1>2. CASE Redial \/ GiveUp \/ Leave
  <2>1. /\ isExit' = isExit
        /\ <<serve, serve'>> \in
             {<<"redial", "dial">>, <<"giveUp", "gaveUp">>, <<"leave", "exit">>}
    BY <1>2 DEF Redial, GiveUp, Leave, Serve, stopVars
  <2> QED  BY <2>1, ServeTable
<1>3. CASE Dialled \/ \E l \in Link : Dial(l)
  <2>1. /\ isExit' = isExit
        /\ <<serve, serve'>> \in {<<"dial", "dialled">>, <<"dialled", "login">>}
    BY <1>3 DEF Dial, Dialled, Serve, stopVars
  <2> QED  BY <2>1, ServeTable
<1>4. CASE Login \/ LoginWrite \/ LoginWait
  <2>1. /\ isExit' = isExit
        /\ <<serve, serve'>> \in
             {<<"login", "loginFailed">>, <<"login", "loginWrite">>,
              <<"loginWrite", "loginWait">>, <<"loginWrite", "loginFailed">>,
              <<"loginWait", "loginFailed">>, <<"loginWait", "loginAcked">>}
    BY <1>4 DEF Login, LoginWrite, LoginWait, Serve, stopVars
  <2> QED  BY <2>1, ServeTable
<1>5. CASE LoginAcked \/ LoginEnds \/ LoginFailed
  <2>1. /\ isExit' = isExit
        /\ <<serve, serve'>> \in {<<"loginAcked", "loginEnds">>, <<"loginEnds", "heartWait">>,
                                  <<"loginFailed", "retryWait">>}
    BY <1>5 DEF LoginAcked, LoginEnds, LoginFailed, Serve, stopVars
  <2> QED  BY <2>1, ServeTable
<1>6. CASE Heart \/ HeartWrite
  <2>1. /\ isExit' = isExit
        /\ <<serve, serve'>> \in {<<"heart", "giveUp">>, <<"heart", "heartWait">>,
                                  <<"heart", "heartWrite">>, <<"heartWrite", "heartWait">>}
    BY <1>6 DEF Heart, HeartWrite, Serve, stopVars
  <2> QED  BY <2>1, ServeTable
<1> QED  BY <1>1, <1>2, <1>3, <1>4, <1>5, <1>6 DEF ServeSteps

(* A Read is on a connection. *)
ReadsLink == \A l \in Link : recv[l] = "read" => reads[l] \in Link

(* RecvTop copies conn only if there is one. *)
LEMMA ReadsLinkHolds == Spec => []ReadsLink
<1>1. Init => ReadsLink
  BY DEF Init, ReadsLink
<1>2. Inv /\ ReadsLink /\ [Next]_vars => ReadsLink'
  <2> SUFFICES ASSUME Inv, ReadsLink, [Next]_vars PROVE ReadsLink'
    OBVIOUS
  <2> USE DEF Inv
  <2>1. CASE UNCHANGED <<recv, reads>>
    BY <2>1 DEF ReadsLink
  <2>2. CASE ServeSteps /\ ~Dialled
    BY <2>1, <2>2 DEF ServeSteps, ServeWaits, Pause, Backoff, RetryWait, HeartWait, CheckExit,
       Redial, DialFails, Dial, Login, LoginWrite, LoginWait, LoginAcked, LoginEnds, LoginFailed,
       Heart, GiveUp, GaveUp, Leave, recvVars
  <2>3. CASE Dialled
    BY <2>3 DEF Dialled, TypeOK, ReadsLink
  <2>4. CASE HeartWrite \/ SendNext \/ StopFlag \/ StopEnds \/ \E l \in Link : HangUp(l)
    BY <2>1, <2>4 DEF HeartWrite, SendNext, SendBegins, SendGets, SendWrites, SendFails,
       StopFlag, StopEnds, StopStatus, StopClose, StopDisconnect, HangUp, recvVars
  <2>5. ASSUME NEW l \in Link, RecvNext(l) PROVE ReadsLink'
    <3>1. CASE RecvTop(l)
      <4>1. /\ recv' = [recv EXCEPT ![l] = IF conn = NoLink THEN "done" ELSE "read"]
            /\ reads' = [reads EXCEPT ![l] = conn]
        BY <3>1 DEF RecvTop, Recv
      <4> QED  BY <4>1 DEF TypeOK, ReadsLink
    <3>2. CASE RecvFails(l) \/ RecvAck(l) \/ RecvSignal(l) \/ RecvHandled(l)
               \/ \E n \in 0..MaxAcks : RecvFrames(l, n)
      <4>1. /\ reads' = reads
            /\ \E p \in {"failed", "signal", "handled", "ack", "top"} : recv' = [recv EXCEPT ![l] = p]
        BY <3>2 DEF RecvFails, RecvAck, RecvSignal, RecvHandled, RecvFrames, Recv
      <4> QED  BY <4>1 DEF TypeOK, ReadsLink
    <3>3. CASE RecvEnds(l)
      BY <3>3 DEF RecvEnds, TypeOK, ReadsLink
    <3> QED  BY <2>5, <3>1, <3>2, <3>3 DEF RecvNext, RecvSteps
  <2>6. CASE UNCHANGED vars
    BY <2>1, <2>6 DEF vars, recvVars
  <2> QED  BY <2>2, <2>3, <2>4, <2>5, <2>6 DEF Next
<1> QED  BY <1>1, <1>2, Invariance, PTL DEF Spec

(* Without a connection each step of recv leads out of its loop.           *)
LEMMA RecvNearer ==
  ASSUME Inv, ReadsLink, conn = NoLink, NEW l \in Link, RecvNext(l)
  PROVE  /\ conn' = NoLink /\ UNCHANGED serve
         /\ \A m \in Link : recv'[m] # recv[m] =>
              RecvLeft(recv'[m], acks'[m]) < RecvLeft(recv[m], acks[m])
<1> USE DEF Inv
<1>1. ASSUME NEW p, recv' = [recv EXCEPT ![l] = p],
             RecvLeft(p, acks'[l]) < RecvLeft(recv[l], acks[l])
      PROVE  \A m \in Link : recv'[m] # recv[m] =>
               RecvLeft(recv'[m], acks'[m]) < RecvLeft(recv[m], acks[m])
  BY <1>1 DEF TypeOK
<1>2. \A m \in Link : sock[m] # "open"
  BY DEF OneSocket, TypeOK
<1>3. acks[l] \in Nat
  BY DEF TypeOK
<1>4. CASE RecvTop(l)
  <2>1. recv' = [recv EXCEPT ![l] = "done"] /\ recv[l] = "top" /\ conn' = NoLink /\ UNCHANGED serve
    BY <1>4 DEF RecvTop, Recv, linkVars, serveVars
  <2> QED  BY <1>1, <2>1, RecvTable
<1>5. ASSUME NEW n \in 0..MaxAcks, RecvFrames(l, n) PROVE FALSE
  BY <1>2, <1>5 DEF RecvFrames, ReadsLink
<1>6. CASE RecvFails(l)
  <2>1. recv' = [recv EXCEPT ![l] = "failed"] /\ recv[l] = "read" /\ conn' = NoLink /\ UNCHANGED serve
    BY <1>6 DEF RecvFails, Recv, linkVars, serveVars
  <2> QED  BY <1>1, <2>1, RecvTable
<1>7. CASE RecvAck(l)
  <2>1. PICK p \in {"signal", "handled"} : recv' = [recv EXCEPT ![l] = p]
    BY <1>7 DEF RecvAck, Recv
  <2>2. recv[l] = "ack" /\ acks' = acks /\ conn' = NoLink /\ UNCHANGED serve
    BY <1>7 DEF RecvAck, linkVars, serveVars
  <2>3. RecvLeft(p, acks'[l]) < RecvLeft(recv[l], acks[l])
    BY <1>3, <2>2, RecvTable
  <2> QED  BY <1>1, <2>1, <2>2, <2>3
<1>8. CASE RecvSignal(l)
  <2>1. recv' = [recv EXCEPT ![l] = "handled"] /\ recv[l] = "signal" /\ acks' = acks /\ conn' = NoLink
        /\ UNCHANGED serve
    BY <1>8 DEF RecvSignal, Recv, linkVars, serveVars
  <2>2. RecvLeft("handled", acks'[l]) < RecvLeft(recv[l], acks[l])
    BY <1>3, <2>1, RecvTable
  <2> QED  BY <1>1, <2>1, <2>2
<1>9. CASE RecvHandled(l)
  <2>1. PICK a \in Nat : a = acks[l]
    BY <1>3
  <2>2. recv[l] = "handled" /\ acks'[l] = a - 1 /\ conn' = NoLink /\ UNCHANGED serve
    BY <1>9, <2>1 DEF RecvHandled, TypeOK, linkVars, serveVars
  <2>3. recv' = [recv EXCEPT ![l] = IF a > 1 THEN "ack" ELSE "top"] /\ a >= 1
    BY <1>9, <2>1 DEF RecvHandled, Recv, AcksLeft
  <2>4. CASE a > 1
    <3>1. RecvLeft("ack", a - 1) = 3 * (a - 1) + 1 /\ RecvLeft("handled", a) = 3 * a - 1
      BY RecvTable
    <3>2. RecvLeft("ack", acks'[l]) < RecvLeft(recv[l], acks[l])
      BY <2>1, <2>2, <3>1
    <3> QED  BY <1>1, <2>2, <2>3, <2>4, <3>2
  <2>5. CASE ~(a > 1)
    <3>1. RecvLeft("top", a - 1) = 1 /\ RecvLeft("handled", a) = 3 * a - 1
      BY RecvTable
    <3>2. RecvLeft("top", acks'[l]) < RecvLeft(recv[l], acks[l])
      BY <2>1, <2>2, <2>3, <3>1
    <3> QED  BY <1>1, <2>2, <2>3, <2>5, <3>2
  <2> QED  BY <2>4, <2>5
<1>10. CASE RecvEnds(l)
  <2>1. recv' = [recv EXCEPT ![l] = "done"] /\ recv[l] = "failed" /\ UNCHANGED serve /\ disConnectServer
    BY <1>10 DEF RecvEnds, serveVars
  <2>2. conn' = NoLink
    BY <2>1, DisconnectReleases
  <2> QED  BY <1>1, <2>1, <2>2, RecvTable
<1> QED  BY <1>4, <1>5, <1>6, <1>7, <1>8, <1>9, <1>10 DEF RecvNext, RecvSteps

(* Stop ends serve and recv: after it neither goes round its loop again,   *)
(* whatever the master does and whatever the terminal sends (bridge.go).   *)
THEOREM StopWindsDown == Spec => [][WindsDown]_vars
<1>1. ASSUME Inv, ReadsLink, Next PROVE WindsDown
  <2> USE DEF Inv
  <2>1. CASE ServeSteps \/ HeartWrite
    <3>1. isExit => isExit' /\ ServeLeft(serve') < ServeLeft(serve)
      BY <2>1, ServeNearer
    <3>2. serve # "exit"
      BY <2>1 DEF ServeSteps, HeartWrite, ServeWaits, Pause, Backoff, RetryWait, HeartWait,
         CheckExit, Redial, DialFails, Dial, Dialled, Login, LoginWrite, LoginWait, LoginAcked,
         LoginEnds, LoginFailed, Heart, GiveUp, GaveUp, Leave
    <3> QED  BY <3>1, <3>2 DEF WindsDown
  <2>2. CASE SendNext \/ StopFlag \/ StopEnds \/ \E l \in Link : HangUp(l)
    <3>1. UNCHANGED <<serve, recv>> /\ (isExit => isExit')
      BY <2>2 DEF SendNext, SendBegins, SendGets, SendWrites, SendFails, StopFlag, StopEnds,
         StopStatus, StopClose, StopDisconnect, HangUp, serveVars, recvVars, stopVars
    <3>2. conn = NoLink => conn' = NoLink
      BY <2>2 DEF SendNext, SendBegins, SendGets, SendWrites, SendFails, StopFlag, StopEnds,
         StopStatus, StopClose, StopDisconnect, HangUp, linkVars, disConnectServer
    <3>3. isExit => isExit' /\ (serve' # serve => ServeLeft(serve') < ServeLeft(serve))
      BY <3>1
    <3>4. serve = "exit" => serve' = "exit" /\ conn' = NoLink
      BY <1>1, <3>1, <3>2 DEF ServeFree
    <3>5. \A l \in Link : recv'[l] = recv[l]
      BY <3>1
    <3> QED  BY <3>3, <3>4, <3>5 DEF WindsDown
  <2>3. ASSUME NEW l \in Link, RecvNext(l) PROVE WindsDown
    <3>1. UNCHANGED <<serve, isExit>>
      BY <2>3 DEF RecvNext, RecvSteps, RecvTop, RecvFrames, RecvFails, RecvAck, RecvSignal,
         RecvHandled, RecvEnds, serveVars, stopVars
    <3>2. CASE serve = "exit"
      <4>1. conn = NoLink
        BY <1>1, <3>2 DEF ServeFree
      <4>2. /\ conn' = NoLink
            /\ \A m \in Link : recv'[m] # recv[m] =>
                 RecvLeft(recv'[m], acks'[m]) < RecvLeft(recv[m], acks[m])
        BY <1>1, <2>3, <4>1, RecvNearer
      <4> QED  BY <3>1, <3>2, <4>2 DEF WindsDown
    <3> QED  BY <3>1, <3>2 DEF WindsDown
  <2> QED  BY <1>1, <2>1, <2>2, <2>3 DEF Next
<1> QED  BY <1>1, Invariance, ReadsLinkHolds, PTL DEF Spec
=============================================================================
