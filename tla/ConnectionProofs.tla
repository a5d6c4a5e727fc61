-------------------------- MODULE ConnectionProofs --------------------------
(***************************************************************************)
(* For every number of connections and workers, every assignment of one to *)
(* the other and every limit: the hook runs at most once, no connection is *)
(* forgotten in the manager, MaxConn bounds the open sockets beside the    *)
(* one that the accept loop has in its hand, and a closed socket takes its *)
(* reader and its writer to their end.                                     *)
(***************************************************************************)
EXTENDS Connection, FiniteSetTheorems, SequenceTheorems, TLAPS

(* The compare-and-swap and the hook count the same event: a Stop has won  *)
(* as soon as stopped is set, and it calls the hook before going on.       *)
StopStages ==
  \A c \in Conn : /\ stopped[c] <=> stopper[c] # "none"
                  /\ hooks[c] = IF stopper[c] \in {"none", "hook"} THEN 0 ELSE 1

(* A reader leaves through Stop only. *)
ReaderLeaves == \A c \in Conn : reader[c] = "done" => stopped[c]

(* A reader that queues a frame has one. *)
Pending == \A c \in Conn : reader[c] = "deliver" => pending[c] \in Request

(* Before a connection is in the manager nothing runs for it. *)
Fresh ==
  \A c \in Conn : c \in accepted \/ sock[c] = "none" =>
    c \notin inMgr /\ reader[c] = "none" /\ ~kick[c] /\ ~stopped[c]

(* The manager and the sockets: an open socket is counted unless it is in  *)
(* the accept loop's hand, Stop closes it before it takes the connection   *)
(* out, and no id comes back.                                              *)
Counted ==
  \A c \in Conn :
    /\ c \in accepted => sock[c] # "none"
    /\ sock[c] \in {"open", "hungup"} => c \in inMgr \cup accepted
    /\ stopper[c] \in {"remove", "finish", "done"} => sock[c] = "closed"
    /\ stopper[c] \in {"finish", "done"} => c \notin inMgr

(* The limit, on what the accept loop counts. *)
Limit == IsFiniteSet(inMgr) /\ Cardinality(inMgr) <= MaxConn

(* The loop has one connection in its hand or none. *)
OneInHand == accepted = {} \/ \E c \in Conn : accepted = {c}

(* The inductive invariant. *)
Inv == /\ TypeOK
       /\ StopStages
       /\ ReaderLeaves
       /\ Pending
       /\ Fresh
       /\ Counted
       /\ Limit
       /\ OneInHand

LEMMA InitInv == Init => Inv
<1> SUFFICES ASSUME Init PROVE Inv
  OBVIOUS
<1>1. TypeOK
  BY ConnectionAssumption DEF Init, TypeOK, Idle
<1>2. StopStages /\ ReaderLeaves /\ Pending /\ Fresh /\ Counted /\ OneInHand
  BY DEF Init, StopStages, ReaderLeaves, Pending, Fresh, Counted, OneInHand
<1>3. Limit
  BY FS_EmptySet, ConnectionAssumption DEF Init, Limit
<1>4. QED
  BY <1>1, <1>2, <1>3 DEF Inv

-----------------------------------------------------------------------------
(* The two outcomes of the compare-and-swap. *)
LEMMA WinStopTypes ==
  ASSUME TypeOK, NEW c \in Conn, WinStop(c)
  PROVE  /\ stopped' \in [Conn -> BOOLEAN]
         /\ stopper' \in [Conn -> {"none", "hook", "close", "remove", "finish", "done"}]
<1>1. CASE stopped[c]
  BY <1>1 DEF WinStop, TypeOK
<1>2. CASE ~stopped[c]
  BY <1>2, ZenonT(60) DEF WinStop, TypeOK
<1>3. QED
  BY <1>1, <1>2

(* A caller of Stop either finds it taken or is the one that runs the hook. *)
LEMMA WinStopOutcome ==
  ASSUME TypeOK, NEW c \in Conn, WinStop(c)
  PROVE  \/ stopped[c] /\ stopped' = stopped /\ stopper' = stopper
         \/ /\ ~stopped[c]
            /\ stopped' = [stopped EXCEPT ![c] = TRUE]
            /\ stopper' = [stopper EXCEPT ![c] = "hook"]
BY DEF WinStop

(* Every step keeps the types. *)
LEMMA NextTypes == TypeOK /\ Pending /\ Next => TypeOK'
<1> SUFFICES ASSUME TypeOK, Pending, Next PROVE TypeOK'
  OBVIOUS
<1> USE ConnectionAssumption DEF TypeOK, connVars, outVars, stopVars, workVars
<1>1. ASSUME NEW c \in Conn, AcceptNext(c)
      PROVE  TypeOK'
  <2>1. /\ accepted' \subseteq Conn /\ inMgr' \subseteq Conn
        /\ sock' \in [Conn -> {"none", "open", "hungup", "closed"}]
    <3>1. CASE Accept(c)
      BY <3>1 DEF Accept
    <3>2. CASE Refuse(c)
      BY <3>2 DEF Refuse
    <3>3. CASE Admit(c)
      BY <3>3 DEF Admit
    <3>4. QED
      BY <1>1, <3>1, <3>2, <3>3 DEF AcceptNext
  <2>2. UNCHANGED <<reader, pending, gotFrame, writer, exitSig, buffered, bufOpen,
                  needStop, stopped, kick, stopper, hooks, known, loggedIn, queue, job>>
    BY <1>1 DEF AcceptNext, Accept, Refuse, Admit
  <2>3. QED
    BY <2>1, <2>2
<1>2. ASSUME NEW c \in Conn, Start(c)
      PROVE  TypeOK'
  BY <1>2 DEF Start, Reads
<1>3. ASSUME NEW c \in Conn, PeerHangsUp(c)
      PROVE  TypeOK'
  BY <1>3 DEF PeerHangsUp
<1>4. ASSUME NEW c \in Conn, NEW r \in Request, ReadFrame(c, r)
      PROVE  TypeOK'
  BY <1>4 DEF ReadFrame
<1>5. ASSUME NEW c \in Conn, ReadNothing(c)
      PROVE  TypeOK'
  BY <1>5 DEF ReadNothing
<1>6. ASSUME NEW c \in Conn, ReadError(c)
      PROVE  TypeOK'
  BY <1>6 DEF ReadError
<1>7. ASSUME NEW c \in Conn, Deliver(c)
      PROVE  TypeOK'
  <2>1. /\ queue' \in [Worker -> Seq([conn : Conn, req : Request])]
        /\ reader' \in [Conn -> {"none", "read", "deliver", "check", "stop", "done"}]
        /\ pending' \in [Conn -> Request \cup {"none"}]
    <3>1. pending[c] \in Request
      BY <1>7 DEF Deliver, Pending
    <3>2. Append(queue[WorkerOf[c]], [conn |-> c, req |-> pending[c]])
            \in Seq([conn : Conn, req : Request])
      BY <3>1, AppendProperties, ZenonT(60)
    <3>3. /\ queue' = [queue EXCEPT ![WorkerOf[c]]
                        = Append(@, [conn |-> c, req |-> pending[c]])]
          /\ reader' = [reader EXCEPT ![c] = "check"]
          /\ pending' = [pending EXCEPT ![c] = "none"]
      BY <1>7 DEF Deliver
    <3>4. QED
      BY <3>2, <3>3
  <2>2. UNCHANGED <<accepted, inMgr, sock, gotFrame, writer, exitSig, buffered, bufOpen,
                  needStop, stopped, kick, stopper, hooks, known, loggedIn, job>>
    BY <1>7 DEF Deliver
  <2>3. QED
    BY <2>1, <2>2
<1>8. ASSUME NEW c \in Conn, CheckNeedStop(c)
      PROVE  TypeOK'
  BY <1>8 DEF CheckNeedStop
<1>9. ASSUME NEW c \in Conn, ReaderStops(c)
      PROVE  TypeOK'
  <2>1. /\ reader' \in [Conn -> {"none", "read", "deliver", "check", "stop", "done"}]
        /\ stopped' \in [Conn -> BOOLEAN]
        /\ stopper' \in [Conn -> {"none", "hook", "close", "remove", "finish", "done"}]
    BY <1>9, WinStopTypes DEF ReaderStops
  <2>2. UNCHANGED <<accepted, inMgr, sock, pending, gotFrame, writer, exitSig, buffered,
                  bufOpen, needStop, kick, hooks, known, loggedIn, queue, job>>
    BY <1>9 DEF ReaderStops, WinStop
  <2>3. QED
    BY <2>1, <2>2
<1>10. ASSUME NEW c \in Conn, TakeBuf(c)
      PROVE  TypeOK'
  <2>1. buffered' \in [Conn -> 0..BufLen] /\ writer' \in [Conn -> {"none", "select", "writeMsg", "writeBuf", "done"}]
    BY <1>10 DEF TakeBuf
  <2>2. UNCHANGED <<accepted, inMgr, sock, reader, pending, gotFrame, exitSig, bufOpen,
                  needStop, stopped, kick, stopper, hooks, known, loggedIn, queue, job>>
    BY <1>10 DEF TakeBuf
  <2>3. QED
    BY <2>1, <2>2
<1>11. ASSUME NEW c \in Conn, WriteOk(c)
      PROVE  TypeOK'
  BY <1>11 DEF WriteOk
<1>12. ASSUME NEW c \in Conn, WriteError(c)
      PROVE  TypeOK'
  BY <1>12 DEF WriteError
<1>13. ASSUME NEW c \in Conn, WriterExit(c)
      PROVE  TypeOK'
  BY <1>13 DEF WriterExit
<1>14. ASSUME NEW c \in Conn, KickNext(c)
      PROVE  TypeOK'
  BY <1>14, ZenonT(60) DEF KickNext, Sweep, Kick
<1>15. ASSUME NEW c \in Conn, KickStops(c)
      PROVE  TypeOK'
  <2>1. /\ kick' \in [Conn -> BOOLEAN]
        /\ stopped' \in [Conn -> BOOLEAN]
        /\ stopper' \in [Conn -> {"none", "hook", "close", "remove", "finish", "done"}]
    BY <1>15, WinStopTypes DEF KickStops
  <2>2. UNCHANGED <<accepted, inMgr, sock, reader, pending, gotFrame, writer, exitSig, buffered,
                  bufOpen, needStop, hooks, known, loggedIn, queue, job>>
    BY <1>15 DEF KickStops, WinStop
  <2>3. QED
    BY <2>1, <2>2
<1>16. ASSUME NEW c \in Conn, StopHook(c)
      PROVE  TypeOK'
  <2>1. hooks' \in [Conn -> Nat] /\ stopper' \in [Conn -> {"none", "hook", "close", "remove", "finish", "done"}]
    BY <1>16 DEF StopHook
  <2>2. UNCHANGED <<accepted, inMgr, sock, reader, pending, gotFrame, writer, exitSig, buffered,
                  bufOpen, needStop, stopped, kick, known, loggedIn, queue, job>>
    BY <1>16 DEF StopHook
  <2>3. QED
    BY <2>1, <2>2
<1>17. ASSUME NEW c \in Conn, StopClose(c)
      PROVE  TypeOK'
  BY <1>17 DEF StopClose
<1>18. ASSUME NEW c \in Conn, StopRemove(c)
      PROVE  TypeOK'
  BY <1>18 DEF StopRemove
<1>19. ASSUME NEW c \in Conn, StopFinish(c)
      PROVE  TypeOK'
  BY <1>19 DEF StopFinish
<1>20. ASSUME NEW c \in Conn, ForwardTo(c)
      PROVE  TypeOK'
  <2>1. buffered' \in [Conn -> 0..BufLen]
    BY <1>20 DEF ForwardTo, BuffAccepts
  <2>2. UNCHANGED <<accepted, inMgr, sock, reader, pending, gotFrame, writer, exitSig, bufOpen,
                  needStop, stopped, kick, stopper, hooks, known, loggedIn, queue, job>>
    BY <1>20 DEF ForwardTo
  <2>3. QED
    BY <2>1, <2>2
<1>21. ASSUME NEW w \in Worker, Take(w)
      PROVE  TypeOK'
  <2>1. /\ queue' \in [Worker -> Seq([conn : Conn, req : Request])]
        /\ job' \in [Worker -> {Idle} \cup [at : {"handle", "send"}, conn : Conn, req : Request]]
    <3> DEFINE h == Head(queue[w])
    <3>1. queue[w] \in Seq([conn : Conn, req : Request]) /\ queue[w] # <<>>
      BY <1>21 DEF Take
    <3>2. /\ h \in [conn : Conn, req : Request]
          /\ Tail(queue[w]) \in Seq([conn : Conn, req : Request])
      BY <3>1, HeadTailProperties
    <3>3. JobAt("handle", h.conn, h.req) \in [at : {"handle", "send"}, conn : Conn, req : Request]
      BY <3>2 DEF JobAt
    <3>4. queue' = [queue EXCEPT ![w] = Tail(queue[w])]
      BY <1>21 DEF Take
    <3>5. \/ job' = [job EXCEPT ![w] = Idle]
          \/ job' = [job EXCEPT ![w] = JobAt("handle", h.conn, h.req)]
      BY <1>21 DEF Take
    <3>6. /\ queue \in [Worker -> Seq([conn : Conn, req : Request])]
          /\ job \in [Worker -> {Idle} \cup [at : {"handle", "send"}, conn : Conn, req : Request]]
      OBVIOUS
    <3> HIDE DEF TypeOK, h
    <3>7. queue' \in [Worker -> Seq([conn : Conn, req : Request])]
      BY <3>2, <3>4, <3>6
    <3>8. job' \in [Worker -> {Idle} \cup [at : {"handle", "send"}, conn : Conn, req : Request]]
      BY <3>3, <3>5, <3>6
    <3>9. QED
      BY <3>7, <3>8
  <2>2. UNCHANGED <<accepted, inMgr, sock, reader, pending, gotFrame, writer, exitSig, buffered,
                  bufOpen, needStop, stopped, kick, stopper, hooks, known, loggedIn>>
    BY <1>21 DEF Take
  <2>3. QED
    BY <2>1, <2>2
<1>22. ASSUME NEW w \in Worker, HandleLogin(w)
      PROVE  TypeOK'
  <2>1. job[w].conn \in Conn
    BY <1>22 DEF HandleLogin, Handling, Idle
  <2>2. /\ buffered' \in [Conn -> 0..BufLen]
        /\ loggedIn' \in [Conn -> BOOLEAN]
        /\ job' \in [Worker -> {Idle} \cup [at : {"handle", "send"}, conn : Conn, req : Request]]
    BY <1>22, <2>1 DEF HandleLogin, Handling, BuffAccepts, Idle
  <2>5. known' \in [Conn -> BOOLEAN]
    BY <1>22 DEF HandleLogin, Known
  <2>3. UNCHANGED <<accepted, inMgr, sock, reader, pending, gotFrame, writer, exitSig, bufOpen,
                  needStop, stopped, kick, stopper, hooks, queue>>
    BY <1>22 DEF HandleLogin
  <2>4. QED
    BY <2>2, <2>3, <2>5
<1>23. ASSUME NEW w \in Worker, HandleReject(w)
      PROVE  TypeOK'
  BY <1>23, ZenonT(60) DEF HandleReject, Handling, Idle
<1>24. ASSUME NEW w \in Worker, HandleData(w)
      PROVE  TypeOK'
  <2>1. /\ known' \in [Conn -> BOOLEAN]
        /\ job' \in [Worker -> {Idle} \cup [at : {"handle", "send"}, conn : Conn, req : Request]]
    BY <1>24 DEF HandleData, Known
  <2>2. UNCHANGED <<accepted, inMgr, sock, reader, pending, gotFrame, writer, exitSig, buffered,
                  bufOpen, needStop, stopped, kick, stopper, hooks, loggedIn, queue>>
    BY <1>24 DEF HandleData
  <2>3. QED
    BY <2>1, <2>2
<1>25. ASSUME NEW w \in Worker, HandleExit(w)
      PROVE  TypeOK'
  <2>1. job[w].conn \in Conn
    BY <1>25 DEF HandleExit, Handling, Idle
  <2>2. /\ needStop' \in [Conn -> BOOLEAN]
        /\ job' \in [Worker -> {Idle} \cup [at : {"handle", "send"}, conn : Conn, req : Request]]
    <3>1. "exit" \in Request
      BY <1>25 DEF HandleExit, Handling, Idle
    <3>2. CASE ~known[job[w].conn] \/ stopped[job[w].conn]
      BY <1>25, <2>1, <3>2, ZenonT(60) DEF HandleExit
    <3>3. CASE ~(~known[job[w].conn] \/ stopped[job[w].conn])
      <4>1. /\ job' = [job EXCEPT ![w] = JobAt("send", job[w].conn, "exit")]
            /\ UNCHANGED needStop
        BY <1>25, <3>3 DEF HandleExit
      <4>2. JobAt("send", job[w].conn, "exit")
              \in [at : {"handle", "send"}, conn : Conn, req : Request]
        BY <2>1, <3>1 DEF JobAt
      <4>3. QED
        BY <4>1, <4>2
    <3>4. QED
      BY <3>2, <3>3
  <2>3. UNCHANGED <<accepted, inMgr, sock, reader, pending, gotFrame, writer, exitSig, buffered,
                  bufOpen, stopped, kick, stopper, hooks, loggedIn, queue>>
    BY <1>25 DEF HandleExit
  <2>5. known' \in [Conn -> BOOLEAN]
    BY <1>25 DEF HandleExit, Known
  <2>4. QED
    BY <2>2, <2>3, <2>5
<1>26. ASSUME NEW w \in Worker, TakeMsg(w)
      PROVE  TypeOK'
  BY <1>26 DEF TakeMsg, Idle
<1>27. QED
  BY <1>1, <1>2, <1>3, <1>4, <1>5, <1>6, <1>7, <1>8, <1>9, <1>10, <1>11, <1>12, <1>13,
     <1>14, <1>15, <1>16, <1>17, <1>18, <1>19, <1>20, <1>21, <1>22, <1>23, <1>24, <1>25, <1>26
     DEF Next, ReaderNext, WriterNext, StopNext, HandleNext

-----------------------------------------------------------------------------
(* Only the two callers of Stop touch stopped, and only the winner's own   *)
(* steps move stopper and hooks.                                           *)
LEMMA NextStages == TypeOK /\ StopStages /\ Next => StopStages'
<1> SUFFICES ASSUME TypeOK, StopStages, Next PROVE StopStages'
  OBVIOUS
<1>1. ASSUME NEW c \in Conn, WinStop(c), UNCHANGED hooks
      PROVE  StopStages'
  <2>1. CASE stopped' = stopped /\ stopper' = stopper
    BY <1>1, <2>1 DEF StopStages
  <2>2. CASE /\ ~stopped[c]
             /\ stopped' = [stopped EXCEPT ![c] = TRUE]
             /\ stopper' = [stopper EXCEPT ![c] = "hook"]
    BY <1>1, <2>2 DEF TypeOK, StopStages
  <2>3. QED
    BY <1>1, <2>1, <2>2, WinStopOutcome
<1>2. ASSUME NEW c \in Conn, ReaderStops(c) \/ KickStops(c)
      PROVE  StopStages'
  BY <1>1, <1>2 DEF ReaderStops, KickStops
<1>3. ASSUME NEW c \in Conn, StopNext(c)
      PROVE  StopStages'
  BY <1>3 DEF StopNext, StopHook, StopClose, StopRemove, StopFinish, TypeOK, StopStages
<1>4. ASSUME NEW c \in Conn,
             \/ AcceptNext(c) \/ Start(c) \/ PeerHangsUp(c)
             \/ (\E r \in Request : ReadFrame(c, r)) \/ ReadNothing(c) \/ ReadError(c)
             \/ Deliver(c) \/ CheckNeedStop(c) \/ WriterNext(c) \/ KickNext(c) \/ ForwardTo(c)
      PROVE  UNCHANGED <<stopped, stopper, hooks>>
  BY <1>4 DEF AcceptNext, Accept, Refuse, Admit, Start, PeerHangsUp, ReadFrame, ReadNothing, ReadError, Deliver,
     CheckNeedStop, WriterNext, TakeBuf, WriteOk, WriteError, WriterExit, KickNext, Sweep, Kick, ForwardTo,
     stopVars
<1>5. ASSUME NEW w \in Worker, Take(w) \/ HandleNext(w) \/ TakeMsg(w)
      PROVE  UNCHANGED <<stopped, stopper, hooks>>
  BY <1>5 DEF Take, HandleNext, HandleLogin, HandleReject, HandleData, HandleExit, TakeMsg,
     stopVars
<1>6. CASE UNCHANGED <<stopped, stopper, hooks>>
  BY <1>6 DEF StopStages
<1>7. QED
  BY <1>2, <1>3, <1>4, <1>5, <1>6 DEF Next, ReaderNext

(* What a step may do to the manager, the sockets and the readers. *)
LEMMA NextCounted == Inv /\ Next => ReaderLeaves' /\ Pending' /\ Counted'
<1> SUFFICES ASSUME Inv, Next PROVE ReaderLeaves' /\ Pending' /\ Counted'
  OBVIOUS
<1> USE DEF Inv, TypeOK, ReaderLeaves, Pending, Counted, StopStages
<1>1. ASSUME NEW c \in Conn, AcceptNext(c) \/ Start(c) \/ PeerHangsUp(c)
      PROVE  ReaderLeaves' /\ Pending' /\ Counted'
  <2>1. CASE Start(c) \/ PeerHangsUp(c)
    BY <2>1 DEF Start, PeerHangsUp, Reads, stopVars
  <2>2. CASE AcceptNext(c)
    <3>1. UNCHANGED <<reader, pending, stopped, stopper>>
      BY <2>2 DEF AcceptNext, Accept, Refuse, Admit, stopVars
    <3>2. ReaderLeaves' /\ Pending'
      BY <3>1
    <3>3. CASE Accept(c)
      BY <3>1, <3>3 DEF Accept
    <3>4. CASE Refuse(c)
      BY <3>1, <3>4 DEF Refuse, OneInHand
    <3>5. CASE Admit(c)
      BY <3>1, <3>5 DEF Admit, Fresh, OneInHand
    <3>6. QED
      BY <2>2, <3>2, <3>3, <3>4, <3>5 DEF AcceptNext
  <2>3. QED
    BY <1>1, <2>1, <2>2
<1>2. ASSUME NEW c \in Conn, ReaderNext(c)
      PROVE  ReaderLeaves' /\ Pending' /\ Counted'
  <2>1. CASE \E r \in Request : ReadFrame(c, r)
    BY <2>1 DEF ReadFrame, stopVars
  <2>2. CASE ReadNothing(c) \/ ReadError(c)
    BY <2>2 DEF ReadNothing, ReadError, stopVars
  <2>3. CASE Deliver(c) \/ CheckNeedStop(c)
    <3>1. /\ reader' \in {[reader EXCEPT ![c] = l] : l \in {"check", "read", "stop"}}
          /\ pending' \in {pending, [pending EXCEPT ![c] = "none"]}
          /\ UNCHANGED <<accepted, inMgr, sock, stopped, stopper>>
      BY <2>3 DEF Deliver, CheckNeedStop, stopVars
    <3>2. PICK l \in {"check", "read", "stop"} : reader' = [reader EXCEPT ![c] = l]
      BY <3>1
    <3>3. ReaderLeaves' /\ Counted'
      BY <3>1, <3>2
    <3>4. Pending'
      BY <3>1, <3>2
    <3>5. QED
      BY <3>3, <3>4
  <2>4. CASE ReaderStops(c)
    <3>1. /\ reader' = [reader EXCEPT ![c] = "done"]
          /\ UNCHANGED <<accepted, inMgr, sock, pending>>
      BY <2>4 DEF ReaderStops
    <3>2. CASE stopped[c] /\ stopped' = stopped /\ stopper' = stopper
      BY <3>1, <3>2
    <3>3. CASE /\ ~stopped[c]
               /\ stopped' = [stopped EXCEPT ![c] = TRUE]
               /\ stopper' = [stopper EXCEPT ![c] = "hook"]
      BY <3>1, <3>3
    <3>4. WinStop(c) /\ TypeOK
      BY <2>4 DEF ReaderStops
    <3>5. QED
      BY <3>2, <3>3, <3>4, WinStopOutcome
  <2>5. QED
    BY <1>2, <2>1, <2>2, <2>3, <2>4 DEF ReaderNext
<1>3. ASSUME NEW c \in Conn, WriterNext(c) \/ KickNext(c) \/ ForwardTo(c)
      PROVE  ReaderLeaves' /\ Pending' /\ Counted'
  BY <1>3 DEF WriterNext, TakeBuf, WriteOk, WriteError, WriterExit, KickNext, Sweep, Kick, ForwardTo,
     connVars, stopVars
<1>4. ASSUME NEW c \in Conn, KickStops(c)
      PROVE  ReaderLeaves' /\ Pending' /\ Counted'
  <2>1. UNCHANGED <<accepted, inMgr, sock, reader, pending>>
    BY <1>4 DEF KickStops, connVars
  <2>2. CASE stopped' = stopped /\ stopper' = stopper
    BY <2>1, <2>2
  <2>3. CASE /\ stopped' = [stopped EXCEPT ![c] = TRUE]
             /\ stopper' = [stopper EXCEPT ![c] = "hook"]
    BY <2>1, <2>3
  <2>4. WinStop(c) /\ TypeOK
    BY <1>4 DEF KickStops
  <2>5. QED
    BY <2>2, <2>3, <2>4, WinStopOutcome
<1>5. ASSUME NEW c \in Conn, StopNext(c)
      PROVE  ReaderLeaves' /\ Pending' /\ Counted'
  <2>1. CASE StopHook(c)
    BY <2>1 DEF StopHook, connVars
  <2>2. CASE StopClose(c)
    BY <2>2 DEF StopClose
  <2>3. CASE StopRemove(c)
    BY <2>3 DEF StopRemove
  <2>4. CASE StopFinish(c)
    BY <2>4 DEF StopFinish, connVars
  <2>5. QED
    BY <1>5, <2>1, <2>2, <2>3, <2>4 DEF StopNext
<1>6. ASSUME NEW w \in Worker, Take(w) \/ HandleNext(w) \/ TakeMsg(w)
      PROVE  UNCHANGED <<accepted, inMgr, sock, reader, pending, stopped, stopper>>
  BY <1>6 DEF Take, HandleNext, HandleLogin, HandleReject, HandleData, HandleExit, TakeMsg,
     connVars, stopVars
<1>7. CASE UNCHANGED <<accepted, inMgr, sock, reader, pending, stopped, stopper>>
  BY <1>7
<1>8. QED
  BY <1>1, <1>2, <1>3, <1>4, <1>5, <1>6, <1>7 DEF Next

(* A step that leaves accept loop, manager and sockets where they are and  *)
(* starts, sweeps or stops nothing fresh. *)
LEMMA KeepsFresh ==
  ASSUME Fresh,
         accepted' = accepted /\ inMgr' \subseteq inMgr,
         \A d \in Conn : sock'[d] = "none" => sock[d] = "none",
         \A d \in Conn : reader[d] = "none" => reader'[d] = "none",
         \A d \in Conn : kick'[d] => kick[d] \/ d \in inMgr,
         \A d \in Conn : stopped'[d] => stopped[d] \/ kick[d] \/ reader[d] # "none"
  PROVE  Fresh'
BY DEF Fresh

(* Nothing runs for a connection before it is in the manager. *)
LEMMA NextFresh == Inv /\ Next => Fresh' /\ OneInHand'
<1> SUFFICES ASSUME Inv, Next PROVE Fresh' /\ OneInHand'
  OBVIOUS
<1> USE DEF Inv, TypeOK
<1>1. ASSUME NEW c \in Conn, AcceptNext(c)
      PROVE  Fresh' /\ OneInHand'
  <2>1. UNCHANGED <<reader, kick, stopped>>
    BY <1>1 DEF AcceptNext, Accept, Refuse, Admit, stopVars
  <2>2. CASE Accept(c)
    BY <2>1, <2>2 DEF Accept, Fresh, OneInHand
  <2>3. CASE Refuse(c)
    BY <2>1, <2>3 DEF Refuse, Fresh, OneInHand
  <2>4. CASE Admit(c)
    BY <2>1, <2>4 DEF Admit, Fresh, Counted, OneInHand
  <2>5. QED
    BY <1>1, <2>2, <2>3, <2>4 DEF AcceptNext
<1>2. ASSUME NEW c \in Conn, Start(c)
      PROVE  Fresh'
  BY <1>2 DEF Start, Reads, stopVars, Fresh
<1>3. ASSUME NEW c \in Conn, PeerHangsUp(c)
      PROVE  Fresh'
  BY <1>3 DEF PeerHangsUp, stopVars, Fresh
<1>4. ASSUME NEW c \in Conn, ReaderNext(c)
      PROVE  Fresh'
  <2>1. CASE (\E r \in Request : ReadFrame(c, r)) \/ ReadNothing(c) \/ ReadError(c)
    BY <2>1, KeepsFresh DEF ReadFrame, ReadNothing, ReadError, stopVars
  <2>2. CASE Deliver(c) \/ CheckNeedStop(c)
    BY <2>2, KeepsFresh DEF Deliver, CheckNeedStop, stopVars
  <2>3. CASE ReaderStops(c)
    <3>1. stopped' \in {stopped, [stopped EXCEPT ![c] = TRUE]}
      BY <2>3 DEF ReaderStops, WinStop
    <3>2. /\ reader[c] = "stop" /\ reader' = [reader EXCEPT ![c] = "done"]
          /\ UNCHANGED <<accepted, inMgr, sock, kick>>
      BY <2>3 DEF ReaderStops
    <3>3. QED
      BY <3>1, <3>2, KeepsFresh
  <2>4. QED
    BY <1>4, <2>1, <2>2, <2>3 DEF ReaderNext
<1>5. ASSUME NEW c \in Conn, WriterNext(c) \/ KickNext(c) \/ ForwardTo(c)
      PROVE  Fresh'
  BY <1>5, KeepsFresh DEF WriterNext, TakeBuf, WriteOk, WriteError, WriterExit, KickNext, Sweep, Kick,
     ForwardTo, connVars, stopVars
<1>6. ASSUME NEW c \in Conn, KickStops(c)
      PROVE  Fresh'
  <2>1. stopped' \in {stopped, [stopped EXCEPT ![c] = TRUE]}
    BY <1>6 DEF KickStops, WinStop
  <2>2. /\ kick[c] /\ kick' = [kick EXCEPT ![c] = FALSE]
        /\ UNCHANGED <<accepted, inMgr, sock, reader>>
    BY <1>6 DEF KickStops, connVars
  <2>3. QED
    BY <2>1, <2>2, KeepsFresh
<1>7. ASSUME NEW c \in Conn, StopNext(c)
      PROVE  Fresh'
  BY <1>7, KeepsFresh DEF StopNext, StopHook, StopClose, StopRemove, StopFinish, connVars
<1>8. ASSUME NEW w \in Worker, Take(w) \/ HandleNext(w) \/ TakeMsg(w)
      PROVE  Fresh'
  <2>1. UNCHANGED <<accepted, inMgr, sock, reader, kick, stopped>>
    BY <1>8 DEF Take, HandleNext, HandleLogin, HandleReject, HandleData, HandleExit, TakeMsg,
       connVars, stopVars
  <2>2. QED
    BY <2>1 DEF Fresh
<1>9. (\E c \in Conn : AcceptNext(c)) \/ accepted' = accepted
  BY DEF Next, Start, PeerHangsUp, ReaderNext, ReadFrame, ReadNothing, ReadError, Deliver,
     CheckNeedStop, ReaderStops, WriterNext, TakeBuf, WriteOk, WriteError, WriterExit, KickNext, Sweep, Kick,
     KickStops, StopNext, StopHook, StopClose, StopRemove, StopFinish, ForwardTo, Take,
     HandleNext, HandleLogin, HandleReject, HandleData, HandleExit, TakeMsg, connVars
<1>10. CASE Fresh' /\ accepted' = accepted
  BY <1>10 DEF OneInHand
<1>11. QED
  BY <1>1, <1>2, <1>3, <1>4, <1>5, <1>6, <1>7, <1>8, <1>9, <1>10 DEF Next

(* The manager grows below the limit only. *)
LEMMA NextLimit == Limit /\ Next => Limit'
<1> SUFFICES ASSUME Limit, Next PROVE Limit'
  OBVIOUS
<1>1. ASSUME NEW c \in Conn, Admit(c)
      PROVE  Limit'
  <2>1. inMgr' = inMgr \cup {c} /\ Cardinality(inMgr) < MaxConn
    BY <1>1 DEF Admit
  <2>2. IsFiniteSet(inMgr') /\ Cardinality(inMgr') \in {Cardinality(inMgr), Cardinality(inMgr) + 1}
    BY <2>1, FS_AddElement DEF Limit
  <2>3. Cardinality(inMgr) \in Nat
    BY FS_CardinalityType DEF Limit
  <2>4. QED
    BY <2>1, <2>2, <2>3, ConnectionAssumption DEF Limit
<1>2. ASSUME inMgr' \subseteq inMgr
      PROVE  Limit'
  <2>1. IsFiniteSet(inMgr') /\ Cardinality(inMgr') <= Cardinality(inMgr)
    BY <1>2, FS_Subset DEF Limit
  <2>2. Cardinality(inMgr) \in Nat /\ Cardinality(inMgr') \in Nat
    BY <2>1, FS_CardinalityType DEF Limit
  <2>3. QED
    BY <2>1, <2>2, ConnectionAssumption DEF Limit
<1>3. (\E c \in Conn : Admit(c)) \/ inMgr' \subseteq inMgr
  BY DEF Next, AcceptNext, Accept, Refuse, Start, PeerHangsUp, ReaderNext, ReadFrame, ReadNothing, ReadError, Deliver,
     CheckNeedStop, ReaderStops, WriterNext, TakeBuf, WriteOk, WriteError, WriterExit, KickNext, Sweep, Kick,
     KickStops, StopNext, StopHook, StopClose, StopRemove, StopFinish, ForwardTo, Take,
     HandleNext, HandleLogin, HandleReject, HandleData, HandleExit, TakeMsg, connVars
<1>4. QED
  BY <1>1, <1>2, <1>3

LEMMA NextInv == Inv /\ [Next]_vars => Inv'
<1>1. CASE UNCHANGED vars
  BY <1>1 DEF Inv, TypeOK, StopStages, ReaderLeaves, Pending, Fresh, Counted, Limit, OneInHand, vars, connVars,
     outVars, stopVars, workVars
<1>2. CASE Next
  BY <1>2, NextTypes, NextStages, NextCounted, NextFresh, NextLimit DEF Inv
<1>3. QED
  BY <1>1, <1>2

-----------------------------------------------------------------------------
(* The invariant holds in every reachable state. *)
THEOREM Invariance == Spec => []Inv
BY InitInv, NextInv, PTL DEF Spec

(* The types of the connections' state. *)
THEOREM ConnectionTypes == Spec => []TypeOK
<1>1. Inv => TypeOK
  BY DEF Inv
<1>2. QED
  BY <1>1, Invariance, PTL

(* However many goroutines call Stop, the hook runs at most once           *)
(* (connection.go:216-221).                                                *)
THEOREM HookRunsOnce == Spec => []StopsOnce
<1>1. Inv => StopsOnce
  BY DEF Inv, StopStages, StopsOnce
<1>2. QED
  BY <1>1, Invariance, PTL

(* A connection that the manager still counts will be taken out of it by   *)
(* somebody (connection.go:175-193, 216-230).                              *)
THEOREM NoneForgotten == Spec => []NobodyForgotten
<1>1. Inv => NobodyForgotten
  BY DEF Inv, TypeOK, StopStages, ReaderLeaves, Counted, NobodyForgotten
<1>2. QED
  BY <1>1, Invariance, PTL

(* Beside one socket in the accept loop's hand no more than MaxConn are     *)
(* open (server.go:98-131).                                                *)
THEOREM SocketsWithinMaxConn == Spec => []WithinMaxConn
<1>1. Inv => WithinMaxConn
  <2> SUFFICES ASSUME Inv PROVE WithinMaxConn
    OBVIOUS
  <2> DEFINE Open == {c \in Conn \ accepted : sock[c] \in {"open", "hungup"}}
  <2>1. Open \subseteq inMgr
    BY DEF Inv, Counted
  <2>2. IsFiniteSet(Open) /\ Cardinality(Open) <= Cardinality(inMgr)
    BY <2>1, FS_Subset DEF Inv, Limit
  <2>3. Cardinality(Open) \in Nat /\ Cardinality(inMgr) \in Nat
    BY <2>2, FS_CardinalityType DEF Inv, Limit
  <2>4. Cardinality(Open) <= MaxConn
    BY <2>2, <2>3, ConnectionAssumption DEF Inv, Limit
  <2>5. Cardinality(accepted) <= 1
    BY FS_EmptySet, FS_Singleton DEF Inv, OneInHand
  <2>6. QED
    BY <2>4, <2>5 DEF WithinMaxConn
<1>2. QED
  BY <1>1, Invariance, PTL

-----------------------------------------------------------------------------
(* After Conn.Close *)

(* How many steps a reader and a writer have at most still to make once    *)
(* the socket is closed.                                                   *)
ReaderLeft(p) ==
  CASE p \in {"none", "done"} -> 0
    [] p = "stop" -> 1
    [] p = "read" -> 2
    [] p = "check" -> 3
    [] p = "deliver" -> 4

WriterLeft(p) ==
  CASE p \in {"none", "done"} -> 0
    [] p \in {"writeMsg", "writeBuf"} -> 1
    [] p = "select" -> 2

(* A closed socket stays closed, and from then on neither goroutine goes   *)
(* round its loop again, whatever is still queued, sent or asked of the    *)
(* connection: each of their steps leads nearer to their end               *)
(* (StartReader, StartWriter and Stop of connection.go).                   *)
WindsDown ==
  \A c \in Conn : sock[c] = "closed" =>
    /\ sock'[c] = "closed"
    /\ reader'[c] # reader[c] => ReaderLeft(reader'[c]) < ReaderLeft(reader[c])
    /\ writer'[c] # writer[c] => WriterLeft(writer'[c]) < WriterLeft(writer[c])

(* The two tables, row by row. *)
LEMMA LeftTables ==
  /\ ReaderLeft("done") = 0 /\ ReaderLeft("stop") = 1 /\ ReaderLeft("read") = 2
  /\ ReaderLeft("check") = 3 /\ ReaderLeft("deliver") = 4
  /\ WriterLeft("done") = 0 /\ WriterLeft("writeMsg") = 1 /\ WriterLeft("writeBuf") = 1
  /\ WriterLeft("select") = 2
BY DEF ReaderLeft, WriterLeft

(* A change of sockets, readers and writers that keeps d's socket closed.  *)
Nearer(d) ==
  sock[d] = "closed" =>
    /\ sock'[d] = "closed"
    /\ reader'[d] # reader[d] => ReaderLeft(reader'[d]) < ReaderLeft(reader[d])
    /\ writer'[d] # writer[d] => WriterLeft(writer'[d]) < WriterLeft(writer[d])

(* A step of a reader.                                                    *)
LEMMA ReaderNearer ==
  ASSUME TypeOK, NEW c \in Conn, ReaderNext(c), NEW d \in Conn
  PROVE  Nearer(d)
<1>1. CASE \E r \in Request : ReadFrame(c, r)
  BY <1>1 DEF ReadFrame, TypeOK, Nearer, outVars
<1>2. CASE ReadNothing(c)
  BY <1>2 DEF ReadNothing, TypeOK, Nearer, outVars
<1>3. CASE ReadError(c) \/ Deliver(c) \/ CheckNeedStop(c) \/ ReaderStops(c)
  <2>1. /\ sock' = sock /\ writer' = writer
        /\ \E q \in {"stop", "check", "read", "done"} :
             /\ reader' = [reader EXCEPT ![c] = q]
             /\ <<reader[c], q>> \in {<<"read", "stop">>, <<"deliver", "check">>, <<"check", "stop">>,
                                      <<"check", "read">>, <<"stop", "done">>}
    BY <1>3 DEF ReadError, Deliver, CheckNeedStop, ReaderStops, outVars
  <2>2. PICK q \in {"stop", "check", "read", "done"} :
          /\ reader' = [reader EXCEPT ![c] = q]
          /\ <<reader[c], q>> \in {<<"read", "stop">>, <<"deliver", "check">>, <<"check", "stop">>,
                                   <<"check", "read">>, <<"stop", "done">>}
    BY <2>1
  <2>3. ReaderLeft(q) < ReaderLeft(reader[c])
    BY <2>2, LeftTables
  <2> QED  BY <2>1, <2>2, <2>3 DEF TypeOK, Nearer
<1> QED  BY <1>1, <1>2, <1>3 DEF ReaderNext

(* A step of a writer.                                                    *)
LEMMA WriterNearer ==
  ASSUME TypeOK, NEW c \in Conn, WriterNext(c), NEW d \in Conn
  PROVE  Nearer(d)
<1>1. CASE WriteOk(c)
  BY <1>1 DEF WriteOk, TypeOK, Nearer, connVars
<1>2. CASE TakeBuf(c) \/ WriteError(c) \/ WriterExit(c)
  <2>1. /\ reader' = reader /\ sock' \in {sock, [sock EXCEPT ![c] = "closed"]}
        /\ \E q \in {"writeBuf", "done"} :
             /\ writer' = [writer EXCEPT ![c] = q]
             /\ <<writer[c], q>> \in {<<"select", "writeBuf">>, <<"writeMsg", "done">>,
                                      <<"writeBuf", "done">>, <<"select", "done">>}
    BY <1>2 DEF TakeBuf, WriteError, WriterExit, connVars
  <2>2. PICK q \in {"writeBuf", "done"} :
          /\ writer' = [writer EXCEPT ![c] = q]
          /\ <<writer[c], q>> \in {<<"select", "writeBuf">>, <<"writeMsg", "done">>,
                                   <<"writeBuf", "done">>, <<"select", "done">>}
    BY <2>1
  <2>3. WriterLeft(q) < WriterLeft(writer[c])
    BY <2>2, LeftTables
  <2>4. sock[d] = "closed" => sock'[d] = "closed"
    BY <2>1 DEF TypeOK
  <2> QED  BY <2>1, <2>2, <2>3, <2>4 DEF TypeOK, Nearer
<1> QED  BY <1>1, <1>2 DEF WriterNext

(* A step of accept, sweep, console, Stop or a forward worker.            *)
LEMMA OthersNearer ==
  ASSUME TypeOK, NEW c \in Conn, NEW d \in Conn,
         AcceptNext(c) \/ Start(c) \/ PeerHangsUp(c) \/ KickNext(c) \/ KickStops(c) \/ StopNext(c) \/ ForwardTo(c)
  PROVE  Nearer(d)
<1>1. CASE AcceptNext(c) \/ PeerHangsUp(c)
  BY <1>1 DEF AcceptNext, Accept, Refuse, Admit, PeerHangsUp, TypeOK, Nearer, outVars
<1>2. CASE Start(c)
  BY <1>2 DEF Start, Reads, TypeOK, Nearer
<1>3. CASE KickNext(c) \/ KickStops(c) \/ StopNext(c) \/ ForwardTo(c)
  <2>1. reader' = reader /\ writer' = writer /\ sock' \in {sock, [sock EXCEPT ![c] = "closed"]}
    BY <1>3 DEF KickNext, Sweep, Kick, KickStops, StopNext, StopHook, StopClose, StopRemove, StopFinish,
                ForwardTo, connVars, outVars
  <2> QED  BY <2>1 DEF TypeOK, Nearer
<1> QED  BY <1>1, <1>2, <1>3

(* A step of a worker, which may hand the writer a payload.               *)
LEMMA WorkNearer ==
  ASSUME TypeOK, NEW w \in Worker, NEW d \in Conn, Take(w) \/ HandleNext(w) \/ TakeMsg(w)
  PROVE  Nearer(d)
<1>1. CASE Take(w) \/ HandleNext(w)
  BY <1>1 DEF Take, HandleNext, HandleLogin, HandleReject, HandleData, HandleExit, Nearer,
              connVars, outVars
<1>2. CASE TakeMsg(w)
  <2>1. /\ reader' = reader /\ sock' = sock
        /\ writer[job[w].conn] = "select"
        /\ writer' = [writer EXCEPT ![job[w].conn] = "writeMsg"]
    BY <1>2 DEF TakeMsg, connVars
  <2> QED  BY <2>1, LeftTables DEF TypeOK, Nearer
<1> QED  BY <1>1, <1>2

(* A connection whose socket is closed lets its two goroutines go: neither *)
(* goes round its loop again (StartReader, StartWriter, connection.go).    *)
THEOREM CloseWindsDown == Spec => [][WindsDown]_vars
<1>1. ASSUME TypeOK, Next PROVE WindsDown
  <2>1. \A d \in Conn : Nearer(d)
    BY <1>1, ReaderNearer, WriterNearer, OthersNearer, WorkNearer DEF Next
  <2> QED  BY <2>1 DEF WindsDown, Nearer
<1> QED  BY <1>1, ConnectionTypes, PTL DEF Spec
=============================================================================
