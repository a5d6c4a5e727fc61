----------------------------- MODULE Connection -----------------------------
(***************************************************************************)
(* The life of the TCP connections of znet: the accept loop, and for each  *)
(* connection its reader goroutine, its writer goroutine, the goroutine    *)
(* that runs Stop, the shared worker that handles its frames, and the idle *)
(* sweep.  One action is one step between two operations that another      *)
(* goroutine can see (a channel operation, a lock, an atomic, the socket). *)
(*                                                                         *)
(* A frame is only what its handler does to this connection (Request).     *)
(***************************************************************************)
EXTENDS Naturals, Sequences, FiniteSets

CONSTANTS
  Conn,         (* the connections of a run, each used once                *)
  Worker,       (* the worker pool                                         *)
  WorkerOf,     (* ConnID % WorkerPoolSize                                 *)
  Request,      (* the kinds of frame that may arrive                      *)
  MaxConn,      (* config MaxConn                                          *)
  QueueLen,     (* config MaxWorkerTaskLen                                 *)
  BufLen        (* config MaxMsgChanLen                                    *)

ASSUME ConnectionAssumption ==
  /\ WorkerOf \in [Conn -> Worker]
  /\ Request \subseteq {"login", "reject", "data", "exit"}
  /\ MaxConn \in Nat /\ QueueLen \in Nat \ {0} /\ BufLen \in Nat \ {0}

VARIABLES
  accepted,  (* the connection in the accept loop's hand, if any: a set    *)
  inMgr,     (* the keys of ConnManager.connections                        *)
  sock,      (* sock[c]: "none", "open", "hungup" (by the peer), "closed"  *)
  reader,    (* reader[c]: none, read, deliver, check, stop, done          *)
  pending,   (* pending[c]: the frame the reader is queueing               *)
  writer,    (* writer[c]: none, select, writeMsg, writeBuf, done          *)
  exitSig,   (* exitSig[c]: ExitBuffChan can be received from              *)
  buffered,  (* buffered[c]: payloads in msgBuffChan                       *)
  bufOpen,   (* bufOpen[c]: ~msgBuffChanIsClosed                           *)
  needStop, stopped,
  kick,      (* kick[c]: a "go c.Stop()" has not run yet                   *)
  stopper,   (* stopper[c]: where the Stop that won the CAS is             *)
  hooks,     (* hooks[c]: how often OnConnStop was called                  *)
  gotFrame,  (* gotFrame[c]: rxFrames > 0                                  *)
  known,     (* known[c]: its status is that of a terminal                 *)
  loggedIn,  (* loggedIn[c]: ltime is set                                  *)
  queue,     (* queue[w]: TaskQueue of worker w                            *)
  job        (* job[w]: what worker w is doing                             *)

connVars == <<accepted, inMgr, sock, reader, pending, gotFrame>>
outVars  == <<writer, exitSig, buffered, bufOpen>>
stopVars == <<needStop, stopped, kick, stopper, hooks>>
workVars == <<known, loggedIn, queue, job>>
vars     == <<connVars, outVars, stopVars, workVars>>

Idle == [at |-> "idle"]
JobAt(p, c, r) == [at |-> p, conn |-> c, req |-> r]
Reads(c) == reader' = [reader EXCEPT ![c] = "read"]

Init ==
  /\ accepted = {} /\ inMgr = {}
  /\ sock = [c \in Conn |-> "none"]
  /\ reader = [c \in Conn |-> "none"]
  /\ pending = [c \in Conn |-> "none"]
  /\ writer = [c \in Conn |-> "none"]
  /\ exitSig = [c \in Conn |-> FALSE]
  /\ buffered = [c \in Conn |-> 0]
  /\ bufOpen = [c \in Conn |-> TRUE]
  /\ needStop = [c \in Conn |-> FALSE]
  /\ stopped = [c \in Conn |-> FALSE]
  /\ kick = [c \in Conn |-> FALSE]
  /\ stopper = [c \in Conn |-> "none"]
  /\ hooks = [c \in Conn |-> 0]
  /\ gotFrame = [c \in Conn |-> FALSE]
  /\ known = [c \in Conn |-> FALSE]
  /\ loggedIn = [c \in Conn |-> FALSE]
  /\ queue = [w \in Worker |-> <<>>]
  /\ job = [w \in Worker |-> Idle]

-----------------------------------------------------------------------------
(* Accept loop *)

(* AcceptTCP: the socket is open before anything is compared, and the loop *)
(* has one such socket at a time.                                          *)
Accept(c) ==
  /\ accepted = {} /\ sock[c] = "none"
  /\ accepted' = {c}
  /\ sock' = [sock EXCEPT ![c] = "open"]
  /\ UNCHANGED <<inMgr, reader, pending, gotFrame, outVars, stopVars, workVars>>

(* At MaxConn connections it is closed again. *)
Refuse(c) ==
  /\ c \in accepted /\ Cardinality(inMgr) >= MaxConn
  /\ accepted' = {}
  /\ sock' = [sock EXCEPT ![c] = "closed"]
  /\ UNCHANGED <<inMgr, reader, pending, gotFrame, outVars, stopVars, workVars>>

(* Below it NewConntion puts it into the manager. *)
Admit(c) ==
  /\ c \in accepted /\ Cardinality(inMgr) < MaxConn
  /\ accepted' = {} /\ inMgr' = inMgr \cup {c}
  /\ UNCHANGED <<sock, reader, pending, gotFrame, outVars, stopVars, workVars>>

(* go dealConn.Start(): the hook, then both goroutines; nothing closes the *)
(* socket of an admitted connection before that.                           *)
Start(c) ==
  /\ c \in inMgr /\ reader[c] = "none" /\ sock[c] # "closed"
  /\ Reads(c)
  /\ writer' = [writer EXCEPT ![c] = "select"]
  /\ UNCHANGED <<accepted, inMgr, sock, pending, gotFrame, exitSig, buffered, bufOpen,
                 stopVars, workVars>>

(* The peer closes or resets its end. *)
PeerHangsUp(c) ==
  /\ sock[c] = "open"
  /\ sock' = [sock EXCEPT ![c] = "hungup"]
  /\ UNCHANGED <<accepted, inMgr, reader, pending, gotFrame, outVars, stopVars, workVars>>

-----------------------------------------------------------------------------
(* Reader goroutine *)

(* Read returns bytes: a complete frame to queue, or none (then the loop's *)
(* needStop test follows).                                                 *)
ReadFrame(c, r) ==
  /\ reader[c] = "read" /\ sock[c] = "open"
  /\ reader' = [reader EXCEPT ![c] = "deliver"]
  /\ pending' = [pending EXCEPT ![c] = r]
  /\ gotFrame' = [gotFrame EXCEPT ![c] = TRUE]
  /\ UNCHANGED <<accepted, inMgr, sock, outVars, stopVars, workVars>>

ReadNothing(c) ==
  /\ reader[c] = "read" /\ sock[c] = "open"
  /\ reader' = [reader EXCEPT ![c] = "check"]
  /\ UNCHANGED <<accepted, inMgr, sock, pending, gotFrame, outVars, stopVars, workVars>>

(* Mutant: the reader leaves on an error without its deferred Stop. *)
ReadErrorLeaves(c) ==
  /\ reader[c] = "read" /\ sock[c] \in {"hungup", "closed"}
  /\ reader' = [reader EXCEPT ![c] = "done"]
  /\ UNCHANGED <<accepted, inMgr, sock, pending, gotFrame, outVars, stopVars, workVars>>

ReadError(c) ==
  /\ reader[c] = "read" /\ sock[c] \in {"hungup", "closed"}
  /\ reader' = [reader EXCEPT ![c] = "stop"]
  /\ UNCHANGED <<accepted, inMgr, sock, pending, gotFrame, outVars, stopVars, workVars>>

(* SendMsgToTaskQueue blocks while the worker's queue is full. *)
Deliver(c) ==
  LET w == WorkerOf[c]
  IN  /\ reader[c] = "deliver"
      /\ Len(queue[w]) < QueueLen
      /\ queue' = [queue EXCEPT ![w] = Append(@, [conn |-> c, req |-> pending[c]])]
      /\ reader' = [reader EXCEPT ![c] = "check"]
      /\ pending' = [pending EXCEPT ![c] = "none"]
      /\ UNCHANGED <<accepted, inMgr, sock, gotFrame, outVars, stopVars, known, loggedIn, job>>

(* Mutant: the loop returns on needStop without calling Stop. *)
CheckLeaves(c) ==
  /\ reader[c] = "check"
  /\ reader' = [reader EXCEPT ![c] = IF needStop[c] THEN "done" ELSE "read"]
  /\ UNCHANGED <<accepted, inMgr, sock, pending, gotFrame, outVars, stopVars, workVars>>

CheckNeedStop(c) ==
  /\ reader[c] = "check"
  /\ reader' = [reader EXCEPT ![c] = IF needStop[c] THEN "stop" ELSE "read"]
  /\ UNCHANGED <<accepted, inMgr, sock, pending, gotFrame, outVars, stopVars, workVars>>

-----------------------------------------------------------------------------
(* Writer goroutine *)

(* The channel variable is set to nil without the writer's knowledge (it   *)
(* reads it unlocked), so a closed channel may still yield what it holds.  *)
TakeBuf(c) ==
  /\ writer[c] = "select" /\ buffered[c] > 0
  /\ buffered' = [buffered EXCEPT ![c] = @ - 1]
  /\ writer' = [writer EXCEPT ![c] = "writeBuf"]
  /\ UNCHANGED <<exitSig, bufOpen, connVars, stopVars, workVars>>

WriteOk(c) ==
  /\ writer[c] \in {"writeMsg", "writeBuf"} /\ sock[c] = "open"
  /\ writer' = [writer EXCEPT ![c] = "select"]
  /\ UNCHANGED <<exitSig, buffered, bufOpen, connVars, stopVars, workVars>>

(* A failed write closes the socket and ends the writer; msgBuffChan is    *)
(* closed only if the payload came from it.                                *)
WriteError(c) ==
  /\ writer[c] \in {"writeMsg", "writeBuf"} /\ sock[c] \in {"hungup", "closed"}
  /\ writer' = [writer EXCEPT ![c] = "done"]
  /\ bufOpen' = [bufOpen EXCEPT ![c] = @ /\ writer[c] = "writeMsg"]
  /\ sock' = [sock EXCEPT ![c] = "closed"]
  /\ UNCHANGED <<accepted, inMgr, reader, pending, gotFrame, exitSig, buffered, stopVars,
                 workVars>>

WriterExit(c) ==
  /\ writer[c] = "select" /\ exitSig[c]
  /\ writer' = [writer EXCEPT ![c] = "done"]
  /\ UNCHANGED <<exitSig, buffered, bufOpen, connVars, stopVars, workVars>>

-----------------------------------------------------------------------------
(* Stop *)

(* Mutant: stopped is tested and set in two steps, so the test is of no use. *)
WinStopTwice(c) == /\ stopped' = [stopped EXCEPT ![c] = TRUE]
                   /\ stopper' = [stopper EXCEPT ![c] = "hook"]

(* The compare-and-swap: only the first caller goes on. *)
WinStop(c) ==
  IF stopped[c] THEN UNCHANGED <<stopped, stopper>>
  ELSE /\ stopped' = [stopped EXCEPT ![c] = TRUE]
       /\ stopper' = [stopper EXCEPT ![c] = "hook"]

ReaderStops(c) ==
  /\ reader[c] = "stop"
  /\ reader' = [reader EXCEPT ![c] = "done"]
  /\ WinStop(c)
  /\ UNCHANGED <<accepted, inMgr, sock, pending, gotFrame, outVars, needStop, kick, hooks,
                 workVars>>

(* Mutant: the sweep knows only the first-frame timeout. *)
SweepFirstFrame(c) ==
  /\ c \in inMgr /\ ~stopped[c] /\ reader[c] # "none"
  /\ ~gotFrame[c]
  /\ kick' = [kick EXCEPT ![c] = TRUE]
  /\ UNCHANGED <<needStop, stopped, stopper, hooks, connVars, outVars, workVars>>

(* The sweep closes a connection without a first frame, or silent for too  *)
(* long after its login; one with frames and no login is never swept.      *)
Sweep(c) ==
  /\ c \in inMgr /\ ~stopped[c] /\ reader[c] # "none"
  /\ ~gotFrame[c] \/ loggedIn[c]
  /\ kick' = [kick EXCEPT ![c] = TRUE]
  /\ UNCHANGED <<needStop, stopped, stopper, hooks, connVars, outVars, workVars>>

(* The console closes a registered terminal, so one that has sent a frame. *)
Kick(c) ==
  /\ c \in inMgr /\ gotFrame[c]
  /\ kick' = [kick EXCEPT ![c] = TRUE]
  /\ UNCHANGED <<needStop, stopped, stopper, hooks, connVars, outVars, workVars>>

KickStops(c) ==
  /\ kick[c]
  /\ kick' = [kick EXCEPT ![c] = FALSE]
  /\ WinStop(c)
  /\ UNCHANGED <<needStop, hooks, connVars, outVars, workVars>>

StopHook(c) ==
  /\ stopper[c] = "hook"
  /\ stopper' = [stopper EXCEPT ![c] = "close"]
  /\ hooks' = [hooks EXCEPT ![c] = @ + 1]
  /\ UNCHANGED <<needStop, stopped, kick, connVars, outVars, workVars>>

(* Mutant: the exit signal is forgotten. *)
StopCloseSilently(c) ==
  /\ stopper[c] = "close"
  /\ stopper' = [stopper EXCEPT ![c] = "remove"]
  /\ sock' = [sock EXCEPT ![c] = "closed"]
  /\ UNCHANGED <<needStop, stopped, kick, hooks, accepted, inMgr, reader, pending, gotFrame,
                 writer, exitSig, buffered, bufOpen, workVars>>

(* Mutant: the socket is not closed. *)
StopCloseKeepsSocket(c) ==
  /\ stopper[c] = "close"
  /\ stopper' = [stopper EXCEPT ![c] = "remove"]
  /\ exitSig' = [exitSig EXCEPT ![c] = TRUE]
  /\ UNCHANGED <<needStop, stopped, kick, hooks, connVars, writer, buffered, bufOpen,
                 workVars>>

(* Conn.Close(), then the exit signal. *)
StopClose(c) ==
  /\ stopper[c] = "close"
  /\ stopper' = [stopper EXCEPT ![c] = "remove"]
  /\ sock' = [sock EXCEPT ![c] = "closed"]
  /\ exitSig' = [exitSig EXCEPT ![c] = TRUE]
  /\ UNCHANGED <<needStop, stopped, kick, hooks, accepted, inMgr, reader, pending, gotFrame,
                 writer, buffered, bufOpen, workVars>>

StopRemove(c) ==
  /\ stopper[c] = "remove"
  /\ stopper' = [stopper EXCEPT ![c] = "finish"]
  /\ inMgr' = inMgr \ {c}
  /\ UNCHANGED <<needStop, stopped, kick, hooks, accepted, sock, reader, pending, gotFrame,
                 outVars, workVars>>

StopFinish(c) ==
  /\ stopper[c] = "finish"
  /\ stopper' = [stopper EXCEPT ![c] = "done"]
  /\ bufOpen' = [bufOpen EXCEPT ![c] = FALSE]
  /\ UNCHANGED <<needStop, stopped, kick, hooks, connVars, writer, exitSig,
                 buffered, workVars>>

-----------------------------------------------------------------------------
(* Worker and handlers *)

(* The next request; Handle returns at once if the connection IsStop. *)
Take(w) ==
  /\ job[w] = Idle /\ queue[w] # <<>>
  /\ LET h == Head(queue[w])
     IN job' = [job EXCEPT ![w] = IF needStop[h.conn] \/ stopped[h.conn] THEN Idle
                                  ELSE JobAt("handle", h.conn, h.req)]
  /\ queue' = [queue EXCEPT ![w] = Tail(@)]
  /\ UNCHANGED <<known, loggedIn, connVars, outVars, stopVars>>

Handling(w, r) == job[w].at = "handle" /\ job[w].req = r

(* A frame that is let through: setRoutingStatus.  Handle reads the status *)
(* before that, so what it does depends on the frames before this one.     *)
Known(c) == known' = [known EXCEPT ![c] = TRUE]

(* Mutant: a full channel is not noticed. *)
BuffAcceptsFull(c) == bufOpen[c]

(* SendBuffMsg: an error on a closed or full channel, never a wait. *)
BuffAccepts(c) == bufOpen[c] /\ buffered[c] < BufLen

(* A login that is accepted: ltime is set if the reply could be queued. *)
HandleLogin(w) ==
  LET c == job[w].conn
  IN  /\ Handling(w, "login")
      /\ job' = [job EXCEPT ![w] = Idle]
      /\ Known(c)
      /\ buffered' = [buffered EXCEPT ![c] = IF BuffAccepts(c) THEN @ + 1 ELSE @]
      /\ loggedIn' = [loggedIn EXCEPT ![c] = @ \/ BuffAccepts(c)]
      /\ UNCHANGED <<queue, connVars, writer, exitSig, bufOpen, stopVars>>

(* A frame the connection may not send (of the other side, a blacklisted  *)
(* login, a heartbeat before the login): NeedStop, and no later frame of   *)
(* it is handled, so its status no longer matters.                         *)
HandleReject(w) ==
  LET c == job[w].conn
  IN  /\ Handling(w, "reject")
      /\ job' = [job EXCEPT ![w] = Idle]
      /\ needStop' = [needStop EXCEPT ![c] = TRUE]
      /\ UNCHANGED <<known, loggedIn, queue, connVars, outVars, stopped, kick, stopper,
                     hooks>>

(* Any other frame that is let through; what it is answered with ForwardTo *)
(* stands for.                                                             *)
HandleData(w) ==
  LET c == job[w].conn
  IN  /\ Handling(w, "data")
      /\ job' = [job EXCEPT ![w] = Idle]
      /\ Known(c)
      /\ UNCHANGED <<loggedIn, queue, connVars, outVars, stopVars>>

(* A logout as a connection's first frame is refused; a later one is       *)
(* answered with SendMsg, which waits for the writer unless the connection *)
(* is stopped already.  Then NeedStop.                                     *)
HandleExit(w) ==
  LET c == job[w].conn
  IN  /\ Handling(w, "exit")
      /\ Known(c)
      /\ IF ~known[c] \/ stopped[c]
         THEN /\ job' = [job EXCEPT ![w] = Idle]
              /\ needStop' = [needStop EXCEPT ![c] = TRUE]
         ELSE /\ job' = [job EXCEPT ![w] = JobAt("send", c, "exit")]
              /\ UNCHANGED needStop
      /\ UNCHANGED <<loggedIn, queue, connVars, outVars, stopped, kick, stopper, hooks>>

(* The unbuffered msgChan: the writer receives and the worker goes on. *)
TakeMsg(w) ==
  LET c == job[w].conn
  IN  /\ job[w].at = "send" /\ writer[c] = "select"
      /\ job' = [job EXCEPT ![w] = Idle]
      /\ writer' = [writer EXCEPT ![c] = "writeMsg"]
      /\ needStop' = [needStop EXCEPT ![c] = TRUE]
      /\ UNCHANGED <<known, loggedIn, queue, connVars, exitSig, buffered, bufOpen,
                     stopped, kick, stopper, hooks>>

(* Another goroutine (forward worker, bridge downlink) sends to c. *)
ForwardTo(c) ==
  /\ c \in inMgr /\ BuffAccepts(c)
  /\ buffered' = [buffered EXCEPT ![c] = @ + 1]
  /\ UNCHANGED <<connVars, writer, exitSig, bufOpen, stopVars, workVars>>

-----------------------------------------------------------------------------
ReaderNext(c) == \/ \E r \in Request : ReadFrame(c, r)
                 \/ ReadNothing(c) \/ ReadError(c)
                 \/ Deliver(c) \/ CheckNeedStop(c) \/ ReaderStops(c)
WriterNext(c) == TakeBuf(c) \/ WriteOk(c) \/ WriteError(c) \/ WriterExit(c)
KickNext(c)   == Sweep(c) \/ Kick(c)
StopNext(c)   == StopHook(c) \/ StopClose(c) \/ StopRemove(c) \/ StopFinish(c)
HandleNext(w) == HandleLogin(w) \/ HandleReject(w) \/ HandleData(w) \/ HandleExit(w)
AcceptNext(c) == Accept(c) \/ Refuse(c) \/ Admit(c)

Next == \/ \E c \in Conn : \/ AcceptNext(c) \/ Start(c) \/ PeerHangsUp(c)
                           \/ ReaderNext(c) \/ WriterNext(c)
                           \/ KickNext(c) \/ KickStops(c) \/ StopNext(c)
                           \/ ForwardTo(c)
        \/ \E w \in Worker : Take(w) \/ HandleNext(w) \/ TakeMsg(w)

Spec == Init /\ [][Next]_vars

(* What the scheduler and the runtime owe: a goroutine that can run does,  *)
(* and select picks a ready branch at random, so none is passed over for   *)
(* ever.  The peer owes nothing: it may stay silent, and a write to it may *)
(* never return.  The sweep reaches a connection it may close once nothing *)
(* refreshes rtime any more, which is so after NeedStop (Handle returns    *)
(* before touchRx).                                                        *)
Fairness ==
  /\ \A c \in Conn :
       /\ WF_vars(Refuse(c)) /\ WF_vars(Admit(c)) /\ WF_vars(Start(c))
       /\ WF_vars(ReadError(c)) /\ WF_vars(CheckNeedStop(c)) /\ WF_vars(ReaderStops(c))
       /\ SF_vars(Deliver(c))
       /\ SF_vars(bufOpen[c] /\ TakeBuf(c)) /\ SF_vars(WriterExit(c)) /\ WF_vars(WriteError(c))
       /\ WF_vars(KickStops(c)) /\ WF_vars(StopNext(c))
       /\ WF_vars(needStop[c] /\ Sweep(c))
  /\ \A w \in Worker :
       WF_vars(Take(w)) /\ WF_vars(HandleNext(w)) /\ SF_vars(TakeMsg(w))

FairSpec == Spec /\ Fairness

-----------------------------------------------------------------------------
(* Types. *)
TypeOK ==
  /\ accepted \subseteq Conn /\ inMgr \subseteq Conn
  /\ sock \in [Conn -> {"none", "open", "hungup", "closed"}]
  /\ reader \in [Conn -> {"none", "read", "deliver", "check", "stop", "done"}]
  /\ pending \in [Conn -> Request \cup {"none"}]
  /\ writer \in [Conn -> {"none", "select", "writeMsg", "writeBuf", "done"}]
  /\ exitSig \in [Conn -> BOOLEAN]
  /\ buffered \in [Conn -> 0..BufLen]
  /\ bufOpen \in [Conn -> BOOLEAN]
  /\ needStop \in [Conn -> BOOLEAN]
  /\ stopped \in [Conn -> BOOLEAN]
  /\ kick \in [Conn -> BOOLEAN]
  /\ stopper \in [Conn -> {"none", "hook", "close", "remove", "finish", "done"}]
  /\ hooks \in [Conn -> Nat]
  /\ gotFrame \in [Conn -> BOOLEAN]
  /\ known \in [Conn -> BOOLEAN]
  /\ loggedIn \in [Conn -> BOOLEAN]
  /\ queue \in [Worker -> Seq([conn : Conn, req : Request])]
  /\ job \in [Worker -> {Idle} \cup [at : {"handle", "send"}, conn : Conn, req : Request]]

(* Beside the one socket that the accept loop has in its hand, the server  *)
(* holds no more than MaxConn: the loop counts the manager's connections,  *)
(* so a socket may stay open no longer than its connection is in the       *)
(* manager (server.go:98-131, connection.go:222-225).                      *)
WithinMaxConn ==
  /\ Cardinality(accepted) <= 1
  /\ Cardinality({c \in Conn \ accepted : sock[c] \in {"open", "hungup"}}) <= MaxConn

(* OnConnStop runs at most once however many callers stop a connection: it *)
(* stops the bridge and clears the registry (connection.go:215-221).       *)
StopsOnce == \A c \in Conn : hooks[c] <= 1

(* A connection the manager still counts has someone who will remove it:   *)
(* its Start to come, a reader that has not left, or a Stop under way.     *)
NobodyForgotten ==
  \A c \in inMgr : \/ reader[c] # "done"
                   \/ stopper[c] \in {"hook", "close", "remove"}

(* The reader of c cannot queue its last frame: the worker of c waits in   *)
(* SendMsg for a writer that does not come back to its select.             *)
BehindLogout(c) ==
  LET w == WorkerOf[c]
  IN  /\ reader[c] = "deliver" /\ Len(queue[w]) = QueueLen
      /\ job[w].at = "send" /\ writer[job[w].conn] # "select"

(* Once a connection is stopped the manager forgets it, its buffer is      *)
(* closed and its writer ends, whatever the peer does; its reader ends too *)
(* unless it is stuck for ever behind the answer to a logout (gfep_ptl.go: *)
(* 266, connection.go:160-193, 216-230).                                   *)
StopReleasesAll ==
  \A c \in Conn :
    /\ stopped[c] ~> c \notin inMgr /\ ~bufOpen[c] /\ writer[c] \in {"none", "done"}
    /\ stopped[c] ~> reader[c] \in {"none", "done"} \/ []BehindLogout(c)

(* A writer that gave up after a write error takes the connection with it, *)
(* unless the reader, which must notice, is stuck for ever behind the      *)
(* answer to a logout (connection.go:126-144, 182-193).                    *)
WriteErrorEnds ==
  \A c \in Conn :
    writer[c] = "done" ~> (stopped[c] /\ c \notin inMgr) \/ []BehindLogout(c)

(* A logged-in connection told to stop is closed even if its peer stays    *)
(* silent: the idle sweep gets it.                                         *)
NeedStopEndsSession ==
  \A c \in Conn : needStop[c] /\ loggedIn[c] ~> stopped[c]

(* A handler does not wait (comment at msghandler.go:42): no worker waits  *)
(* in SendMsg, with the answer to a logout, for a writer that has left.    *)
HandlerNeverStuck ==
  \A w \in Worker : job[w].at = "send" => writer[job[w].conn] # "done"
=============================================================================
