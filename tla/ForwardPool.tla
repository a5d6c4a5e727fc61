----------------------------- MODULE ForwardPool -----------------------------
(***************************************************************************)
(* The forward pool (fep/forward.go): handlers put frames for other        *)
(* connections into a bounded queue, and a set of workers takes them out,  *)
(* looks the connection up by its id and puts the frame into its send      *)
(* buffer.  Together with the ids of connections (znet/server.go), which   *)
(* are what a queued frame remembers of its destination: a connection may  *)
(* end, and its id be given out again, while the frame waits.              *)
(*                                                                         *)
(* Connections are numbered 1, 2, ... as they are accepted; the number is  *)
(* not known to the program, the id is.                                    *)
(***************************************************************************)
EXTENDS Naturals, Sequences, FiniteSets

CONSTANTS
  IdSpace,      (* ids are counted modulo IdSpace (2^32), 0 is not used      *)
  MaxConn,      (* config MaxConn                                            *)
  FwdWorker,    (* ForwardWorkers goroutines                                 *)
  FwdQueueLen,  (* config ForwardQueueLen                                    *)
  NoConn, NoJob,
  MaxAccepts,   (* bound: connections accepted in a behaviour                *)
  MaxFrames     (* bound: frames forwarded in a behaviour                    *)

Accepted == 1..MaxAccepts
FrameNo  == 1..MaxFrames
Job      == [no : FrameNo, dst : Nat]

ASSUME PoolAssumption ==
  /\ IdSpace \in Nat /\ MaxConn \in Nat /\ MaxConn + 1 < IdSpace
  /\ FwdQueueLen \in Nat
  /\ MaxAccepts \in Nat /\ MaxFrames \in Nat
  /\ NoConn \notin Nat /\ NoJob \notin Job

VARIABLES
  nextId,     (* Server.nextConnID                                           *)
  name,       (* name[k]: the id of the k-th connection accepted             *)
  live,       (* the connections in ConnManager                              *)
  fwdCh,      (* the queue                                                   *)
  job,        (* job[w]: the job worker w has in hand                        *)
  dest,       (* dest[w]: the connection it has found for it                 *)
  drops,      (* ForwardQueueDrops                                           *)
  fate        (* fate[n]: history of frame n: its state, the connection it   *)
              (* was meant for and the one that got it                       *)

connVars == <<nextId, name, live>>
poolVars == <<nextId, name, live, fwdCh, job, dest, drops, fate>>

PoolInit ==
  /\ nextId = 0 /\ name = <<>> /\ live = {}
  /\ fwdCh = <<>>
  /\ job = [w \in FwdWorker |-> NoJob]
  /\ dest = [w \in FwdWorker |-> NoConn]
  /\ drops = 0
  /\ fate = [n \in FrameNo |-> [is |-> "unsent", to |-> NoConn, by |-> NoConn]]

-----------------------------------------------------------------------------
(* Connections come and go. *)

LiveIds == {name[k] : k \in live}

(* Mutant: an id in use is not skipped. *)
allocAnyId(last) == IF last + 1 = IdSpace THEN 1 ELSE last + 1

(* allocConnID: the next id that is neither 0 nor carried by a connection  *)
(* in the manager.                                                         *)
allocConnID(last) ==
  LET id(d) == (last + d) % IdSpace
      Free(d) == id(d) # 0 /\ id(d) \notin LiveIds
  IN  id(CHOOSE d \in 1..IdSpace : Free(d) /\ \A e \in 1..(d - 1) : ~Free(e))

PoolAccept ==
  /\ Len(name) < MaxAccepts
  /\ Cardinality(live) < MaxConn
  /\ nextId' = allocConnID(nextId)
  /\ name' = Append(name, nextId')
  /\ live' = live \cup {Len(name) + 1}
  /\ UNCHANGED <<fwdCh, job, dest, drops, fate>>

(* Stop takes it out of the manager.                                       *)
RemoveConnection(k) ==
  /\ k \in live
  /\ live' = live \ {k}
  /\ UNCHANGED <<nextId, name, fwdCh, job, dest, drops, fate>>

-----------------------------------------------------------------------------
(* A handler forwards frame n to connection k, which a registry has given  *)
(* it: the job remembers the id.  A full queue drops the frame.            *)
submitForward(n, k) ==
  /\ fate[n].is = "unsent" /\ (n > 1 => fate[n - 1].is # "unsent")
  /\ k \in live
  /\ IF Len(fwdCh) < FwdQueueLen
     THEN /\ fwdCh' = Append(fwdCh, [no |-> n, dst |-> name[k]])
          /\ fate' = [fate EXCEPT ![n] = [is |-> "waiting", to |-> k, by |-> NoConn]]
          /\ UNCHANGED drops
     ELSE /\ drops' = drops + 1
          /\ fate' = [fate EXCEPT ![n] = [is |-> "dropped", to |-> k, by |-> NoConn]]
          /\ UNCHANGED fwdCh
  /\ UNCHANGED <<connVars, job, dest>>

(* Mutant: the worker takes the youngest job. *)
TakeLast(w) ==
  /\ job[w] = NoJob /\ fwdCh # <<>>
  /\ job' = [job EXCEPT ![w] = fwdCh[Len(fwdCh)]]
  /\ fwdCh' = SubSeq(fwdCh, 1, Len(fwdCh) - 1)
  /\ UNCHANGED <<connVars, dest, drops, fate>>

(* forwardWorker takes the next job ... *)
TakeJob(w) ==
  /\ job[w] = NoJob /\ fwdCh # <<>>
  /\ job' = [job EXCEPT ![w] = Head(fwdCh)]
  /\ fwdCh' = Tail(fwdCh)
  /\ UNCHANGED <<connVars, dest, drops, fate>>

Settle(w, s, k) ==
  /\ fate' = [fate EXCEPT ![job[w].no].is = s, ![job[w].no].by = k]
  /\ job' = [job EXCEPT ![w] = NoJob]
  /\ dest' = [dest EXCEPT ![w] = NoConn]

(* ... asks the manager for the connection, which may be gone ... *)
LookUp(w) ==
  /\ job[w] # NoJob /\ dest[w] = NoConn
  /\ \E k \in live : /\ name[k] = job[w].dst
                     /\ dest' = [dest EXCEPT ![w] = k]
  /\ UNCHANGED <<connVars, fwdCh, job, drops, fate>>

NotFound(w) ==
  /\ job[w] # NoJob /\ dest[w] = NoConn
  /\ job[w].dst \notin LiveIds
  /\ Settle(w, "refused", NoConn)
  /\ UNCHANGED <<connVars, fwdCh, drops>>

(* Mutant: the worker tries again when the buffer refuses a job. *)
GiveAgain(w) ==
  /\ job[w] # NoJob /\ dest[w] # NoConn
  /\ \/ Settle(w, "given", dest[w])
     \/ dest' = [dest EXCEPT ![w] = NoConn] /\ UNCHANGED <<job, fate>>
  /\ UNCHANGED <<connVars, fwdCh, drops>>

(* Mutant: the worker does not let go of a job it has given away. *)
GiveTwice(w) ==
  /\ job[w] # NoJob /\ dest[w] # NoConn
  /\ \/ /\ fate' = [fate EXCEPT ![job[w].no].is = "given", ![job[w].no].by = dest[w]]
        /\ UNCHANGED <<job, dest>>
     \/ Settle(w, "refused", NoConn)
  /\ UNCHANGED <<connVars, fwdCh, drops>>

(* ... and calls its SendBuffMsg, which never waits but refuses a payload  *)
(* when the buffer is closed or full (the buffer itself is in Connection). *)
GiveJob(w) ==
  /\ job[w] # NoJob /\ dest[w] # NoConn
  /\ \/ Settle(w, "given", dest[w])
     \/ Settle(w, "refused", NoConn)
  /\ UNCHANGED <<connVars, fwdCh, drops>>

-----------------------------------------------------------------------------
WorkerNext(w) == TakeJob(w) \/ LookUp(w) \/ NotFound(w) \/ GiveJob(w)

PoolNext == \/ PoolAccept
            \/ \E k \in Accepted : RemoveConnection(k)
            \/ \E n \in FrameNo, k \in Accepted : submitForward(n, k)
            \/ \E w \in FwdWorker : WorkerNext(w)

PoolSpec == PoolInit /\ [][PoolNext]_poolVars

-----------------------------------------------------------------------------
(* Types; in particular the queue keeps its length. *)
PoolTypeOK ==
  /\ nextId \in 0..(IdSpace - 1)
  /\ name \in Seq(1..(IdSpace - 1)) /\ Len(name) <= MaxAccepts
  /\ live \subseteq 1..Len(name)
  /\ fwdCh \in Seq(Job) /\ Len(fwdCh) <= FwdQueueLen
  /\ job \in [FwdWorker -> Job \cup {NoJob}]
  /\ dest \in [FwdWorker -> Accepted \cup {NoConn}]
  /\ drops \in Nat
  /\ fate \in [FrameNo -> [is : {"unsent", "waiting", "dropped", "refused", "given"},
                           to : Accepted \cup {NoConn}, by : Accepted \cup {NoConn}]]

InHand(n)  == \E w \in FwdWorker : job[w] # NoJob /\ job[w].no = n
Settled(n) == fate[n].is \in {"refused", "given"}

(* Several workers may deliver frames out of order (forward.go:43), but a  *)
(* frame is overtaken only while a worker holds it: the queue itself keeps *)
(* the order, and one worker keeps it altogether.                          *)
OnlyHeldOvertaken ==
  \A m, n \in FrameNo : m < n /\ fate[m].is = "waiting" /\ Settled(n) => InHand(m)

(* A frame goes to another connection than the one it was meant for only   *)
(* if nearly all ids, IdSpace - MaxConn of them, have been given out since *)
(* that one was accepted (server.go:204): young connections are safe.  How *)
(* long the frame waited does not matter: once the counter is about to     *)
(* come back to the id of an old connection, one accept is enough.         *)
NoEarlyReuse ==
  \A n \in FrameNo :
     fate[n].is = "given" /\ fate[n].by # fate[n].to
        => fate[n].by - fate[n].to >= IdSpace - MaxConn

(* The pool implements the lossy delivery: a frame it has taken is settled *)
(* once, by the connection that carries its id or by nobody, a handler is  *)
(* never made to wait, and the counter shown to the operator               *)
(* (README.md:115) is that of the frames dropped.                          *)
Delivery == INSTANCE LossyDelivery WITH ConnId <- 1..(IdSpace - 1)
DeliverySpec == Delivery!Spec

(* Under the scheduler's fairness to each worker every frame is settled.   *)
WorkerFairness == \A w \in FwdWorker : WF_poolVars(WorkerNext(w))
AllSettle == \A n \in FrameNo : fate[n].is = "waiting" ~> Settled(n)
==============================================================================
