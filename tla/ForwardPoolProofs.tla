-------------------------- MODULE ForwardPoolProofs --------------------------
(***************************************************************************)
(* Proofs that the forward pool implements the lossy delivery, that its    *)
(* queue keeps the order of frames, and that a frame meets a reused id     *)
(* only after the counter went once around, for any number of ids,         *)
(* workers, connections and frames, and with ids that wrap.                *)
(***************************************************************************)
EXTENDS ForwardPool, FiniteSetTheorems, SequenceTheorems, WellFoundedInduction, TLAPS

(* The frame of a job that is queued or in hand waits, untouched, for a    *)
(* connection that carries the id the job remembers.                       *)
Waits(j) ==
  /\ fate[j.no].is = "waiting" /\ fate[j.no].by = NoConn
  /\ fate[j.no].to \in 1..Len(name) /\ name[fate[j.no].to] = j.dst

JobsWait ==
  /\ \A i \in 1..Len(fwdCh) : Waits(fwdCh[i])
  /\ \A w \in FwdWorker : job[w] # NoJob => Waits(job[w])
  /\ \A w \in FwdWorker : dest[w] # NoConn => /\ job[w] # NoJob
                                              /\ dest[w] \in 1..Len(name)
                                              /\ name[dest[w]] = job[w].dst

(* No frame has two jobs, and those in hand are before those in the queue. *)
JobsApart ==
  /\ \A i, k \in 1..Len(fwdCh) : i < k => fwdCh[i].no < fwdCh[k].no
  /\ \A w \in FwdWorker, i \in 1..Len(fwdCh) : job[w] # NoJob => job[w].no < fwdCh[i].no
  /\ \A v, w \in FwdWorker : job[v] # NoJob /\ job[w] # NoJob /\ job[v].no = job[w].no => v = w

(* Frames come one after another; a settled one is before those queued,    *)
(* and one that waits has a job.                                           *)
SentInOrder == \A m, n \in FrameNo : m < n /\ fate[m].is = "unsent" => fate[n].is = "unsent"
SettledFirst == \A n \in FrameNo, i \in 1..Len(fwdCh) : Settled(n) => n < fwdCh[i].no
HasJob ==
  \A n \in FrameNo : fate[n].is = "waiting" => InHand(n) \/ \E i \in 1..Len(fwdCh) : fwdCh[i].no = n

PoolInv == PoolTypeOK /\ JobsWait /\ JobsApart /\ SentInOrder /\ SettledFirst /\ HasJob

USE PoolAssumption

-----------------------------------------------------------------------------
(* Connection ids *)

LEMMA Least ==
  ASSUME NEW S, S \subseteq Nat, S # {}
  PROVE  \E m \in S : \A k \in S : m <= k
<1> DEFINE R == {p \in Nat \X Nat : p[1] < p[2]}
<1>1. IsWellFoundedOn(R, Nat)
  BY NatLessThanWellFounded DEF OpToRel
<1>2. PICK m \in S : \A k \in S : ~(<<k, m>> \in R)
  <2> HIDE DEF R
  <2> QED  BY <1>1, WFMin
<1>3. ASSUME NEW k \in S PROVE m <= k
  <2>1. ~(k < m) /\ k \in Nat /\ m \in Nat
    BY <1>2
  <2> HIDE DEF R
  <2> QED  BY <2>1
<1> QED  BY <1>3

LEMMA NoMultipleBetween ==
  ASSUME NEW N \in Nat, NEW q \in Int, 0 < N * q, N * q < N
  PROVE  FALSE
<1>1. CASE q <= 0
  <2>1. N * q <= 0  BY <1>1
  <2> QED  BY <2>1
<1>2. CASE q >= 1
  <2>1. N * q >= N  BY <1>2
  <2> QED  BY <2>1
<1> QED  BY <1>1, <1>2

(* The counter gives IdSpace different ids before it repeats one.          *)
LEMMA CounterWraps ==
  ASSUME NEW N \in Nat, N > 0, NEW a \in Int, NEW b \in Int,
         a % N = b % N, a < b, b - a < N
  PROVE  FALSE
<1> DEFINE q == (b \div N) - (a \div N)
<1>1. /\ a = N * (a \div N) + (a % N) /\ b = N * (b \div N) + (b % N)
      /\ (a \div N) \in Int /\ (b \div N) \in Int
  OBVIOUS
<1>2. N * q = N * (b \div N) - N * (a \div N)
  BY <1>1
<1>3. N * q = b - a
  BY <1>1, <1>2
<1>4. q \in Int
  BY <1>1
<1> HIDE DEF q
<1> QED  BY <1>3, <1>4, NoMultipleBetween

(* Adding to a remainder and to the number itself gives the same remainder.*)
LEMMA SumWraps ==
  ASSUME NEW N \in Nat, N > 0, NEW a \in Nat, NEW e \in Nat
  PROVE  ((a % N) + e) % N = (a + e) % N
<1> DEFINE r == (a % N) + e
           u == r % N
           v == (a + e) % N
           p == a \div N
           q == r \div N
           s == (a + e) \div N
<1>1. a = N * p + (a % N) /\ p \in Int /\ (a % N) \in Nat
  OBVIOUS
<1>2. r = N * q + u /\ q \in Int /\ u \in 0..(N - 1)
  BY <1>1
<1>3. a + e = N * s + v /\ s \in Int /\ v \in 0..(N - 1)
  OBVIOUS
<1>4. a + e = N * p + N * q + u
  BY <1>1, <1>2
<1> HIDE DEF p, q, s, u, v
<1>5. u - v = N * ((s - p) - q) /\ v - u = N * ((p + q) - s)
  <2>1. N * ((s - p) - q) = N * s - N * p - N * q
    BY <1>1, <1>2, <1>3
  <2>2. N * ((p + q) - s) = N * p + N * q - N * s
    BY <1>1, <1>2, <1>3
  <2>3. PICK A \in Int, B \in Int, C \in Int : A = N * p /\ B = N * q /\ C = N * s
    BY <1>1, <1>2, <1>3
  <2>4. /\ a + e = C + v /\ a + e = A + B + u
        /\ N * ((s - p) - q) = C - A - B /\ N * ((p + q) - s) = A + B - C
    BY <1>3, <1>4, <2>1, <2>2, <2>3
  <2>5. C + v = A + B + u
    BY <2>4
  <2>6. u - v = C - A - B /\ v - u = A + B - C
    <3>1. u \in Int /\ v \in Int
      BY <1>2, <1>3
    <3> QED  BY <2>5, <3>1
  <2> QED  BY <2>4, <2>6
<1>6. ~(u > v)
  <2> SUFFICES ASSUME u > v PROVE FALSE
    OBVIOUS
  <2>1. 0 < N * ((s - p) - q) /\ N * ((s - p) - q) < N
    BY <1>2, <1>3, <1>5
  <2> QED  BY <1>1, <1>2, <1>3, <2>1, NoMultipleBetween
<1>7. ~(v > u)
  <2> SUFFICES ASSUME v > u PROVE FALSE
    OBVIOUS
  <2>1. 0 < N * ((p + q) - s) /\ N * ((p + q) - s) < N
    BY <1>2, <1>3, <1>5
  <2> QED  BY <1>1, <1>2, <1>3, <2>1, NoMultipleBetween
<1>8. u = v
  BY <1>2, <1>3, <1>6, <1>7
<1> QED  BY <1>8 DEF u, v, r

(* allocConnID finds an id while there is a place: of IdSpace successive   *)
(* values of the counter, one is neither 0 nor taken (pigeonhole).         *)
LEMMA AllocFinds ==
  ASSUME PoolTypeOK, Cardinality(live) < MaxConn
  PROVE  /\ allocConnID(nextId) \in 1..(IdSpace - 1) /\ allocConnID(nextId) \notin LiveIds
         /\ \E d \in 1..IdSpace :
              /\ allocConnID(nextId) = (nextId + d) % IdSpace
              /\ \A e \in 1..(d - 1) : (nextId + e) % IdSpace \in LiveIds \cup {0}
<1> DEFINE id(d) == (nextId + d) % IdSpace
           Free(d) == id(d) # 0 /\ id(d) \notin LiveIds
           S == 1..IdSpace
           T == live \cup {0}
           Frees == {d \in S : Free(d)}
<1>1. nextId \in Nat /\ IdSpace \in Nat /\ IdSpace > 0 /\ Len(name) \in Nat
  BY DEF PoolTypeOK
<1>2. IsFiniteSet(live) /\ 0 \notin live /\ live \subseteq Nat
  <2>1. live \subseteq 1..Len(name)
    BY DEF PoolTypeOK
  <2>2. IsFiniteSet(1..Len(name))
    BY <1>1, FS_Interval
  <2>3. IsFiniteSet(live)
    BY <2>1, <2>2, FS_Subset
  <2> QED  BY <1>1, <2>1, <2>3
<1>3. IsFiniteSet(T) /\ Cardinality(T) = Cardinality(live) + 1
  BY <1>2, FS_AddElement
<1>4. IsFiniteSet(S) /\ Cardinality(S) = IdSpace
  <2>1. 1 \in Int /\ IdSpace \in Int /\ ~(1 > IdSpace)
    BY <1>1
  <2>2. Cardinality(1..IdSpace) = IdSpace - 1 + 1 /\ IsFiniteSet(1..IdSpace)
    BY <2>1, FS_Interval, Zenon
  <2> QED  BY <2>2, <1>1
<1>5. Cardinality(live) \in Nat
  BY <1>2, FS_CardinalityType
<1>6. Cardinality(T) < Cardinality(S)
  BY <1>3, <1>4, <1>5
<1>7. Frees # {}
  <2> SUFFICES ASSUME Frees = {} PROVE FALSE
    OBVIOUS
  <2> DEFINE f == [d \in S |-> IF id(d) = 0 THEN 0 ELSE CHOOSE k \in live : name[k] = id(d)]
  <2>1. \A d \in S : id(d) # 0 => f[d] \in live /\ name[f[d]] = id(d)
    BY DEF LiveIds
  <2>2. \A d \in S : id(d) = 0 => f[d] = 0
    OBVIOUS
  <2>3. f \in [S -> T]
    BY <2>1, <2>2
  <2>4. PICK x, y \in S : x # y /\ f[x] = f[y]
    <3> HIDE DEF S, T, f
    <3> QED  BY <2>3, <1>3, <1>4, <1>6, FS_PigeonHole
  <2>5. id(x) = id(y)
    <3> HIDE DEF f, S, id
    <3> QED  BY <2>1, <2>2, <2>4, <1>2
  <2>6. /\ nextId + x \in Int /\ nextId + y \in Int
        /\ (nextId + x) - (nextId + y) < IdSpace /\ (nextId + y) - (nextId + x) < IdSpace
        /\ nextId + x < nextId + y \/ nextId + y < nextId + x
    BY <2>4, <1>1
  <2> HIDE DEF S, f
  <2> QED  BY <2>5, <2>6, <1>1, CounterWraps
<1>8. \E d \in S : Free(d) /\ \A e \in 1..(d - 1) : ~Free(e)
  <2>1. Frees \subseteq Nat
    BY <1>1
  <2>2. PICK m \in Frees : \A k \in Frees : m <= k
    <3> HIDE DEF Frees
    <3> QED  BY <1>7, <2>1, Least
  <2>3. m \in S /\ Free(m)
    BY <2>2
  <2>4. ASSUME NEW e \in 1..(m - 1), Free(e) PROVE FALSE
    <3>1. e \in Frees /\ e < m
      BY <2>3, <2>4, <1>1
    <3> HIDE DEF Frees, Free, S
    <3> QED  BY <2>2, <3>1, <2>1
  <2> QED  BY <2>3, <2>4
<1> DEFINE d0 == CHOOSE d \in S : Free(d) /\ \A e \in 1..(d - 1) : ~Free(e)
<1>9. d0 \in S /\ Free(d0) /\ \A e \in 1..(d0 - 1) : ~Free(e)
  <2> HIDE DEF Free, S
  <2> QED  BY <1>8
<1>10. allocConnID(nextId) = id(d0)
  BY DEF allocConnID
<1>11. id(d0) \in 0..(IdSpace - 1)
  <2>1. d0 \in Nat
    BY <1>9
  <2> HIDE DEF d0
  <2> QED  BY <2>1, <1>1
<1> HIDE DEF d0
<1>12. id(d0) # 0 /\ id(d0) \notin LiveIds
  BY <1>9
<1>13. \E d \in 1..IdSpace :
         /\ allocConnID(nextId) = (nextId + d) % IdSpace
         /\ \A e \in 1..(d - 1) : (nextId + e) % IdSpace \in LiveIds \cup {0}
  <2>1. d0 \in 1..IdSpace /\ allocConnID(nextId) = (nextId + d0) % IdSpace
    BY <1>9, <1>10
  <2>2. \A e \in 1..(d0 - 1) : (nextId + e) % IdSpace \in LiveIds \cup {0}
    BY <1>9
  <2> QED  BY <2>1, <2>2
<1> HIDE DEF id
<1>14. allocConnID(nextId) \in 1..(IdSpace - 1) /\ allocConnID(nextId) \notin LiveIds
  BY <1>10, <1>11, <1>12, <1>1
<1> QED  BY <1>13, <1>14, Zenon

-----------------------------------------------------------------------------
(* The invariant *)

LEMMA PoolInitInv == PoolInit => PoolInv
<1> SUFFICES ASSUME PoolInit PROVE PoolInv
  OBVIOUS
<1>1. PoolTypeOK
  BY DEF PoolInit, PoolTypeOK, Accepted
<1>2. JobsWait /\ JobsApart /\ SentInOrder /\ SettledFirst /\ HasJob
  BY DEF PoolInit, JobsWait, JobsApart, SentInOrder, SettledFirst, HasJob, Settled
<1> QED  BY <1>1, <1>2 DEF PoolInv

(* A connection that comes keeps the ids of those there are.               *)
LEMMA AcceptKeeps ==
  ASSUME PoolInv, PoolAccept
  PROVE  PoolInv' /\ name' = Append(name, nextId') /\ nextId' \in 1..(IdSpace - 1)
<1>1. nextId' \in 1..(IdSpace - 1) /\ name' = Append(name, nextId')
  BY AllocFinds DEF PoolInv, PoolAccept
<1>2. name \in Seq(1..(IdSpace - 1)) /\ Len(name) \in Nat
  BY DEF PoolInv, PoolTypeOK
<1>3. /\ name' \in Seq(1..(IdSpace - 1)) /\ Len(name') = Len(name) + 1
      /\ \A k \in 1..Len(name) : name'[k] = name[k]
  BY <1>1, <1>2, AppendProperties
<1>4. PoolTypeOK'
  <2>1. nextId' \in 0..(IdSpace - 1) /\ Len(name') <= MaxAccepts
    BY <1>1, <1>2, <1>3 DEF PoolAccept
  <2>3. live' \subseteq 1..Len(name')
    <3>1. live \subseteq 1..Len(name) /\ live' = live \cup {Len(name) + 1}
      BY DEF PoolInv, PoolTypeOK, PoolAccept
    <3>2. Len(name) + 1 \in 1..Len(name') /\ 1..Len(name) \subseteq 1..Len(name')
      BY <1>2, <1>3
    <3> QED  BY <3>1, <3>2
  <2>2. UNCHANGED <<fwdCh, job, dest, drops, fate>>
    BY DEF PoolAccept
  <2> QED  BY <1>3, <2>1, <2>2, <2>3 DEF PoolInv, PoolTypeOK
<1>5. JobsWait'
  <2>1. UNCHANGED <<fwdCh, job, dest, fate>>
    BY DEF PoolAccept
  <2>2. \A j : Waits(j) => Waits(j)'
    BY <1>2, <1>3, <2>1 DEF Waits
  <2>3. ASSUME NEW w \in FwdWorker, dest'[w] # NoConn
        PROVE  dest'[w] \in 1..Len(name') /\ name'[dest'[w]] = job'[w].dst
    <3>1. PICK k \in 1..Len(name) : k = dest'[w] /\ name[k] = job'[w].dst
      BY <2>1, <2>3 DEF PoolInv, JobsWait
    <3> QED  BY <1>2, <1>3, <3>1
  <2> QED  BY <2>1, <2>2, <2>3 DEF PoolInv, JobsWait
<1>6. JobsApart' /\ SentInOrder' /\ SettledFirst' /\ HasJob'
  BY DEF PoolInv, PoolAccept, JobsApart, SentInOrder, SettledFirst, HasJob, Settled, InHand
<1> QED  BY <1>1, <1>4, <1>5, <1>6 DEF PoolInv

LEMMA RemoveKeeps ==
  ASSUME PoolInv, NEW k \in Accepted, RemoveConnection(k)
  PROVE  PoolInv' /\ UNCHANGED <<name, drops, fate>>
<1>1. live' \subseteq 1..Len(name) /\ UNCHANGED <<nextId, name, fwdCh, job, dest, drops, fate>>
  BY DEF RemoveConnection, PoolInv, PoolTypeOK
<1>2. PoolTypeOK'
  BY <1>1 DEF PoolInv, PoolTypeOK
<1>3. JobsWait' /\ JobsApart' /\ SentInOrder' /\ SettledFirst' /\ HasJob'
  BY <1>1 DEF PoolInv, JobsWait, Waits, JobsApart, SentInOrder, SettledFirst, HasJob, Settled, InHand
<1> QED  BY <1>1, <1>2, <1>3 DEF PoolInv

-----------------------------------------------------------------------------
(* Frames *)

(* Frame n is new: no job has it, and all that were sent are before it.    *)
LEMMA NewFrame ==
  ASSUME PoolInv, NEW n \in FrameNo, fate[n].is = "unsent", n > 1 => fate[n - 1].is # "unsent"
  PROVE  \A m \in FrameNo : m # n /\ fate[m].is # "unsent" => m < n
<1> SUFFICES ASSUME NEW m \in FrameNo, m # n, fate[m].is # "unsent", ~(m < n) PROVE FALSE
  OBVIOUS
<1>1. n < m
  BY DEF FrameNo
<1> QED  BY <1>1 DEF PoolInv, SentInOrder

LEMMA SubmitKeeps ==
  ASSUME PoolInv, NEW n \in FrameNo, NEW k \in Accepted, submitForward(n, k)
  PROVE  /\ PoolInv'
         /\ UNCHANGED name /\ fate[n].is = "unsent" /\ k \in 1..Len(name)
         /\ \E s \in {"waiting", "dropped"} :
              /\ fate' = [fate EXCEPT ![n] = [is |-> s, to |-> k, by |-> NoConn]]
              /\ drops' = IF s = "dropped" THEN drops + 1 ELSE drops
<1>1. /\ fate[n].is = "unsent" /\ k \in live /\ UNCHANGED <<nextId, name, live, job, dest>>
      /\ k \in 1..Len(name) /\ Len(name) \in Nat
      /\ name \in Seq(1..(IdSpace - 1)) /\ fwdCh \in Seq(Job) /\ Len(fwdCh) \in Nat
  BY DEF submitForward, connVars, PoolInv, PoolTypeOK
<1>2. \A m \in FrameNo : m # n /\ fate[m].is # "unsent" => m < n
  BY NewFrame DEF submitForward
<1>3. PICK j \in Job : j = [no |-> n, dst |-> name[k]] /\ j.no = n /\ j.dst = name[k]
  <2>1. name[k] \in Nat
    BY <1>1, ElementOfSeq
  <2>2. [no |-> n, dst |-> name[k]] \in Job
    BY <2>1 DEF Job
  <2> QED  BY <2>2
<1>4. PICK s \in {"waiting", "dropped"} :
        /\ fate' = [fate EXCEPT ![n] = [is |-> s, to |-> k, by |-> NoConn]]
        /\ drops' = IF s = "dropped" THEN drops + 1 ELSE drops
        /\ s = "waiting" => Len(fwdCh) < FwdQueueLen /\ fwdCh' = Append(fwdCh, j)
        /\ s = "dropped" => UNCHANGED fwdCh
  BY <1>3 DEF submitForward
<1>5. /\ fate \in [FrameNo -> [is : {"unsent", "waiting", "dropped", "refused", "given"},
                               to : Accepted \cup {NoConn}, by : Accepted \cup {NoConn}]]
      /\ \A m \in FrameNo : m # n => fate'[m] = fate[m]
      /\ fate'[n] = [is |-> s, to |-> k, by |-> NoConn]
  BY <1>4 DEF PoolInv, PoolTypeOK
<1>6. s = "waiting" => /\ fwdCh' \in Seq(Job) /\ Len(fwdCh') = Len(fwdCh) + 1
                       /\ \A i \in 1..Len(fwdCh) : fwdCh'[i] = fwdCh[i]
                       /\ fwdCh'[Len(fwdCh) + 1] = j
  <2>1. Append(fwdCh, j) \in Seq(Job) /\ Len(Append(fwdCh, j)) = Len(fwdCh) + 1
        /\ \A i \in 1..Len(fwdCh) : Append(fwdCh, j)[i] = fwdCh[i]
        /\ Append(fwdCh, j)[Len(fwdCh) + 1] = j
    BY <1>1, <1>3, AppendProperties
  <2> QED  BY <2>1, <1>4
<1>7. PoolTypeOK'
  <2>1. fate' \in [FrameNo -> [is : {"unsent", "waiting", "dropped", "refused", "given"},
                               to : Accepted \cup {NoConn}, by : Accepted \cup {NoConn}]]
    BY <1>4, <1>5
  <2>2. fwdCh' \in Seq(Job) /\ Len(fwdCh') <= FwdQueueLen
    BY <1>1, <1>4, <1>6 DEF PoolInv, PoolTypeOK
  <2>3. drops' \in Nat
    BY <1>4 DEF PoolInv, PoolTypeOK
  <2> QED  BY <1>1, <2>1, <2>2, <2>3 DEF PoolInv, PoolTypeOK
<1>8. \A x \in Job : Waits(x) => x.no < n /\ Waits(x)'
  <2> SUFFICES ASSUME NEW x \in Job, Waits(x) PROVE x.no < n /\ Waits(x)'
    OBVIOUS
  <2>1. x.no \in FrameNo
    BY DEF Job
  <2> QED  BY <1>1, <1>2, <1>5, <2>1 DEF Waits
<1>9. \A i \in 1..Len(fwdCh) : fwdCh[i] \in Job /\ Waits(fwdCh[i])
  BY <1>1, ElementOfSeq DEF PoolInv, JobsWait
<1>10. \A w \in FwdWorker : job[w] # NoJob => job[w] \in Job /\ Waits(job[w])
  BY DEF PoolInv, JobsWait, PoolTypeOK
<1>11. JobsWait'
  <2>1. Waits(j)' \/ s = "dropped"
    BY <1>1, <1>3, <1>5 DEF Waits
  <2>2. ASSUME NEW i \in 1..Len(fwdCh') PROVE Waits(fwdCh[i])'
    <3>1. CASE s = "waiting" /\ i = Len(fwdCh) + 1
      BY <3>1, <1>6, <2>1
    <3>2. CASE s = "waiting" /\ i \in 1..Len(fwdCh)
      <4>1. fwdCh'[i] = fwdCh[i] /\ fwdCh[i] \in Job /\ Waits(fwdCh[i])
        BY <3>2, <1>6, <1>9
      <4>2. PICK x \in Job : x = fwdCh[i] /\ x = fwdCh'[i]
        BY <4>1
      <4> QED  BY <4>1, <4>2, <1>8
    <3>3. CASE s = "dropped"
      <4>1. fwdCh'[i] = fwdCh[i] /\ fwdCh[i] \in Job /\ Waits(fwdCh[i])
        BY <3>3, <1>4, <1>9
      <4>2. PICK x \in Job : x = fwdCh[i] /\ x = fwdCh'[i]
        BY <4>1
      <4> QED  BY <4>1, <4>2, <1>8
    <3> QED  BY <3>1, <3>2, <3>3, <1>1, <1>6
  <2>3. ASSUME NEW w \in FwdWorker, job'[w] # NoJob PROVE Waits(job[w])'
    <3>1. PICK x \in Job : x = job[w] /\ x = job'[w] /\ Waits(x)
      BY <2>3, <1>1, <1>10
    <3> QED  BY <3>1, <1>8
  <2>4. \A w \in FwdWorker : dest'[w] # NoConn => /\ job'[w] # NoJob
                                                  /\ dest'[w] \in 1..Len(name')
                                                  /\ name'[dest'[w]] = job'[w].dst
    BY <1>1 DEF PoolInv, JobsWait
  <2> QED  BY <2>2, <2>3, <2>4 DEF JobsWait
<1>12. JobsApart'
  <2>1. CASE s = "waiting"
    <3>1. \A i, l \in 1..Len(fwdCh') : i < l => fwdCh'[i].no < fwdCh'[l].no
      <4>1. \A i \in 1..Len(fwdCh) : fwdCh'[i].no = fwdCh[i].no /\ fwdCh[i].no < n
        BY <2>1, <1>6, <1>8, <1>9
      <4>2. fwdCh'[Len(fwdCh) + 1].no = n
        BY <2>1, <1>3, <1>6
      <4>3. \A i, l \in 1..Len(fwdCh) : i < l => fwdCh[i].no < fwdCh[l].no
        BY DEF PoolInv, JobsApart
      <4>4. Len(fwdCh') = Len(fwdCh) + 1
        BY <2>1, <1>6
      <4>5. ASSUME NEW i \in 1..Len(fwdCh'), NEW l \in 1..Len(fwdCh'), i < l
            PROVE  fwdCh'[i].no < fwdCh'[l].no
        <5>1. i \in 1..Len(fwdCh) /\ (l \in 1..Len(fwdCh) \/ l = Len(fwdCh) + 1)
          BY <4>4, <4>5, <1>1
        <5> QED  BY <5>1, <4>1, <4>2, <4>3, <4>5
      <4> QED  BY <4>5
    <3>2. \A w \in FwdWorker, i \in 1..Len(fwdCh') : job'[w] # NoJob => job'[w].no < fwdCh'[i].no
      <4>1. \A i \in 1..Len(fwdCh) : fwdCh'[i].no = fwdCh[i].no
        BY <2>1, <1>6
      <4>2. fwdCh'[Len(fwdCh) + 1].no = n /\ Len(fwdCh') = Len(fwdCh) + 1
        BY <2>1, <1>3, <1>6
      <4>3. \A w \in FwdWorker : job[w] # NoJob => job[w].no < n
        BY <1>8, <1>10
      <4>4. \A w \in FwdWorker, i \in 1..Len(fwdCh) : job[w] # NoJob => job[w].no < fwdCh[i].no
        BY DEF PoolInv, JobsApart
      <4> QED  BY <4>1, <4>2, <4>3, <4>4, <1>1
    <3> QED  BY <3>1, <3>2, <1>1 DEF PoolInv, JobsApart
  <2>2. CASE s = "dropped"
    BY <2>2, <1>1, <1>4 DEF PoolInv, JobsApart
  <2> QED  BY <2>1, <2>2
<1>13. SentInOrder'
  <2>1. \A m \in FrameNo : m < n => fate[m].is # "unsent"
    <3> SUFFICES ASSUME NEW m \in FrameNo, m < n, fate[m].is = "unsent" PROVE FALSE
      OBVIOUS
    <3>1. n > 1 /\ n - 1 \in FrameNo /\ (m = n - 1 \/ m < n - 1)
      BY DEF FrameNo
    <3> QED  BY <3>1 DEF PoolInv, SentInOrder, submitForward
  <2>2. \A m \in FrameNo : fate'[m].is = "unsent" => m # n /\ fate[m].is = "unsent"
    BY <1>5
  <2>3. \A m \in FrameNo : m # n /\ fate[m].is = "unsent" => fate'[m].is = "unsent"
    BY <1>5
  <2>4. \A m, l \in FrameNo : m < l /\ fate[m].is = "unsent" => fate[l].is = "unsent"
    BY DEF PoolInv, SentInOrder
  <2>5. ASSUME NEW m \in FrameNo, NEW l \in FrameNo, m < l, fate'[m].is = "unsent"
        PROVE  fate'[l].is = "unsent"
    <3>1. m # n /\ fate[m].is = "unsent"
      BY <2>2, <2>5
    <3>2. ~(m < n)
      BY <2>1, <3>1
    <3>3. l # n
      BY <2>5, <3>2
    <3>4. fate[l].is = "unsent"
      BY <2>4, <2>5, <3>1
    <3> QED  BY <3>3, <3>4, <2>3
  <2> QED  BY <2>5 DEF SentInOrder
<1>14. SettledFirst'
  <2>1. \A m \in FrameNo : Settled(m)' => m # n /\ Settled(m) /\ m < n
    BY <1>2, <1>5 DEF Settled
  <2>2. CASE s = "waiting"
    <3>1. \A i \in 1..Len(fwdCh') : i \in 1..Len(fwdCh) \/ i = Len(fwdCh) + 1
      BY <2>2, <1>1, <1>6
    <3>2. fwdCh'[Len(fwdCh) + 1].no = n /\ \A i \in 1..Len(fwdCh) : fwdCh'[i].no = fwdCh[i].no
      BY <2>2, <1>3, <1>6
    <3>3. \A m \in FrameNo, i \in 1..Len(fwdCh) : Settled(m) => m < fwdCh[i].no
      BY DEF PoolInv, SettledFirst
    <3> QED  BY <2>1, <3>1, <3>2, <3>3 DEF SettledFirst
  <2>3. CASE s = "dropped"
    BY <2>1, <2>3, <1>4 DEF PoolInv, SettledFirst
  <2> QED  BY <2>2, <2>3
<1>15. HasJob'
  <2>1. \A m \in FrameNo : InHand(m) => InHand(m)'
    BY <1>1 DEF InHand
  <2>2. CASE s = "waiting"
    <3>1. Len(fwdCh) + 1 \in 1..Len(fwdCh') /\ fwdCh'[Len(fwdCh) + 1].no = n
      BY <2>2, <1>1, <1>3, <1>6
    <3>2. \A i \in 1..Len(fwdCh) : i \in 1..Len(fwdCh') /\ fwdCh'[i].no = fwdCh[i].no
      BY <2>2, <1>1, <1>6
    <3> QED  BY <2>1, <3>1, <3>2, <1>5 DEF PoolInv, HasJob
  <2>3. CASE s = "dropped"
    BY <2>1, <2>3, <1>4, <1>5 DEF PoolInv, HasJob
  <2> QED  BY <2>2, <2>3
<1> QED  BY <1>1, <1>4, <1>7, <1>11, <1>12, <1>13, <1>14, <1>15 DEF PoolInv

(* A worker takes the first job of the queue.                              *)
LEMMA TakeKeeps ==
  ASSUME PoolInv, NEW w \in FwdWorker, TakeJob(w)
  PROVE  PoolInv' /\ UNCHANGED <<name, drops, fate>>
<1>1. /\ job[w] = NoJob /\ fwdCh # <<>> /\ UNCHANGED <<nextId, name, live, dest, drops, fate>>
      /\ job \in [FwdWorker -> Job \cup {NoJob}] /\ job' = [job EXCEPT ![w] = Head(fwdCh)]
      /\ fwdCh \in Seq(Job) /\ Len(fwdCh) \in Nat /\ fwdCh' = Tail(fwdCh)
  BY DEF TakeJob, connVars, PoolInv, PoolTypeOK
<1>2. /\ Head(fwdCh) \in Job /\ Head(fwdCh) = fwdCh[1] /\ Len(fwdCh) > 0
      /\ fwdCh' \in Seq(Job) /\ Len(fwdCh') = Len(fwdCh) - 1
      /\ \A i \in 1..Len(fwdCh') : fwdCh'[i] = fwdCh[i + 1]
  BY <1>1, HeadTailProperties
<1>3. /\ job'[w] = fwdCh[1] /\ job'[w] # NoJob /\ 1 \in 1..Len(fwdCh)
      /\ \A v \in FwdWorker : v # w => job'[v] = job[v]
      /\ \A i \in 1..Len(fwdCh') : i + 1 \in 1..Len(fwdCh) /\ 1 < i + 1
  BY <1>1, <1>2
<1>4. PoolTypeOK'
  <2>1. job' \in [FwdWorker -> Job \cup {NoJob}]
    BY <1>1, <1>2
  <2>2. Len(fwdCh') <= FwdQueueLen
    BY <1>1, <1>2 DEF PoolInv, PoolTypeOK
  <2> QED  BY <1>1, <1>2, <2>1, <2>2 DEF PoolInv, PoolTypeOK
<1>5. JobsWait'
  <2>1. \A x : Waits(x) => Waits(x)'
    BY <1>1 DEF Waits
  <2>2. ASSUME NEW i \in 1..Len(fwdCh') PROVE Waits(fwdCh[i])'
    <3>1. PICK x : x = fwdCh'[i] /\ x = fwdCh[i + 1]
      BY <1>2
    <3>2. Waits(x)
      BY <3>1, <1>3 DEF PoolInv, JobsWait
    <3> QED  BY <3>1, <3>2, <2>1
  <2>3. ASSUME NEW v \in FwdWorker, job'[v] # NoJob PROVE Waits(job[v])'
    <3>1. PICK x : x = job'[v]
      OBVIOUS
    <3>2. Waits(x)
      BY <2>3, <3>1, <1>3 DEF PoolInv, JobsWait
    <3> QED  BY <3>1, <3>2, <2>1
  <2>4. \A v \in FwdWorker : dest'[v] # NoConn => /\ job'[v] # NoJob
                                                  /\ dest'[v] \in 1..Len(name')
                                                  /\ name'[dest'[v]] = job'[v].dst
    BY <1>1, <1>3 DEF PoolInv, JobsWait
  <2> QED  BY <2>2, <2>3, <2>4 DEF JobsWait
<1>6. JobsApart'
  <2>1. \A i, k \in 1..Len(fwdCh') : i < k => fwdCh'[i].no < fwdCh'[k].no
    BY <1>1, <1>2, <1>3 DEF PoolInv, JobsApart
  <2>2. ASSUME NEW v \in FwdWorker, NEW i \in 1..Len(fwdCh'), job'[v] # NoJob
        PROVE  job'[v].no < fwdCh'[i].no
    BY <2>2, <1>1, <1>2, <1>3 DEF PoolInv, JobsApart
  <2>3. ASSUME NEW u \in FwdWorker, NEW v \in FwdWorker, job'[u] # NoJob, job'[v] # NoJob,
               job'[u].no = job'[v].no
        PROVE  u = v
    <3>1. \A x \in FwdWorker : x # w /\ job[x] # NoJob => job[x].no # fwdCh[1].no
      <4>1. \A x \in FwdWorker : job[x] # NoJob => job[x].no < fwdCh[1].no
        BY <1>3 DEF PoolInv, JobsApart
      <4>2. fwdCh[1].no \in Nat
        BY <1>2 DEF Job, FrameNo
      <4> QED  BY <4>1, <4>2
    <3> QED  BY <2>3, <3>1, <1>3 DEF PoolInv, JobsApart
  <2> QED  BY <2>1, <2>2, <2>3 DEF JobsApart
<1>7. SentInOrder' /\ SettledFirst'
  BY <1>1, <1>2, <1>3 DEF PoolInv, SentInOrder, SettledFirst, Settled
<1>8. HasJob'
  <2> SUFFICES ASSUME NEW n \in FrameNo, fate[n].is = "waiting",
                      ~ \E i \in 1..Len(fwdCh') : fwdCh'[i].no = n
               PROVE  \E v \in FwdWorker : job'[v] # NoJob /\ job'[v].no = n
    BY <1>1 DEF HasJob, InHand
  <2>1. CASE InHand(n)
    BY <2>1, <1>1, <1>3 DEF InHand
  <2>2. CASE \E i \in 1..Len(fwdCh) : fwdCh[i].no = n
    <3>1. PICK i \in 1..Len(fwdCh) : fwdCh[i].no = n
      BY <2>2
    <3>2. i = 1
      <4>1. i # 1 => i - 1 \in 1..Len(fwdCh') /\ fwdCh'[i - 1] = fwdCh[i]
        BY <1>1, <1>2
      <4> QED  BY <3>1, <4>1
    <3> QED  BY <3>1, <3>2, <1>3
  <2> QED  BY <2>1, <2>2 DEF PoolInv, HasJob
<1> QED  BY <1>1, <1>4, <1>5, <1>6, <1>7, <1>8 DEF PoolInv

LEMMA LookUpKeeps ==
  ASSUME PoolInv, NEW w \in FwdWorker, LookUp(w)
  PROVE  PoolInv' /\ UNCHANGED <<name, drops, fate>>
<1>1. /\ UNCHANGED <<nextId, name, live, fwdCh, job, drops, fate>> /\ job[w] # NoJob
      /\ \E k \in live : name[k] = job[w].dst /\ dest' = [dest EXCEPT ![w] = k]
  BY DEF LookUp, connVars
<1>2. PICK k \in live : name[k] = job[w].dst /\ dest' = [dest EXCEPT ![w] = k]
  BY <1>1
<1>3. k \in 1..Len(name) /\ k \in Accepted
  BY <1>2 DEF PoolInv, PoolTypeOK, Accepted
<1>4. PoolTypeOK'
  <2>1. dest' \in [FwdWorker -> Accepted \cup {NoConn}]
    BY <1>2, <1>3 DEF PoolInv, PoolTypeOK
  <2> QED  BY <1>1, <2>1 DEF PoolInv, PoolTypeOK
<1>5. JobsWait'
  <2>1. /\ \A i \in 1..Len(fwdCh') : Waits(fwdCh[i])'
        /\ \A v \in FwdWorker : job'[v] # NoJob => Waits(job[v])'
    BY <1>1 DEF PoolInv, JobsWait, Waits
  <2>2. \A v \in FwdWorker : dest'[v] # NoConn => /\ job'[v] # NoJob
                                                  /\ dest'[v] \in 1..Len(name')
                                                  /\ name'[dest'[v]] = job'[v].dst
    BY <1>1, <1>2, <1>3 DEF PoolInv, JobsWait, PoolTypeOK
  <2> QED  BY <2>1, <2>2 DEF JobsWait
<1>6. JobsApart' /\ SentInOrder' /\ SettledFirst' /\ HasJob'
  BY <1>1 DEF PoolInv, JobsApart, SentInOrder, SettledFirst, HasJob, Settled, InHand
<1> QED  BY <1>1, <1>4, <1>5, <1>6 DEF PoolInv

(* A worker lets go of its job and settles the frame.                      *)
LEMMA SettleKeeps ==
  ASSUME PoolInv, NEW w \in FwdWorker, job[w] # NoJob,
         NEW s \in {"refused", "given"}, NEW k \in Accepted \cup {NoConn},
         Settle(w, s, k), UNCHANGED <<connVars, fwdCh, drops>>
  PROVE  PoolInv'
<1>1. PICK j \in Job : j = job[w] /\ Waits(j) /\ j.no \in FrameNo
  BY DEF PoolInv, PoolTypeOK, JobsWait, Job
<1> DEFINE n == j.no
<1>2. /\ UNCHANGED <<nextId, name, live, fwdCh, drops>>
      /\ fate' = [fate EXCEPT ![n].is = s, ![n].by = k]
      /\ job' = [job EXCEPT ![w] = NoJob] /\ dest' = [dest EXCEPT ![w] = NoConn]
  BY <1>1 DEF Settle, connVars
<1>3. /\ fate \in [FrameNo -> [is : {"unsent", "waiting", "dropped", "refused", "given"},
                               to : Accepted \cup {NoConn}, by : Accepted \cup {NoConn}]]
      /\ job \in [FwdWorker -> Job \cup {NoJob}] /\ dest \in [FwdWorker -> Accepted \cup {NoConn}]
      /\ fwdCh \in Seq(Job) /\ n \in FrameNo
  BY <1>1 DEF PoolInv, PoolTypeOK
<1> HIDE DEF n
<1>4. /\ \A m \in FrameNo : m # n => fate'[m] = fate[m]
      /\ fate'[n].is = s /\ fate[n].is = "waiting"
      /\ \A v \in FwdWorker : v # w => job'[v] = job[v] /\ dest'[v] = dest[v]
      /\ job'[w] = NoJob /\ dest'[w] = NoConn
  <2>1. fate[n].is = "waiting"
    BY <1>1 DEF Waits, n
  <2> QED  BY <1>2, <1>3, <2>1
<1>5. PoolTypeOK'
  <2>1. fate' \in [FrameNo -> [is : {"unsent", "waiting", "dropped", "refused", "given"},
                               to : Accepted \cup {NoConn}, by : Accepted \cup {NoConn}]]
    BY <1>2, <1>3, ZenonT(60)
  <2>2. job' \in [FwdWorker -> Job \cup {NoJob}] /\ dest' \in [FwdWorker -> Accepted \cup {NoConn}]
    BY <1>2, <1>3
  <2> QED  BY <1>2, <2>1, <2>2 DEF PoolInv, PoolTypeOK
<1>6. /\ \A i \in 1..Len(fwdCh) : n < fwdCh[i].no /\ fwdCh[i].no # n
      /\ \A v \in FwdWorker : v # w /\ job[v] # NoJob => job[v].no # n
  <2>1. n \in Nat
    BY <1>3 DEF FrameNo
  <2>2. \A i \in 1..Len(fwdCh) : n < fwdCh[i].no /\ fwdCh[i].no \in Nat
    <3>1. \A i \in 1..Len(fwdCh) : fwdCh[i] \in Job
      BY <1>3, ElementOfSeq
    <3> QED  BY <1>1, <3>1 DEF PoolInv, JobsApart, Job, FrameNo, n
  <2> QED  BY <1>1, <2>1, <2>2 DEF PoolInv, JobsApart, n
<1>7. JobsWait'
  <2>1. \A x : x.no # n /\ x.no \in FrameNo /\ Waits(x) => Waits(x)'
    BY <1>2, <1>4 DEF Waits
  <2>2. ASSUME NEW i \in 1..Len(fwdCh') PROVE Waits(fwdCh[i])'
    <3>1. i \in 1..Len(fwdCh) /\ fwdCh[i] \in Job /\ fwdCh'[i] = fwdCh[i]
      BY <2>2, <1>2, <1>3, ElementOfSeq
    <3>2. PICK x \in Job : x = fwdCh[i] /\ x = fwdCh'[i]
      BY <3>1
    <3>3. x.no \in FrameNo /\ Waits(x) /\ x.no # n
      BY <3>1, <3>2, <1>6 DEF PoolInv, JobsWait, Job
    <3> QED  BY <3>2, <3>3, <2>1
  <2>3. ASSUME NEW v \in FwdWorker, job'[v] # NoJob PROVE Waits(job[v])'
    <3>1. PICK x \in Job : x = job[v] /\ x = job'[v] /\ x.no \in FrameNo /\ v # w
      BY <2>3, <1>3, <1>4 DEF Job
    <3>2. Waits(x) /\ x.no # n
      BY <2>3, <3>1, <1>6 DEF PoolInv, JobsWait
    <3> QED  BY <3>1, <3>2, <2>1
  <2>4. \A v \in FwdWorker : dest'[v] # NoConn => /\ job'[v] # NoJob
                                                  /\ dest'[v] \in 1..Len(name')
                                                  /\ name'[dest'[v]] = job'[v].dst
    BY <1>2, <1>4 DEF PoolInv, JobsWait
  <2> QED  BY <2>2, <2>3, <2>4 DEF JobsWait
<1>8. JobsApart'
  BY <1>2, <1>4 DEF PoolInv, JobsApart
<1>9. SentInOrder'
  BY <1>4 DEF PoolInv, SentInOrder
<1>10. SettledFirst'
  BY <1>2, <1>4, <1>6 DEF PoolInv, SettledFirst, Settled
<1>11. HasJob'
  <2> SUFFICES ASSUME NEW m \in FrameNo, fate'[m].is = "waiting",
                      ~ \E i \in 1..Len(fwdCh') : fwdCh'[i].no = m
               PROVE  \E v \in FwdWorker : job'[v] # NoJob /\ job'[v].no = m
    BY DEF HasJob, InHand
  <2>1. m # n /\ fate[m].is = "waiting"
    BY <1>4
  <2>2. PICK v \in FwdWorker : job[v] # NoJob /\ job[v].no = m
    BY <2>1, <1>2 DEF PoolInv, HasJob, InHand
  <2>3. v # w
    BY <2>1, <2>2, <1>1 DEF n
  <2> QED  BY <2>2, <2>3, <1>4
<1> QED  BY <1>5, <1>7, <1>8, <1>9, <1>10, <1>11 DEF PoolInv

(* What settling does to the frame.                                        *)
LEMMA SettlesOne ==
  ASSUME PoolInv, NEW w \in FwdWorker, NotFound(w) \/ GiveJob(w)
  PROVE  /\ PoolInv' /\ UNCHANGED <<name, drops>>
         /\ \E n \in FrameNo :
              /\ fate[n].is = "waiting"
              /\ \/ fate' = [fate EXCEPT ![n].is = "refused"]
                 \/ \E k \in DOMAIN name :
                      /\ name[k] = name[fate[n].to]
                      /\ fate' = [fate EXCEPT ![n].is = "given", ![n].by = k]
<1>1. /\ job[w] # NoJob /\ UNCHANGED <<connVars, fwdCh, drops>> /\ UNCHANGED <<name, drops>>
      /\ \/ Settle(w, "refused", NoConn)
         \/ dest[w] # NoConn /\ Settle(w, "given", dest[w])
  BY DEF NotFound, GiveJob, connVars
<1>2. PICK j \in Job : j = job[w] /\ Waits(j) /\ j.no \in FrameNo
  BY <1>1 DEF PoolInv, PoolTypeOK, JobsWait, Job
<1>3. fate[j.no].is = "waiting" /\ fate[j.no].by = NoConn /\ name[fate[j.no].to] = j.dst
  BY <1>2 DEF Waits
<1>4. CASE Settle(w, "refused", NoConn)
  <2>1. PoolInv'
    BY <1>1, <1>4, SettleKeeps
  <2>2. fate' = [fate EXCEPT ![j.no].is = "refused", ![j.no].by = NoConn]
    BY <1>2, <1>4 DEF Settle
  <2>3. fate' = [fate EXCEPT ![j.no].is = "refused"]
    BY <2>2, <1>2, <1>3 DEF PoolInv, PoolTypeOK
  <2> QED  BY <2>1, <2>3, <1>1, <1>2, <1>3
<1>5. CASE dest[w] # NoConn /\ Settle(w, "given", dest[w])
  <2>1. dest[w] \in 1..Len(name) /\ name[dest[w]] = j.dst /\ dest[w] \in Accepted
    BY <1>2, <1>5 DEF PoolInv, JobsWait, PoolTypeOK
  <2>2. PoolInv'
    BY <1>1, <1>5, <2>1, SettleKeeps
  <2>3. fate' = [fate EXCEPT ![j.no].is = "given", ![j.no].by = dest[w]]
    BY <1>2, <1>5 DEF Settle
  <2>4. DOMAIN name = 1..Len(name)
    BY DEF PoolInv, PoolTypeOK
  <2> QED  BY <2>1, <2>2, <2>3, <2>4, <1>1, <1>2, <1>3
<1> QED  BY <1>1, <1>4, <1>5

-----------------------------------------------------------------------------
(* The specification *)

LEMMA PoolStepInv == PoolInv /\ [PoolNext]_poolVars => PoolInv'
<1> SUFFICES ASSUME PoolInv, [PoolNext]_poolVars PROVE PoolInv'
  OBVIOUS
<1>1. CASE PoolAccept
  BY <1>1, AcceptKeeps
<1>2. ASSUME NEW k \in Accepted, RemoveConnection(k) PROVE PoolInv'
  BY <1>2, RemoveKeeps
<1>3. ASSUME NEW n \in FrameNo, NEW k \in Accepted, submitForward(n, k) PROVE PoolInv'
  BY <1>3, SubmitKeeps
<1>4. ASSUME NEW w \in FwdWorker, WorkerNext(w) PROVE PoolInv'
  <2>1. CASE TakeJob(w)
    BY <2>1, TakeKeeps
  <2>2. CASE LookUp(w)
    BY <2>2, LookUpKeeps
  <2>3. CASE NotFound(w) \/ GiveJob(w)
    BY <2>3, SettlesOne
  <2> QED  BY <1>4, <2>1, <2>2, <2>3 DEF WorkerNext
<1>5. CASE UNCHANGED poolVars
  BY <1>5 DEF poolVars, PoolInv, PoolTypeOK, JobsWait, Waits, JobsApart, SentInOrder,
              SettledFirst, HasJob, Settled, InHand
<1> QED  BY <1>1, <1>2, <1>3, <1>4, <1>5 DEF PoolNext

LEMMA PoolAlways == PoolSpec => []PoolInv
BY PoolInitInv, PoolStepInv, PTL DEF PoolSpec

(* Types: whatever connections and workers do, the queue keeps its length, *)
(* a worker holds one job, and an id is never 0.                           *)
THEOREM PoolTypes == PoolSpec => []PoolTypeOK
<1>1. PoolInv => PoolTypeOK
  BY DEF PoolInv
<1> QED  BY <1>1, PoolAlways, PTL

(* Two connections in the manager never have the same id, also after the   *)
(* counter has wrapped: what allocConnID returns is not carried by any of  *)
(* them (server.go:204).                                                   *)
THEOREM FreshIds ==
  PoolSpec => [][PoolAccept => nextId' # 0 /\ nextId' \notin LiveIds]_poolVars
<1>1. PoolInv /\ PoolAccept => nextId' # 0 /\ nextId' \notin LiveIds
  BY AllocFinds DEF PoolInv, PoolAccept
<1> QED  BY <1>1, PoolAlways, PTL

(* Frames are overtaken only while a worker holds them (forward.go:43).    *)
THEOREM QueueKeepsOrder == PoolSpec => []OnlyHeldOvertaken
<1>1. PoolInv => OnlyHeldOvertaken
  <2> SUFFICES ASSUME PoolInv, NEW m \in FrameNo, NEW n \in FrameNo,
                      m < n, fate[m].is = "waiting", Settled(n)
               PROVE  InHand(m)
    BY DEF OnlyHeldOvertaken
  <2>1. m \in Nat /\ n \in Nat
    BY DEF FrameNo
  <2>2. ASSUME NEW i \in 1..Len(fwdCh), fwdCh[i].no = m PROVE FALSE
    BY <2>1, <2>2 DEF PoolInv, SettledFirst
  <2> QED  BY <2>2 DEF PoolInv, HasJob
<1> QED  BY <1>1, PoolAlways, PTL

(* The pool implements the lossy delivery: a frame is settled once, by a   *)
(* connection that carries its id or by nobody (forward.go:20-80).         *)
THEOREM PoolDelivers == PoolSpec => DeliverySpec
<1>1. PoolInit => Delivery!Init
  BY DEF PoolInit, Delivery!Init
<1>2. PoolInv /\ [PoolNext]_poolVars => [Delivery!Next]_<<name, drops, fate>>
  <2> SUFFICES ASSUME PoolInv, [PoolNext]_poolVars PROVE Delivery!Next \/ UNCHANGED <<name, drops, fate>>
    OBVIOUS
  <2>1. CASE PoolAccept
    <3>1. Delivery!Accept
      BY <2>1, AcceptKeeps DEF PoolAccept, Delivery!Accept
    <3> QED  BY <3>1 DEF Delivery!Next
  <2>2. ASSUME NEW k \in Accepted, RemoveConnection(k) PROVE UNCHANGED <<name, drops, fate>>
    BY <2>2, RemoveKeeps
  <2>3. ASSUME NEW n \in FrameNo, NEW k \in Accepted, submitForward(n, k) PROVE Delivery!Next
    <3>1. DOMAIN name = 1..Len(name)
      BY DEF PoolInv, PoolTypeOK
    <3>2. Delivery!Send(n)
      BY <2>3, <3>1, SubmitKeeps DEF Delivery!Send
    <3> QED  BY <3>2 DEF Delivery!Next
  <2>4. ASSUME NEW w \in FwdWorker, WorkerNext(w) PROVE Delivery!Next \/ UNCHANGED <<name, drops, fate>>
    <3>1. CASE TakeJob(w)
      BY <3>1, TakeKeeps
    <3>2. CASE LookUp(w)
      BY <3>2, LookUpKeeps
    <3>3. CASE NotFound(w) \/ GiveJob(w)
      BY <3>3, SettlesOne DEF Delivery!Next, Delivery!Give, Delivery!Lose
    <3> QED  BY <2>4, <3>1, <3>2, <3>3 DEF WorkerNext
  <2>5. CASE UNCHANGED poolVars
    BY <2>5 DEF poolVars
  <2> QED  BY <2>1, <2>2, <2>3, <2>4, <2>5 DEF PoolNext
<1> QED  BY <1>1, <1>2, PoolAlways, PTL DEF PoolSpec, DeliverySpec, Delivery!Spec

-----------------------------------------------------------------------------
(* How far the counter is from the id of a connection *)

(* Why allocConnID went past id y after the k-th connection was accepted:  *)
(* it is 0, a connection of S had it, or it was given to a later one.      *)
Used(k, S, y) == \/ y = 0
                 \/ \E j \in S : name[j] = y
                 \/ \E l \in (k + 1)..Len(name) : name[l] = y

(* Since the k-th connection was accepted the counter has gone t ids up,   *)
(* and has not come back to the id of k.  S holds those that were in the   *)
(* manager then: no earlier connection can have come in since.             *)
Young(k) ==
  \E t \in 0..(IdSpace - 1), S \in SUBSET (1..(k - 1)) :
     /\ Cardinality(S) < MaxConn /\ live \cap 1..(k - 1) \subseteq S
     /\ nextId = (name[k] + t) % IdSpace
     /\ \A x \in 1..t : Used(k, S, (name[k] + x) % IdSpace)

(* So many were accepted after k that the next may be given the id of k.   *)
Old(k) == Len(name) - k >= IdSpace - MaxConn - 1

YoungOrOld == \A k \in 1..Len(name) : Young(k) \/ Old(k)

(* An id comes back only after the counter has gone once around.           *)
ReuseLate ==
  \A k, l \in 1..Len(name) : k < l /\ name[k] = name[l] => l - k >= IdSpace - MaxConn

(* Of the connections with its id one in the manager is the latest.        *)
LiveLatest == \A k \in live, l \in 1..Len(name) : k < l => name[l] # name[k]

(* A frame goes to the connection it was meant for or to a later one.      *)
GivenLater ==
  /\ \A w \in FwdWorker : dest[w] # NoConn => fate[job[w].no].to <= dest[w]
  /\ \A n \in FrameNo : fate[n].is = "given" =>
       /\ fate[n].to \in 1..Len(name) /\ fate[n].by \in 1..Len(name)
       /\ fate[n].to <= fate[n].by /\ name[fate[n].to] = name[fate[n].by]

ReuseInv == YoungOrOld /\ ReuseLate /\ LiveLatest /\ GivenLater

(* When every id but that of k was used, so many connections were accepted *)
(* after k: the others were 0 or of the MaxConn - 1 there were before k.   *)
LEMMA OnceAround ==
  ASSUME NEW k \in Nat, k >= 1, NEW n \in Nat, NEW L \in Nat, k <= L,
         NEW S \in SUBSET (1..(k - 1)), Cardinality(S) < MaxConn,
         NEW id,
         \A x \in 1..(IdSpace - 1) : \/ (n + x) % IdSpace = 0
                                     \/ \E j \in S : id[j] = (n + x) % IdSpace
                                     \/ \E l \in (k + 1)..L : id[l] = (n + x) % IdSpace
  PROVE  L - k >= IdSpace - MaxConn - 1
<1> DEFINE y(x) == (n + x) % IdSpace
           X == 1..(IdSpace - 1)
           later == (k + 1)..L
           T == (S \cup later) \cup {0}
           f == [x \in X |-> IF y(x) = 0 THEN 0
                             ELSE CHOOSE j \in S \cup later : id[j] = y(x)]
<1>0. IdSpace \in Nat /\ IdSpace > 1 /\ IdSpace > 0 /\ MaxConn \in Nat
  OBVIOUS
<1>1. IsFiniteSet(X) /\ Cardinality(X) = IdSpace - 1
  <2>1. 1 \in Int /\ IdSpace - 1 \in Int /\ ~(1 > IdSpace - 1)
    BY <1>0
  <2>2. IsFiniteSet(X) /\ Cardinality(X) = IF 1 > IdSpace - 1 THEN 0 ELSE (IdSpace - 1) - 1 + 1
    BY <2>1, FS_Interval
  <2> QED  BY <1>0, <2>1, <2>2
<1>2. IsFiniteSet(S) /\ Cardinality(S) \in Nat
  <2>1. IsFiniteSet(1..(k - 1))
    BY FS_Interval
  <2> QED  BY <2>1, FS_Subset, FS_CardinalityType
<1>3. IsFiniteSet(later) /\ Cardinality(later) = L - k
  <2>1. IsFiniteSet(later) /\ Cardinality(later) = IF k + 1 > L THEN 0 ELSE L - (k + 1) + 1
    <3>1. k + 1 \in Int /\ L \in Int
      OBVIOUS
    <3> QED  BY <3>1, FS_Interval
  <2> QED  BY <2>1
<1>4. S \cap later = {} /\ 0 \notin S \cup later
  OBVIOUS
<1>5. IsFiniteSet(S \cup later) /\ Cardinality(S \cup later) = Cardinality(S) + (L - k)
  <2> HIDE DEF later
  <2>1. /\ IsFiniteSet(S \cup later)
        /\ Cardinality(S \cup later)
             = Cardinality(S) + Cardinality(later) - Cardinality(S \cap later)
    BY <1>2, <1>3, FS_Union
  <2>2. Cardinality(S \cap later) = 0
    BY <1>4, FS_EmptySet
  <2> QED  BY <1>2, <1>3, <2>1, <2>2
<1>6. IsFiniteSet(T) /\ Cardinality(T) = Cardinality(S) + (L - k) + 1
  <2> HIDE DEF later
  <2> QED  BY <1>4, <1>5, FS_AddElement
<1>7. ~(Cardinality(T) < Cardinality(X))
  <2> SUFFICES ASSUME Cardinality(T) < Cardinality(X) PROVE FALSE
    OBVIOUS
  <2>1. \A x \in X : y(x) # 0 => f[x] \in S \cup later /\ id[f[x]] = y(x)
    OBVIOUS
  <2>2. \A x \in X : y(x) = 0 => f[x] = 0
    OBVIOUS
  <2>3. f \in [X -> T]
    BY <2>1, <2>2
  <2>4. PICK x, z \in X : x # z /\ f[x] = f[z]
    <3> HIDE DEF X, T, f
    <3> QED  BY <2>3, <1>1, <1>6, FS_PigeonHole
  <2>5. y(x) = y(z)
    <3> HIDE DEF f, X, y, later
    <3> QED  BY <2>1, <2>2, <2>4, <1>4
  <2>6. /\ n + x \in Int /\ n + z \in Int
        /\ (n + x) - (n + z) < IdSpace /\ (n + z) - (n + x) < IdSpace
        /\ n + x < n + z \/ n + z < n + x
    BY <2>4, <1>0
  <2> HIDE DEF X, f
  <2> QED  BY <2>5, <2>6, <1>0, CounterWraps
<1> HIDE DEF T, X
<1> QED  BY <1>0, <1>1, <1>2, <1>6, <1>7

(* The next id, and the ids the counter goes past to reach it.             *)
LEMMA AcceptStep ==
  ASSUME PoolInv, PoolAccept
  PROVE  /\ Len(name) \in Nat /\ Len(name') = Len(name) + 1
         /\ name'[Len(name) + 1] = nextId' /\ nextId' \in 1..(IdSpace - 1)
         /\ \A k \in 1..Len(name) : name'[k] = name[k] /\ name[k] \in 1..(IdSpace - 1)
         /\ nextId' \notin LiveIds
         /\ \E d \in 1..IdSpace :
              /\ nextId' = (nextId + d) % IdSpace
              /\ \A e \in 1..(d - 1) : (nextId + e) % IdSpace \in LiveIds \cup {0}
<1>1. name' = Append(name, nextId') /\ nextId' \in 1..(IdSpace - 1)
  BY AcceptKeeps
<1>2. name \in Seq(1..(IdSpace - 1)) /\ Len(name) \in Nat
  BY DEF PoolInv, PoolTypeOK
<1>3. /\ Len(name') = Len(name) + 1 /\ name'[Len(name) + 1] = nextId'
      /\ \A k \in 1..Len(name) : name'[k] = name[k]
  BY <1>1, <1>2, AppendProperties
<1>4. \A k \in 1..Len(name) : name[k] \in 1..(IdSpace - 1)
  BY <1>2, ElementOfSeq
<1>5. PoolTypeOK /\ Cardinality(live) < MaxConn /\ nextId' = allocConnID(nextId)
  BY DEF PoolInv, PoolAccept
<1>6. /\ nextId' \notin LiveIds
      /\ \E d \in 1..IdSpace :
           /\ nextId' = (nextId + d) % IdSpace
           /\ \A e \in 1..(d - 1) : (nextId + e) % IdSpace \in LiveIds \cup {0}
  <2> PICK i : i = nextId'
    OBVIOUS
  <2> QED  BY <1>5, AllocFinds
<1> QED  BY <1>1, <1>2, <1>3, <1>4, <1>6

(* While the counter has not come around to the id of k, the next id is    *)
(* another one; when it comes around, every id in between was used.        *)
LEMMA YoungStep ==
  ASSUME PoolInv, PoolAccept, NEW k \in 1..Len(name), Young(k)
  PROVE  (Young(k)' /\ nextId' # name[k]) \/ Old(k)
<1> DEFINE a == name[k]
           L == Len(name)
<1>1. /\ L \in Nat /\ Len(name') = L + 1
      /\ name'[L + 1] = nextId' /\ nextId' \in 1..(IdSpace - 1)
      /\ \A i \in 1..L : name'[i] = name[i]
      /\ k \in Nat /\ k >= 1 /\ k <= L /\ a \in Nat
  BY AcceptStep
<1>2. IdSpace \in Nat /\ IdSpace > 0
  OBVIOUS
<1>3. PICK d \in 1..IdSpace :
        /\ nextId' = (nextId + d) % IdSpace
        /\ \A e \in 1..(d - 1) : (nextId + e) % IdSpace \in LiveIds \cup {0}
  BY AcceptStep
<1>4. PICK t \in 0..(IdSpace - 1), S \in SUBSET (1..(k - 1)) :
        /\ Cardinality(S) < MaxConn /\ live \cap 1..(k - 1) \subseteq S
        /\ nextId = (a + t) % IdSpace
        /\ \A x \in 1..t : Used(k, S, (a + x) % IdSpace)
  BY DEF Young
<1>5. ASSUME NEW e \in 1..IdSpace
      PROVE  (nextId + e) % IdSpace = (a + (t + e)) % IdSpace
  <2>1. t \in Nat /\ e \in Nat /\ a + t \in Nat /\ (a + t) + e = a + (t + e)
    BY <1>1
  <2>2. (((a + t) % IdSpace) + e) % IdSpace = ((a + t) + e) % IdSpace
    <3> HIDE DEF a
    <3> QED  BY <1>2, <2>1, SumWraps
  <2> QED  BY <1>4, <2>1, <2>2
<1>6. ASSUME NEW x \in 1..(IdSpace - 1)
      PROVE  (a + x) % IdSpace # a
  <2> SUFFICES ASSUME (a + x) % IdSpace = a PROVE FALSE
    OBVIOUS
  <2>1. a \in 1..(IdSpace - 1)
    BY AcceptStep
  <2>2. a % IdSpace = a
    <3> HIDE DEF a
    <3> QED  BY <1>2, <2>1
  <2>3. /\ a \in Int /\ a + x \in Int /\ a < a + x /\ (a + x) - a < IdSpace
        /\ a % IdSpace = (a + x) % IdSpace
    BY <1>1, <2>2
  <2> HIDE DEF a
  <2> QED  BY <1>2, <2>3, CounterWraps
<1>7. live \subseteq 1..L
  BY DEF PoolInv, PoolTypeOK
(* What the counter goes past was used by 0, by S or by a later one.       *)
<1>8. ASSUME NEW x \in 1..(IdSpace - 1), x < t + d
      PROVE  Used(k, S, (a + x) % IdSpace)
  <2>1. CASE x <= t
    BY <1>4, <2>1
  <2>2. CASE x > t
    <3>1. PICK e \in 1..(d - 1) : x = t + e
      <4>1. x - t \in 1..(d - 1) /\ x = t + (x - t)
        BY <1>8, <2>2
      <4> QED  BY <4>1
    <3>2. e \in 1..IdSpace
      BY <1>2
    <3>3. (a + x) % IdSpace = (nextId + e) % IdSpace
      BY <1>5, <3>1, <3>2
    <3>4. (nextId + e) % IdSpace \in LiveIds \cup {0}
      BY <1>3
    <3>5. CASE (a + x) % IdSpace = 0
      BY <3>5 DEF Used
    <3>6. CASE (a + x) % IdSpace \in LiveIds
      <4>1. PICK j \in live : name[j] = (a + x) % IdSpace
        BY <3>6 DEF LiveIds
      <4>2. j # k
        BY <1>6, <4>1
      <4>3. j \in live \cap 1..(k - 1) \/ j \in (k + 1)..L
        BY <1>1, <1>7, <4>2
      <4>4. j \in S \/ j \in (k + 1)..Len(name)
        BY <1>4, <4>3
      <4> QED  BY <4>1, <4>4 DEF Used
    <3> QED  BY <3>3, <3>4, <3>5, <3>6
  <2> QED  BY <2>1, <2>2
<1>9. CASE t + d < IdSpace
  <2>1. t + d \in 1..(IdSpace - 1)
    BY <1>9
  <2>2. nextId' = (a + (t + d)) % IdSpace
    BY <1>3, <1>5
  <2>3. nextId' # a
    BY <1>6, <2>1, <2>2
  <2>4. live' \cap 1..(k - 1) \subseteq S
    BY <1>1, <1>4 DEF PoolAccept
  <2>5. ASSUME NEW y, Used(k, S, y)
        PROVE  \/ y = 0
               \/ \E j \in S : name'[j] = y
               \/ \E l \in (k + 1)..Len(name') : name'[l] = y
    BY <1>1, <2>5 DEF Used
  <2>6. ASSUME NEW x \in 1..(t + d)
        PROVE  \/ (a + x) % IdSpace = 0
               \/ \E j \in S : name'[j] = (a + x) % IdSpace
               \/ \E l \in (k + 1)..Len(name') : name'[l] = (a + x) % IdSpace
    <3>1. CASE x < t + d
      BY <1>8, <2>1, <2>5, <3>1
    <3>2. CASE x = t + d
      <4>1. L + 1 \in (k + 1)..Len(name') /\ name'[L + 1] = (a + x) % IdSpace
        BY <1>1, <2>2, <3>2
      <4> QED  BY <4>1
    <3> QED  BY <3>1, <3>2, <2>1
  <2>7. name'[k] = a
    BY <1>1
  <2>8. t + d \in 0..(IdSpace - 1)
    BY <2>1
  <2>9. Young(k)'
    <3> SUFFICES
          \E u \in 0..(IdSpace - 1), R \in SUBSET (1..(k - 1)) :
             /\ Cardinality(R) < MaxConn /\ live' \cap 1..(k - 1) \subseteq R
             /\ nextId' = (name'[k] + u) % IdSpace
             /\ \A x \in 1..u : \/ (name'[k] + x) % IdSpace = 0
                                \/ \E j \in R : name'[j] = (name'[k] + x) % IdSpace
                                \/ \E l \in (k + 1)..Len(name') :
                                      name'[l] = (name'[k] + x) % IdSpace
      BY DEF Young, Used
    <3> WITNESS t + d \in 0..(IdSpace - 1), S \in SUBSET (1..(k - 1))
    <3>1. /\ Cardinality(S) < MaxConn /\ live' \cap 1..(k - 1) \subseteq S
          /\ nextId' = (name'[k] + (t + d)) % IdSpace
      BY <1>4, <2>2, <2>4, <2>7
    <3>2. ASSUME NEW x \in 1..(t + d)
          PROVE  \/ (name'[k] + x) % IdSpace = 0
                 \/ \E j \in S : name'[j] = (name'[k] + x) % IdSpace
                 \/ \E l \in (k + 1)..Len(name') : name'[l] = (name'[k] + x) % IdSpace
      <4>1. (name'[k] + x) % IdSpace = (a + x) % IdSpace
        BY <2>7
      <4>2. PICK y : y = (a + x) % IdSpace
        OBVIOUS
      <4> QED  BY <2>6, <4>1, <4>2
    <3> QED  BY <3>1, <3>2
  <2> QED  BY <2>3, <2>9
<1>10. CASE ~(t + d < IdSpace)
  <2>1. \A x \in 1..(IdSpace - 1) : Used(k, S, (a + x) % IdSpace)
    BY <1>8, <1>10
  <2>2. \A x \in 1..(IdSpace - 1) : \/ (a + x) % IdSpace = 0
                                    \/ \E j \in S : name[j] = (a + x) % IdSpace
                                    \/ \E l \in (k + 1)..L : name[l] = (a + x) % IdSpace
    BY <2>1 DEF Used
  <2>3. L - k >= IdSpace - MaxConn - 1
    <3>1. k \in Nat /\ k >= 1 /\ a \in Nat /\ L \in Nat /\ k <= L /\ Cardinality(S) < MaxConn
      BY <1>1, <1>4
    <3> HIDE DEF a, L
    <3> QED  BY <3>1, <2>2, OnceAround
  <2> QED  BY <2>3 DEF Old
<1> QED  BY <1>9, <1>10

LEMMA ReuseInit == PoolInit => ReuseInv
<1> SUFFICES ASSUME PoolInit PROVE ReuseInv
  OBVIOUS
<1>1. name = <<>> /\ live = {} /\ 1..Len(name) = {}
  BY DEF PoolInit
<1>2. YoungOrOld /\ ReuseLate /\ LiveLatest
  BY <1>1 DEF YoungOrOld, ReuseLate, LiveLatest
<1>3. GivenLater
  BY DEF PoolInit, GivenLater
<1> QED  BY <1>2, <1>3 DEF ReuseInv

(* A connection that comes.                                                *)
LEMMA AcceptReuse ==
  ASSUME PoolInv, ReuseInv, PoolAccept
  PROVE  ReuseInv'
<1> DEFINE L == Len(name)
<1>1. /\ L \in Nat /\ Len(name') = L + 1
      /\ name'[L + 1] = nextId' /\ nextId' \in 1..(IdSpace - 1)
      /\ \A k \in 1..L : name'[k] = name[k]
      /\ nextId' \notin LiveIds
  BY AcceptStep
<1>2. live \subseteq 1..L /\ live' = live \cup {L + 1} /\ Cardinality(live) < MaxConn
  BY DEF PoolInv, PoolTypeOK, PoolAccept
<1>3. \A k \in 1..(L + 1) : k \in 1..L \/ k = L + 1
  BY <1>1
<1>4. ASSUME NEW k \in 1..L
      PROVE  (Young(k)' /\ nextId' # name[k]) \/ Old(k)
  BY YoungStep DEF ReuseInv, YoungOrOld
<1>5. YoungOrOld'
  <2>1. ASSUME NEW k \in 1..L
        PROVE  Young(k)' \/ Old(k)'
    <3>1. Old(k) => Old(k)'
      BY <1>1 DEF Old
    <3> QED  BY <1>4, <3>1
  <2>2. ASSUME NEW k, k = L + 1
        PROVE  Young(k)'
    <3> SUFFICES
          \E u \in 0..(IdSpace - 1), R \in SUBSET (1..(k - 1)) :
             /\ Cardinality(R) < MaxConn /\ live' \cap 1..(k - 1) \subseteq R
             /\ nextId' = (name'[k] + u) % IdSpace
             /\ \A x \in 1..u : \/ (name'[k] + x) % IdSpace = 0
                                \/ \E j \in R : name'[j] = (name'[k] + x) % IdSpace
                                \/ \E l \in (k + 1)..Len(name') :
                                      name'[l] = (name'[k] + x) % IdSpace
      BY DEF Young, Used
    <3>1. 0 \in 0..(IdSpace - 1) /\ 1..0 = {}
      OBVIOUS
    <3>2. live \in SUBSET (1..(k - 1))
      BY <1>1, <1>2, <2>2
    <3>3. live' \cap 1..(k - 1) \subseteq live
      BY <1>1, <1>2, <2>2
    <3>4. (name'[k] + 0) % IdSpace = nextId'
      <4>1. PICK y \in 1..(IdSpace - 1) : y = nextId' /\ y = name'[k]
        BY <1>1, <2>2
      <4>2. (y + 0) % IdSpace = y
        OBVIOUS
      <4> QED  BY <4>1, <4>2
    <3> QED  BY <1>2, <3>1, <3>2, <3>3, <3>4
  <2> QED  BY <1>1, <1>3, <2>1, <2>2 DEF YoungOrOld
<1>6. ReuseLate'
  <2> SUFFICES ASSUME NEW k \in 1..(L + 1), NEW l \in 1..(L + 1), k < l, name'[k] = name'[l]
               PROVE  l - k >= IdSpace - MaxConn
    BY <1>1 DEF ReuseLate
  <2>1. k \in 1..L
    BY <1>1
  <2>2. CASE l \in 1..L
    BY <1>1, <2>1, <2>2 DEF ReuseInv, ReuseLate
  <2>3. CASE l = L + 1
    <3>1. name[k] = nextId'
      BY <1>1, <2>1, <2>3
    <3>2. Old(k)
      BY <1>4, <2>1, <3>1
    <3> QED  BY <1>1, <2>3, <3>2 DEF Old
  <2> QED  BY <1>3, <2>2, <2>3
<1>7. LiveLatest'
  <2> SUFFICES ASSUME NEW k \in live', NEW l \in 1..(L + 1), k < l
               PROVE  name'[l] # name'[k]
    BY <1>1 DEF LiveLatest
  <2>1. k \in live /\ k \in 1..L
    BY <1>1, <1>2
  <2>2. CASE l \in 1..L
    BY <1>1, <2>1, <2>2 DEF ReuseInv, LiveLatest
  <2>3. CASE l = L + 1
    BY <1>1, <2>1, <2>3 DEF LiveIds
  <2> QED  BY <1>3, <2>2, <2>3
<1>8. GivenLater'
  <2>1. UNCHANGED <<job, dest, fate>>
    BY DEF PoolAccept
  <2>2. 1..L \subseteq 1..Len(name')
    BY <1>1
  <2> QED  BY <1>1, <2>1, <2>2 DEF ReuseInv, GivenLater
<1> QED  BY <1>5, <1>6, <1>7, <1>8 DEF ReuseInv

(* Connections that go, and whatever leaves the ids and frames alone.      *)
LEMMA IdsReuse ==
  ASSUME ReuseInv, UNCHANGED <<nextId, name>>, live' \subseteq live
  PROVE  YoungOrOld' /\ ReuseLate' /\ LiveLatest'
<1>1. ASSUME NEW k \in 1..Len(name), Young(k)
      PROVE  Young(k)'
  <2>1. PICK t \in 0..(IdSpace - 1), S \in SUBSET (1..(k - 1)) :
          /\ Cardinality(S) < MaxConn /\ live \cap 1..(k - 1) \subseteq S
          /\ nextId = (name[k] + t) % IdSpace
          /\ \A x \in 1..t : Used(k, S, (name[k] + x) % IdSpace)
    BY <1>1 DEF Young
  <2>2. live' \cap 1..(k - 1) \subseteq S
    BY <2>1
  <2>3. \A y : Used(k, S, y) => Used(k, S, y)'
    BY DEF Used
  <2> QED  BY <2>1, <2>2, <2>3 DEF Young, Used
<1>2. \A k \in 1..Len(name) : Old(k) => Old(k)'
  BY DEF Old
<1> QED  BY <1>1, <1>2 DEF ReuseInv, YoungOrOld, ReuseLate, LiveLatest

(* A worker that finds a connection for its frame finds the one the frame  *)
(* was meant for or a later one: if an earlier one had the id, it would    *)
(* have been in the manager when the later one was given it.               *)
LEMMA LookUpReuse ==
  ASSUME PoolInv, ReuseInv, NEW w \in FwdWorker, LookUp(w)
  PROVE  GivenLater'
<1>1. PICK k \in live : name[k] = job[w].dst /\ dest' = [dest EXCEPT ![w] = k]
  BY DEF LookUp
<1>2. UNCHANGED <<name, job, fate>> /\ job[w] # NoJob
  BY DEF LookUp, connVars
<1> DEFINE m == fate[job[w].no].to
<1>3. m \in 1..Len(name) /\ name[m] = name[k] /\ k \in Nat
  BY <1>1, <1>2 DEF PoolInv, PoolTypeOK, JobsWait, Waits
<1>4. m <= k
  BY <1>3 DEF ReuseInv, LiveLatest
<1>5. \A v \in FwdWorker : dest'[v] = dest[v] \/ (v = w /\ dest'[v] = k)
  BY <1>1 DEF PoolInv, PoolTypeOK
<1> QED  BY <1>2, <1>4, <1>5 DEF ReuseInv, GivenLater

LEMMA SubmitReuse ==
  ASSUME PoolInv, ReuseInv, NEW n \in FrameNo, NEW k \in Accepted, submitForward(n, k)
  PROVE  GivenLater'
<1>1. PICK s \in {"waiting", "dropped"} :
        fate' = [fate EXCEPT ![n] = [is |-> s, to |-> k, by |-> NoConn]]
  BY SubmitKeeps
<1>2. UNCHANGED <<name, job, dest>> /\ fate[n].is = "unsent"
  BY DEF submitForward, connVars
<1>3. /\ \A m \in FrameNo : m # n => fate'[m] = fate[m]
      /\ fate'[n].is # "given"
  BY <1>1 DEF PoolInv, PoolTypeOK
<1>4. ASSUME NEW w \in FwdWorker, dest[w] # NoConn
      PROVE  job[w].no \in FrameNo /\ job[w].no # n
  <2>1. job[w] \in Job /\ Waits(job[w])
    BY <1>4 DEF PoolInv, PoolTypeOK, JobsWait
  <2> QED  BY <1>2, <2>1 DEF Waits, Job
<1> QED  BY <1>2, <1>3, <1>4 DEF ReuseInv, GivenLater

LEMMA TakeReuse ==
  ASSUME PoolInv, ReuseInv, NEW w \in FwdWorker, TakeJob(w)
  PROVE  GivenLater'
<1>1. /\ UNCHANGED <<name, dest, fate>> /\ job[w] = NoJob
      /\ \A v \in FwdWorker : v # w => job'[v] = job[v]
  BY DEF TakeJob, connVars, PoolInv, PoolTypeOK
<1>2. dest[w] = NoConn
  BY <1>1 DEF PoolInv, JobsWait
<1> QED  BY <1>1, <1>2 DEF ReuseInv, GivenLater

LEMMA SettleReuse ==
  ASSUME PoolInv, ReuseInv, NEW w \in FwdWorker, NotFound(w) \/ GiveJob(w)
  PROVE  GivenLater'
<1>1. /\ job[w] # NoJob /\ UNCHANGED name
      /\ \/ Settle(w, "refused", NoConn)
         \/ dest[w] # NoConn /\ Settle(w, "given", dest[w])
  BY DEF NotFound, GiveJob, connVars
<1>2. PICK j \in Job : j = job[w] /\ Waits(j) /\ j.no \in FrameNo
  BY <1>1 DEF PoolInv, PoolTypeOK, JobsWait, Job
<1> DEFINE n == j.no
<1>3. /\ \A v \in FwdWorker : v # w => job'[v] = job[v] /\ dest'[v] = dest[v]
      /\ dest'[w] = NoConn
  BY <1>1 DEF Settle, PoolInv, PoolTypeOK
<1>4. /\ \A m \in FrameNo : m # n => fate'[m] = fate[m]
      /\ fate'[n].to = fate[n].to
      /\ fate'[n].is = "given" => dest[w] # NoConn /\ fate'[n].by = dest[w]
  <2>1. /\ n \in FrameNo
        /\ fate \in [FrameNo -> [is : {"unsent", "waiting", "dropped", "refused", "given"},
                                 to : Accepted \cup {NoConn}, by : Accepted \cup {NoConn}]]
    BY <1>2 DEF PoolInv, PoolTypeOK
  <2>2. ASSUME NEW s, NEW k, fate' = [fate EXCEPT ![n].is = s, ![n].by = k]
        PROVE  /\ \A m \in FrameNo : m # n => fate'[m] = fate[m]
               /\ fate'[n].to = fate[n].to /\ fate'[n].is = s /\ fate'[n].by = k
    BY <2>1, <2>2
  <2>3. CASE Settle(w, "refused", NoConn)
    <3>1. fate' = [fate EXCEPT ![n].is = "refused", ![n].by = NoConn]
      BY <1>2, <2>3 DEF Settle
    <3> QED  BY <2>2, <3>1
  <2>4. CASE dest[w] # NoConn /\ Settle(w, "given", dest[w])
    <3>1. fate' = [fate EXCEPT ![n].is = "given", ![n].by = dest[w]]
      BY <1>2, <2>4 DEF Settle
    <3> QED  BY <2>2, <2>4, <3>1
  <2> QED  BY <1>1, <2>3, <2>4
<1>5. \A v \in FwdWorker : dest[v] # NoConn => job[v].no \in FrameNo
  BY DEF PoolInv, PoolTypeOK, JobsWait, Job
<1>6. dest[w] # NoConn =>
        /\ dest[w] \in 1..Len(name) /\ name[dest[w]] = j.dst
        /\ fate[n].to <= dest[w]
  BY <1>2 DEF PoolInv, JobsWait, ReuseInv, GivenLater
<1>7. fate[n].to \in 1..Len(name) /\ name[fate[n].to] = j.dst
  BY <1>2 DEF Waits
<1> HIDE DEF n
<1> QED  BY <1>1, <1>2, <1>3, <1>4, <1>5, <1>6, <1>7, SMTT(30) DEF ReuseInv, GivenLater, n

LEMMA ReuseStep == PoolInv /\ ReuseInv /\ [PoolNext]_poolVars => ReuseInv'
<1> SUFFICES ASSUME PoolInv, ReuseInv, [PoolNext]_poolVars PROVE ReuseInv'
  OBVIOUS
<1>1. CASE PoolAccept
  BY <1>1, AcceptReuse
<1>2. ASSUME NEW k \in Accepted, RemoveConnection(k)
      PROVE  ReuseInv'
  <2>1. UNCHANGED <<nextId, name, job, dest, fate>> /\ live' \subseteq live
    BY <1>2 DEF RemoveConnection
  <2>2. GivenLater'
    BY <2>1 DEF ReuseInv, GivenLater
  <2> QED  BY <2>1, <2>2, IdsReuse DEF ReuseInv
<1>3. ASSUME NEW n \in FrameNo, NEW k \in Accepted, submitForward(n, k)
      PROVE  ReuseInv'
  <2>1. UNCHANGED <<nextId, name, live>>
    BY <1>3 DEF submitForward, connVars
  <2> QED  BY <1>3, <2>1, IdsReuse, SubmitReuse DEF ReuseInv
<1>4. ASSUME NEW w \in FwdWorker, WorkerNext(w)
      PROVE  ReuseInv'
  <2>1. UNCHANGED <<nextId, name, live>>
    BY <1>4 DEF WorkerNext, TakeJob, LookUp, NotFound, GiveJob, connVars
  <2>2. GivenLater'
    BY <1>4, TakeReuse, LookUpReuse, SettleReuse DEF WorkerNext
  <2> QED  BY <2>1, <2>2, IdsReuse DEF ReuseInv
<1>5. CASE UNCHANGED poolVars
  <2>1. UNCHANGED <<nextId, name, live, job, dest, fate>>
    BY <1>5 DEF poolVars
  <2>2. GivenLater'
    BY <2>1 DEF ReuseInv, GivenLater
  <2> QED  BY <2>1, <2>2, IdsReuse DEF ReuseInv
<1> QED  BY <1>1, <1>2, <1>3, <1>4, <1>5 DEF PoolNext

(* A frame goes to another connection than it was meant for only if at     *)
(* least IdSpace - MaxConn connections were accepted since that one was    *)
(* (server.go:204), however long or short the frame itself waited.         *)
THEOREM NoReuseEarly == PoolSpec => []NoEarlyReuse
<1>1. ReuseInv => NoEarlyReuse
  <2> SUFFICES ASSUME ReuseInv, NEW n \in FrameNo,
                      fate[n].is = "given", fate[n].by # fate[n].to
               PROVE  fate[n].by - fate[n].to >= IdSpace - MaxConn
    BY DEF NoEarlyReuse
  <2>1. /\ fate[n].to \in 1..Len(name) /\ fate[n].by \in 1..Len(name)
        /\ fate[n].to <= fate[n].by /\ name[fate[n].to] = name[fate[n].by]
    BY DEF ReuseInv, GivenLater
  <2>2. fate[n].to < fate[n].by
    BY <2>1
  <2> QED  BY <2>1, <2>2 DEF ReuseInv, ReuseLate
<1> QED  BY <1>1, ReuseInit, ReuseStep, PoolAlways, PTL DEF PoolSpec
=============================================================================
