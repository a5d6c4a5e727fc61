--------------------------- MODULE ConnIndexProofs ---------------------------
(***************************************************************************)
(* Lemmas about the index operators for every set of connections and keys: *)
(* each keeps the index well formed (Sound) and does to the relation it    *)
(* represents (byConn) exactly what its name says.                         *)
(***************************************************************************)
EXTENDS ConnIndex, TLAPS

Sound(r) == r \in Index /\ Agree(r)

(* The empty index is sound. *)
LEMMA EmptySound == Sound(EmptyIndex)
BY IndexAssumption DEF Sound, Index, EmptyIndex, Agree

(* In a sound index the members of a key are the connections that have it, *)
(* so a lookup by key and a scan of byConn give the same answer.           *)
LEMMA MembersAreOwners ==
  ASSUME NEW r, Sound(r), NEW k \in Key
  PROVE  Members(r.byKey, k) = {c \in Conn : r.byConn[c] = k}
<1> DEFINE owners == {c \in Conn : r.byConn[c] = k}
<1>1. r.byKey[k] = IF owners = {} THEN Absent ELSE owners
  BY DEF Sound, Agree
<1>2. owners # Absent
  BY IndexAssumption
<1>3. QED
  BY <1>1, <1>2 DEF Members

(* Removing connections clears exactly their entries. *)
LEMMA RemoveConnsSound ==
  ASSUME NEW r, Sound(r), NEW S \in SUBSET Conn
  PROVE  /\ Sound(RemoveConns(r, S))
         /\ RemoveConns(r, S).byConn =
              [c \in Conn |-> IF c \in S THEN NoKey ELSE r.byConn[c]]
<1> DEFINE q == RemoveConns(r, S)
           gone(k) == {c \in S : r.byConn[c] = k}
           left(k) == {c \in Conn : q.byConn[c] = k}
<1>1. q.byConn = [c \in Conn |-> IF c \in S THEN NoKey ELSE r.byConn[c]]
  BY DEF RemoveConns
<1>2. q.byKey = [k \in Key |-> IF gone(k) = {} THEN r.byKey[k]
                               ELSE Without(r.byKey, k, gone(k))[k]]
  BY DEF RemoveConns
<1>3. r.byConn \in [Conn -> Key \cup {NoKey}] /\ r.byKey \in [Key -> {Absent} \cup SUBSET Conn]
  BY DEF Sound, Index
<1>4. ASSUME NEW k \in Key
      PROVE  q.byKey[k] = IF left(k) = {} THEN Absent ELSE left(k)
  <2> DEFINE owners == {c \in Conn : r.byConn[c] = k}
  <2>1. left(k) = owners \ S
    BY <1>1, IndexAssumption
  <2>2. r.byKey[k] = IF owners = {} THEN Absent ELSE owners
    BY DEF Sound, Agree
  <2>3. Members(r.byKey, k) = owners
    BY MembersAreOwners
  <2>4. CASE gone(k) = {}
    <3>1. owners \ S = owners
      BY <2>4
    <3>2. QED
      BY <1>2, <2>1, <2>2, <2>4, <3>1
  <2>5. CASE gone(k) # {}
    <3>1. Members(r.byKey, k) \ gone(k) = left(k)
      BY <2>1, <2>3
    <3>2. Without(r.byKey, k, gone(k))[k] = IF left(k) = {} THEN Absent ELSE left(k)
      BY <1>3, <3>1 DEF Without
    <3>3. QED
      BY <1>2, <2>5, <3>2
  <2>6. QED
    BY <2>4, <2>5
<1>5. Agree(q)
  BY <1>4 DEF Agree
<1>6. q.byConn \in [Conn -> Key \cup {NoKey}]
  BY <1>1, <1>3
<1>7. q.byKey \in [Key -> {Absent} \cup SUBSET Conn]
  BY <1>2, <1>4
<1>8. q \in Index
  BY <1>6, <1>7 DEF RemoveConns, Index
<1>9. QED
  BY <1>1, <1>5, <1>8 DEF Sound

(* Giving a connection a key changes its entry and no other. *)
LEMMA SetKeySound ==
  ASSUME NEW r, Sound(r), NEW c \in Conn, NEW k \in Key
  PROVE  /\ Sound(SetKey(r, c, k))
         /\ SetKey(r, c, k).byConn = [r.byConn EXCEPT ![c] = k]
<1> DEFINE q    == SetKey(r, c, k)
           old  == r.byConn[c]
           left == IF old \notin {NoKey, k} THEN Without(r.byKey, old, {c})
                   ELSE r.byKey
           now(j)    == {d \in Conn : q.byConn[d] = j}
           before(j) == {d \in Conn : r.byConn[d] = j}
<1>1. q.byConn = [r.byConn EXCEPT ![c] = k] /\ q.byKey = With(left, k, c)
  BY DEF SetKey
<1>2. r.byConn \in [Conn -> Key \cup {NoKey}] /\ r.byKey \in [Key -> {Absent} \cup SUBSET Conn]
  BY DEF Sound, Index
<1>3. left \in [Key -> {Absent} \cup SUBSET Conn]
  <2>1. CASE old \in {NoKey, k}
    BY <1>2, <2>1
  <2>2. CASE old \notin {NoKey, k}
    <3>1. old \in Key
      BY <1>2, <2>2
    <3>2. Members(r.byKey, old) \in SUBSET Conn
      BY <3>1, MembersAreOwners
    <3>3. QED
      BY <1>2, <2>2, <3>1, <3>2 DEF Without
  <2>3. QED
    BY <2>1, <2>2
<1>4. ASSUME NEW j \in Key
      PROVE  q.byKey[j] = IF now(j) = {} THEN Absent ELSE now(j)
  <2>1. r.byKey[j] = IF before(j) = {} THEN Absent ELSE before(j)
    BY DEF Sound, Agree
  <2>2. Members(r.byKey, j) = before(j)
    BY MembersAreOwners
  <2>3. CASE j = k
    <3>1. Members(left, k) = before(k)
      <4>1. left[k] = r.byKey[k]
        BY <1>2 DEF Without
      <4>2. QED
        BY <2>2, <2>3, <4>1 DEF Members
    <3>2. q.byKey[k] = before(k) \cup {c}
      BY <1>1, <1>3, <3>1 DEF With
    <3>3. now(k) = before(k) \cup {c}
      BY <1>1, <1>2
    <3>4. QED
      BY <2>3, <3>2, <3>3
  <2>4. CASE j # k /\ j = old
    <3>1. q.byKey[j] = left[j]
      BY <1>1, <1>3, <2>4 DEF With
    <3>2. old \notin {NoKey, k}
      BY <2>4, IndexAssumption
    <3>3. left[j] = IF before(j) \ {c} = {} THEN Absent ELSE before(j) \ {c}
      BY <1>2, <2>2, <2>4, <3>2 DEF Without
    <3>4. now(j) = before(j) \ {c}
      BY <1>1, <1>2, <2>4
    <3>5. QED
      BY <3>1, <3>3, <3>4
  <2>5. CASE j # k /\ j # old
    <3>1. q.byKey[j] = r.byKey[j]
      BY <1>1, <1>2, <1>3, <2>5 DEF With, Without
    <3>2. now(j) = before(j)
      BY <1>1, <1>2, <2>5
    <3>3. QED
      BY <2>1, <3>1, <3>2
  <2>6. QED
    BY <2>3, <2>4, <2>5
<1>5. q.byKey \in [Key -> {Absent} \cup SUBSET Conn]
  <2>1. Members(left, k) \in SUBSET Conn
    BY <1>3 DEF Members
  <2>2. QED
    BY <1>1, <1>3, <2>1 DEF With
<1>6. q.byConn \in [Conn -> Key \cup {NoKey}]
  BY <1>1, <1>2
<1>7. q \in Index
  BY <1>5, <1>6 DEF SetKey, Index
<1>8. QED
  BY <1>1, <1>4, <1>7 DEF Sound, Agree

-----------------------------------------------------------------------------
(* A registration that changes something leaves a sound index in which c,  *)
(* and no other connection, has a new MSA (registry.go:26-44).             *)
LEMMA RegisterMeaning ==
  ASSUME NEW r, Sound(r), NEW c \in Conn, NEW k \in Key
  PROVE  /\ Sound(RegisterOrUpdate(r, c, k).reg)
         /\ RegisterOrUpdate(r, c, k).reg.byConn = [r.byConn EXCEPT ![c] = k]
<1>1. CASE r.byConn[c] = k
  BY <1>1 DEF RegisterOrUpdate, Sound, Index
<1>2. CASE r.byConn[c] # k
  BY <1>2, SetKeySound DEF RegisterOrUpdate
<1>3. QED
  BY <1>1, <1>2

(* What a login of c under k does to the relation, and what it returns, in *)
(* terms of the relation alone.                                            *)
LoginMeans(r, c, k, comm, cas, res) ==
  LET others == IF comm THEN {}
                ELSE {d \in Conn : r.byConn[d] = k} \ {c}
  IN  /\ Sound(res.reg)
      /\ res.reg.byConn = [d \in Conn |-> IF d = c THEN k
                             ELSE IF d \in others THEN NoKey ELSE r.byConn[d]]
      /\ res.evicted = others
      /\ res.isNew = (r.byConn[c] # k)
      /\ res.reset = (/\ comm /\ ~cas
                      /\ r.byConn[c] # k /\ r.byConn[c] # NoKey)

(* Login evicts the other owners unless duplicates are allowed and binds   *)
(* the address, through whatever path of registry.go:135-178.              *)
LEMMA LoginMeaning ==
  ASSUME NEW r, Sound(r), NEW c \in Conn, NEW k \in Key,
         NEW comm \in BOOLEAN, NEW cas \in BOOLEAN
  PROVE  LoginMeans(r, c, k, comm, cas, LoginResult(r, c, k, comm, cas))
<1> DEFINE res    == LoginResult(r, c, k, comm, cas)
           others == IF comm THEN {} ELSE Members(r.byKey, k) \ {c}
           owners == {d \in Conn : r.byConn[d] = k}
           base   == RemoveConns(r, others)
           same   == base.byConn[c] = k
           reset  == /\ comm
                     /\ ~cas
                     /\ base.byConn[c] \notin {NoKey, k}
           from   == IF reset THEN RemoveConn(base, c) ELSE base
<1>1. Members(r.byKey, k) = owners
  BY MembersAreOwners
<1>2. others \in SUBSET Conn /\ c \notin others
  BY <1>1
<1>3. /\ Sound(base)
      /\ base.byConn = [d \in Conn |-> IF d \in others THEN NoKey ELSE r.byConn[d]]
  BY <1>2, RemoveConnsSound
<1>4. base.byConn[c] = r.byConn[c]
  BY <1>2, <1>3
<1>5. /\ Sound(from)
      /\ \A d \in Conn \ {c} : from.byConn[d] = base.byConn[d]
      /\ from.byConn \in [Conn -> Key \cup {NoKey}]
  <2>1. CASE ~reset
    BY <1>3, <2>1 DEF Sound, Index
  <2>2. CASE reset
    <3>1. /\ Sound(RemoveConns(base, {c}))
          /\ RemoveConns(base, {c}).byConn
               = [d \in Conn |-> IF d \in {c} THEN NoKey ELSE base.byConn[d]]
      BY <1>3, RemoveConnsSound
    <3>2. from = RemoveConns(base, {c})
      BY <2>2 DEF RemoveConn
    <3>3. QED
      BY <3>1, <3>2 DEF Sound, Index
  <2>3. QED
    BY <2>1, <2>2
<1>6. /\ Sound(SetKey(from, c, k))
      /\ SetKey(from, c, k).byConn = [from.byConn EXCEPT ![c] = k]
  <2> HIDE DEF from
  <2>1. QED
    BY <1>5, SetKeySound
<1>7. /\ res.reg = IF same THEN base ELSE SetKey(from, c, k)
      /\ res.evicted = others
      /\ res.isNew = ~same
      /\ res.reset = reset
  BY DEF LoginResult
<1>8. Sound(res.reg)
  BY <1>3, <1>6, <1>7
<1>9. res.reg.byConn = [d \in Conn |-> IF d = c THEN k
                          ELSE IF d \in others THEN NoKey ELSE r.byConn[d]]
  <2>1. CASE same
    BY <1>3, <1>7, <2>1
  <2>2. CASE ~same
    <3>1. res.reg.byConn = [from.byConn EXCEPT ![c] = k]
      BY <1>6, <1>7, <2>2
    <3> HIDE DEF res, from, base, others
    <3>2. QED
      BY <1>3, <1>5, <3>1
  <2>3. QED
    BY <2>1, <2>2
<1>10. others = IF comm THEN {} ELSE owners \ {c}
  BY <1>1
<1>11. QED
  BY <1>4, <1>7, <1>8, <1>9, <1>10 DEF LoginMeans
==============================================================================
