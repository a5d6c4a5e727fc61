--------------------------- MODULE ConsoleProofs ----------------------------
(***************************************************************************)
(* Proofs about the console and the log writer, which share no state: the  *)
(* accounts keep an administrator and their file implements the abstract   *)
(* directory; a session that is used is served; a saved blacklist is in    *)
(* force; the settings in memory and in the file agree; no entry of a      *)
(* packet log is lost; a list shows every connection that stays, in pages  *)
(* that have each row once, and the bars are the last ones.  For any       *)
(* number of accounts, tokens, requests, days, crashes, connections, pages *)
(* and minutes.                                                            *)
(***************************************************************************)
EXTENDS WebUsers, WebSessions, Blacklist, ConfigFile, LogRotation, ConsoleTables,
        FiniteSetTheorems, FunctionTheorems, SequenceTheorems, WellFoundedInduction, TLAPS

(* The accounts (web/users.go) *)

Working(p) == step[p] \in {"read", "write", "written", "rename"}

(* What p is about to write is the file with one change that leaves an     *)
(* administrator, or the first file of all.                                *)
Changed(p) ==
  /\ copy[p] \in Accounts /\ AdminsOf(copy[p]) # {}
  /\ \/ users = NoFile /\ copy[p] = UserDir!Only(FirstUser)
     \/ users # NoFile /\ \E x \in User, r \in Role \cup {"none"} : copy[p] = [users EXCEPT ![x] = r]

(* A busy process has the lock, what it read is still in the file, what it *)
(* writes is a permitted change of it, and its temporary file is its own.  *)
LockHeld  == \A p \in Proc : Working(p) => usersMu = p
WishesSet == /\ step[Boot] \notin {"asked", "read"}
             /\ \A r \in Request : step[r] \in {"asked", "read"} => wish[r] \in Wish
ReadStays == \A r \in Request : step[r] = "read" => users # NoFile /\ copy[r] = users
WriteGood == \A p \in Proc : step[p] \in {"write", "written", "rename"} => Changed(p)
TmpOwn    == \A p \in Proc : step[p] = "rename" => tmp = copy[p]

UsersInv == /\ UsersTypeOK /\ LastAdminStays
            /\ LockHeld /\ WishesSet /\ ReadStays /\ WriteGood /\ TmpOwn

USE UsersAssumption

-----------------------------------------------------------------------------
(* One change *)

(* What Allowed lets pass leaves an administrator (errLastAdmin).          *)
LEMMA ChangeLeavesAdmin ==
  ASSUME NEW u \in Accounts, AdminsOf(u) # {}, NEW w \in Wish, Allowed(u, w)
  PROVE  /\ w.who \in User /\ w.role \in Role \cup {"none"}
         /\ [u EXCEPT ![w.who] = w.role] \in Accounts
         /\ AdminsOf([u EXCEPT ![w.who] = w.role]) # {}
<1> DEFINE v == [u EXCEPT ![w.who] = w.role]
<1>1. w.who \in User /\ w.role \in Role \cup {"none"} /\ (w.op = "add" => w.role \in Role)
  BY DEF Wish, Role
<1>2. v \in Accounts /\ v[w.who] = w.role /\ \A x \in User : x # w.who => v[x] = u[x]
  BY <1>1 DEF Accounts
<1>3. \E x \in User : v[x] = "admin"
  <2>1. PICK x \in User : u[x] = "admin"
    BY DEF AdminsOf
  <2>2. CASE w.role = "admin"
    BY <1>1, <1>2, <2>2
  <2>3. CASE u[w.who] # "admin"
    BY <1>2, <2>1, <2>3
  <2>4. CASE u[w.who] = "admin" /\ w.role # "admin"
    <3>1. Cardinality(AdminsOf(u)) > 1
      BY <2>4 DEF Allowed
    <3>2. \E y \in AdminsOf(u) : y # w.who
      <4> SUFFICES ASSUME \A y \in AdminsOf(u) : y = w.who PROVE FALSE
        OBVIOUS
      <4>1. AdminsOf(u) = {w.who}
        BY <2>4, <1>1 DEF AdminsOf
      <4>2. Cardinality({w.who}) = 1
        BY FS_Singleton
      <4> QED  BY <3>1, <4>1, <4>2
    <3> QED  BY <3>2, <1>2 DEF AdminsOf
  <2> QED  BY <2>2, <2>3, <2>4
<1>4. AdminsOf(v) # {}
  BY <1>3 DEF AdminsOf
<1> QED  BY <1>1, <1>2, <1>4

-----------------------------------------------------------------------------
(* The invariant *)

LEMMA UsersInitInv == UsersInit => UsersInv
<1> SUFFICES ASSUME UsersInit PROVE UsersInv
  OBVIOUS
<1>1. UsersTypeOK
  <2>1. users \in Accounts \cup {NoFile}
    BY DEF UsersInit
  <2>2. kills \in 0..MaxKills
    BY DEF UsersInit
  <2> QED  BY <2>1, <2>2 DEF UsersInit, UsersTypeOK
<1>2. LastAdminStays
  BY DEF UsersInit, LastAdminStays
<1>3. \A p \in Proc : step[p] = "idle"
  BY DEF UsersInit
<1>4. Request \subseteq Proc /\ Boot \in Proc
  BY DEF Proc
<1> QED  BY <1>1, <1>2, <1>3, <1>4 DEF UsersInv, LockHeld, WishesSet, ReadStays, WriteGood, TmpOwn, Working

(* When p, which nobody else has locked out, is through, nobody is busy.   *)
LEMMA EndsKeeps ==
  ASSUME UsersInv, NEW p \in Proc, Ends(p), usersMu \in {p, NoProc},
         users' \in Accounts \cup {NoFile}, LastAdminStays',
         tmp' \in Accounts \cup {NoFile, Torn}, kills' = kills
  PROVE  UsersInv'
<1>1. /\ step' = [step EXCEPT ![p] = "idle"] /\ copy' = [copy EXCEPT ![p] = NoFile]
      /\ wish' = [r \in Request |-> IF r = p THEN NoWish ELSE wish[r]]
      /\ up' = (up \/ p = Boot) /\ usersMu' = NoProc
  BY DEF Ends, UnlockUsers
<1>2. UsersTypeOK
  BY DEF UsersInv
<1>3. step' \in [Proc -> {"idle", "asked", "read", "write", "written", "rename"}]
  BY <1>1, <1>2 DEF UsersTypeOK
<1>4. copy' \in [Proc -> Accounts \cup {NoFile}]
  BY <1>1, <1>2 DEF UsersTypeOK
<1>5. wish' \in [Request -> Wish \cup {NoWish}]
  BY <1>1, <1>2 DEF UsersTypeOK
<1>6. up' \in BOOLEAN
  BY <1>1, <1>2 DEF UsersTypeOK
<1>7. UsersTypeOK'
  BY <1>1, <1>2, <1>3, <1>4, <1>5, <1>6 DEF UsersTypeOK
<1>8. \A q \in Proc : step'[q] \in {"idle", "asked"} /\ (step'[q] = "asked" => q # p /\ step[q] = "asked")
  <2> TAKE q \in Proc
  <2>1. q # p => ~Working(q)
    BY DEF UsersInv, LockHeld, Proc
  <2>2. q # p => step'[q] = step[q] /\ step[q] \in {"idle", "asked"}
    BY <1>1, <1>2, <2>1 DEF UsersTypeOK, Working
  <2>3. q = p => step'[q] = "idle"
    BY <1>1, <1>2 DEF UsersTypeOK
  <2> QED  BY <2>2, <2>3
<1>9. Request \subseteq Proc /\ Boot \in Proc
  BY DEF Proc
<1>10. WishesSet'
  BY <1>1, <1>8, <1>9 DEF UsersInv, WishesSet
<1> QED  BY <1>7, <1>8, <1>9, <1>10 DEF UsersInv, LockHeld, ReadStays, WriteGood, TmpOwn, Working

LEMMA ChangedStays ==
  ASSUME NEW q \in Proc, Changed(q), users' = users, copy'[q] = copy[q]
  PROVE  Changed(q)'
BY DEF Changed, AdminsOf, UserDir!Only

(* A step of p that leaves the file and the others alone.                  *)
LEMMA MovesKeep ==
  ASSUME UsersInv, NEW p \in Proc,
         NEW s \in {"asked", "read", "write", "written", "rename"}, Go(p, s),
         users' = users, up' \in BOOLEAN, kills' = kills,
         tmp' \in Accounts \cup {NoFile, Torn},
         copy' \in [Proc -> Accounts \cup {NoFile}],
         \A q \in Proc : q # p => copy'[q] = copy[q],
         wish' \in [Request -> Wish \cup {NoWish}],
         \A q \in Request : q # p => wish'[q] = wish[q],
         s = "asked" => tmp' = tmp /\ usersMu' = usersMu,
         s # "asked" => usersMu \in {p, NoProc} /\ usersMu' = p,
         s \in {"asked", "read"} => p \in Request /\ wish'[p] \in Wish,
         s = "read" => users # NoFile /\ copy'[p] = users,
         s \in {"write", "written", "rename"} => Changed(p)',
         s = "rename" => tmp' = copy'[p]
  PROVE  UsersInv'
<1>1. UsersTypeOK /\ step' = [step EXCEPT ![p] = s] /\ Request \subseteq Proc /\ Boot \in Proc
  BY DEF UsersInv, Go, Proc
<1>2. step' \in [Proc -> {"idle", "asked", "read", "write", "written", "rename"}]
  BY <1>1 DEF UsersTypeOK
<1>3. step'[p] = s /\ \A q \in Proc : q # p => step'[q] = step[q]
  BY <1>1 DEF UsersTypeOK
<1>4. UsersTypeOK'
  <2>1. usersMu' \in Proc \cup {NoProc}
    BY <1>1 DEF UsersTypeOK
  <2> QED  BY <1>1, <1>2, <2>1 DEF UsersTypeOK
<1>5. LastAdminStays'
  BY DEF UsersInv, LastAdminStays
<1>6. \A q \in Proc : q # p /\ s # "asked" => ~Working(q) /\ ~Working(q)'
  <2> TAKE q \in Proc
  <2>1. q # p /\ s # "asked" => ~Working(q)
    BY DEF UsersInv, LockHeld, Proc
  <2> QED  BY <1>3, <2>1 DEF Working
<1>7. LockHeld'
  BY <1>3, <1>6 DEF UsersInv, LockHeld, Working
<1>8. WishesSet'
  <2>1. step'[Boot] \notin {"asked", "read"}
    BY <1>1, <1>3 DEF UsersInv, WishesSet
  <2>2. ASSUME NEW r \in Request, step'[r] \in {"asked", "read"} PROVE wish'[r] \in Wish
    BY <1>1, <1>3, <2>2 DEF UsersInv, WishesSet
  <2> QED  BY <2>1, <2>2 DEF WishesSet
<1>9. ReadStays'
  <2> SUFFICES ASSUME NEW r \in Request, step'[r] = "read"
               PROVE  users # NoFile /\ copy'[r] = users
    BY DEF ReadStays
  <2>1. CASE r = p
    BY <2>1, <1>3
  <2>2. CASE r # p
    BY <2>2, <1>1, <1>3 DEF UsersInv, ReadStays
  <2> QED  BY <2>1, <2>2
<1>10. WriteGood'
  <2> SUFFICES ASSUME NEW q \in Proc, step'[q] \in {"write", "written", "rename"}
               PROVE  Changed(q)'
    BY DEF WriteGood
  <2>1. CASE q = p
    BY <2>1, <1>3
  <2>2. CASE q # p
    <3>1. Changed(q) /\ copy'[q] = copy[q]
      BY <2>2, <1>3 DEF UsersInv, WriteGood
    <3> QED  BY <3>1, ChangedStays
  <2> QED  BY <2>1, <2>2
<1>11. TmpOwn'
  <2> SUFFICES ASSUME NEW q \in Proc, step'[q] = "rename" PROVE tmp' = copy'[q]
    BY DEF TmpOwn
  <2>1. CASE q = p
    BY <2>1, <1>3
  <2>2. CASE q # p
    <3>1. s = "asked"
      BY <2>2, <1>6 DEF Working
    <3> QED  BY <2>2, <3>1, <1>3 DEF UsersInv, TmpOwn
  <2> QED  BY <2>1, <2>2
<1> QED  BY <1>4, <1>5, <1>7, <1>8, <1>9, <1>10, <1>11 DEF UsersInv

LEMMA BootKeeps ==
  ASSUME UsersInv, BootBegins
  PROVE  UsersInv' /\ users' = users
<1>1. UsersTypeOK /\ Boot \in Proc /\ UNCHANGED <<users, tmp, kills>>
  BY DEF UsersInv, BootBegins, Proc
<1>2. LastAdminStays'
  BY <1>1 DEF UsersInv, LastAdminStays
<1>3. CASE users = NoFile /\ Bootstrap
  <2> DEFINE first == [x \in User |-> IF x = FirstUser THEN "admin" ELSE "none"]
  <2>1. /\ usersMu = NoProc /\ usersMu' = Boot /\ Go(Boot, "write") /\ UNCHANGED <<up, wish>>
        /\ copy' = [copy EXCEPT ![Boot] = first]
    BY <1>3 DEF BootBegins, LockUsers
  <2>2. first \in Accounts /\ AdminsOf(first) # {} /\ first = UserDir!Only(FirstUser)
    BY DEF Accounts, Role, AdminsOf, UserDir!Only
  <2> HIDE DEF first
  <2>3. /\ copy' \in [Proc -> Accounts \cup {NoFile}] /\ copy'[Boot] = first
        /\ \A q \in Proc : q # Boot => copy'[q] = copy[q]
    BY <1>1, <2>1, <2>2 DEF UsersTypeOK
  <2>4. Changed(Boot)'
    BY <1>1, <1>3, <2>2, <2>3 DEF Changed, AdminsOf, UserDir!Only
  <2>5. up' \in BOOLEAN /\ wish' \in [Request -> Wish \cup {NoWish}] /\ tmp' \in Accounts \cup {NoFile, Torn}
    BY <1>1, <2>1 DEF UsersTypeOK
  <2> QED  BY <1>1, <2>1, <2>3, <2>4, <2>5, MovesKeep
<1>4. CASE ~(users = NoFile /\ Bootstrap)
  <2>1. usersMu = NoProc /\ Ends(Boot)
    BY <1>4 DEF BootBegins
  <2>2. users' \in Accounts \cup {NoFile} /\ tmp' \in Accounts \cup {NoFile, Torn}
    BY <1>1 DEF UsersTypeOK
  <2> QED  BY <1>1, <1>2, <2>1, <2>2, EndsKeeps
<1> QED  BY <1>1, <1>3, <1>4

LEMMA RequestKeeps ==
  ASSUME UsersInv, NEW r \in Request,
         (\E w \in Wish : Ask(r, w)) \/ ReadUsers(r) \/ NoUsers(r) \/ Apply(r) \/ Refuse(r)
  PROVE  UsersInv' /\ users' = users
<1>1. UsersTypeOK /\ r \in Proc /\ UNCHANGED <<users, tmp, kills>>
  BY DEF UsersInv, Proc, Ask, ReadUsers, NoUsers, Apply, Refuse
<1>2. LastAdminStays' /\ users' \in Accounts \cup {NoFile} /\ tmp' \in Accounts \cup {NoFile, Torn}
  BY <1>1 DEF UsersInv, LastAdminStays, UsersTypeOK
<1>3. ASSUME NEW w \in Wish, Ask(r, w) PROVE UsersInv'
  <2>1. /\ wish' = [wish EXCEPT ![r] = w] /\ Go(r, "asked") /\ UNCHANGED <<up, usersMu, copy>>
    BY <1>3 DEF Ask
  <2>2. /\ wish' \in [Request -> Wish \cup {NoWish}] /\ wish'[r] = w
        /\ \A q \in Request : q # r => wish'[q] = wish[q]
        /\ up' \in BOOLEAN /\ copy' \in [Proc -> Accounts \cup {NoFile}]
    BY <1>1, <2>1 DEF UsersTypeOK
  <2> QED  BY <1>1, <1>2, <2>1, <2>2, MovesKeep
<1>4. CASE ReadUsers(r)
  <2>1. /\ step[r] = "asked" /\ users # NoFile /\ usersMu = NoProc /\ usersMu' = r
        /\ copy' = [copy EXCEPT ![r] = users] /\ Go(r, "read") /\ UNCHANGED <<up, wish>>
    BY <1>4 DEF ReadUsers, LockUsers
  <2>2. /\ copy' \in [Proc -> Accounts \cup {NoFile}] /\ copy'[r] = users
        /\ \A q \in Proc : q # r => copy'[q] = copy[q]
    BY <1>1, <2>1 DEF UsersTypeOK
  <2>3. up' \in BOOLEAN /\ wish' \in [Request -> Wish \cup {NoWish}] /\ wish'[r] \in Wish
    BY <1>1, <2>1 DEF UsersTypeOK, UsersInv, WishesSet
  <2> QED  BY <1>1, <1>2, <2>1, <2>2, <2>3, MovesKeep
<1>5. CASE NoUsers(r)
  <2>1. usersMu = NoProc /\ Ends(r)
    BY <1>5 DEF NoUsers
  <2> QED  BY <1>1, <1>2, <2>1, EndsKeeps
<1>6. CASE Apply(r)
  <2> DEFINE w == wish[r]
             v == [users EXCEPT ![w.who] = w.role]
  <2>1. /\ step[r] = "read" /\ Allowed(copy[r], w) /\ Go(r, "write")
        /\ copy' = [copy EXCEPT ![r] = [@ EXCEPT ![w.who] = w.role]]
        /\ UNCHANGED <<up, usersMu, wish>>
    BY <1>6 DEF Apply
  <2>2. users # NoFile /\ copy[r] = users /\ w \in Wish /\ usersMu = r
    BY <1>1, <2>1 DEF UsersInv, ReadStays, WishesSet, LockHeld, Working
  <2>3. users \in Accounts /\ AdminsOf(users) # {}
    BY <2>2 DEF UsersInv, LastAdminStays
  <2>4. w.who \in User /\ w.role \in Role \cup {"none"} /\ v \in Accounts /\ AdminsOf(v) # {}
    <3> HIDE DEF w
    <3> QED  BY <2>1, <2>2, <2>3, ChangeLeavesAdmin
  <2>5. copy' = [copy EXCEPT ![r] = v]
    BY <2>1, <2>2
  <2> HIDE DEF v
  <2>6. /\ copy' \in [Proc -> Accounts \cup {NoFile}] /\ copy'[r] = v
        /\ \A q \in Proc : q # r => copy'[q] = copy[q]
    BY <1>1, <2>4, <2>5 DEF UsersTypeOK
  <2>7. \E x \in User, l \in Role \cup {"none"} : v = [users EXCEPT ![x] = l]
    BY <2>4 DEF v
  <2>8. Changed(r)'
    BY <1>1, <2>2, <2>4, <2>6, <2>7 DEF Changed, AdminsOf
  <2>9. up' \in BOOLEAN /\ wish' \in [Request -> Wish \cup {NoWish}]
    BY <1>1, <2>1 DEF UsersTypeOK
  <2> QED  BY <1>1, <1>2, <2>1, <2>2, <2>6, <2>8, <2>9, MovesKeep
<1>7. CASE Refuse(r)
  <2>1. usersMu = r /\ Ends(r)
    BY <1>1, <1>7 DEF Refuse, UsersInv, LockHeld, Working
  <2> QED  BY <1>1, <1>2, <2>1, EndsKeeps
<1> QED  BY <1>1, <1>3, <1>4, <1>5, <1>6, <1>7

(* Writing: all but the last step leave the file as it is; the last one    *)
(* puts the change in its place.                                           *)
LEMMA WriteKeeps ==
  ASSUME UsersInv, NEW p \in Proc,
         TruncateTmp(p) \/ FillTmp(p) \/ FillFails(p) \/ RenameTmp(p) \/ RenameFails(p)
  PROVE  UsersInv' /\ (users' = users \/ (Changed(p) /\ users' = copy[p]))
<1>1. /\ UsersTypeOK /\ kills' = kills /\ usersMu = p /\ Changed(p)
      /\ copy[p] \in Accounts /\ AdminsOf(copy[p]) # {}
  <2>1. step[p] \in {"write", "written", "rename"} /\ kills' = kills
    BY DEF TruncateTmp, FillTmp, FillFails, RenameTmp, RenameFails
  <2>2. Changed(p)
    BY <2>1 DEF UsersInv, WriteGood
  <2> QED  BY <2>1, <2>2 DEF UsersInv, LockHeld, Working, Changed
<1>2. users' = users => LastAdminStays' /\ users' \in Accounts \cup {NoFile}
  BY <1>1 DEF UsersInv, LastAdminStays, UsersTypeOK
<1>3. CASE TruncateTmp(p) \/ FillTmp(p)
  <2>1. PICK s \in {"written", "rename"} :
          /\ Go(p, s) /\ UNCHANGED <<users, up, usersMu, wish, copy>>
          /\ tmp' = IF s = "written" THEN Torn ELSE copy[p]
    BY <1>3 DEF TruncateTmp, FillTmp
  <2>2. Changed(p)'
    BY <1>1, <2>1, ChangedStays
  <2>3. /\ up' \in BOOLEAN /\ copy' \in [Proc -> Accounts \cup {NoFile}]
        /\ wish' \in [Request -> Wish \cup {NoWish}] /\ tmp' \in Accounts \cup {NoFile, Torn}
    BY <1>1, <2>1 DEF UsersTypeOK
  <2> QED  BY <1>1, <2>1, <2>2, <2>3, MovesKeep
<1>4. CASE FillFails(p) \/ RenameFails(p)
  <2>1. Ends(p) /\ users' = users /\ tmp' \in Accounts \cup {NoFile, Torn}
    BY <1>1, <1>4 DEF FillFails, RenameFails, UsersTypeOK
  <2> QED  BY <1>1, <1>2, <2>1, EndsKeeps
<1>5. CASE RenameTmp(p)
  <2>1. Ends(p) /\ users' = copy[p] /\ tmp' \in Accounts \cup {NoFile, Torn}
    BY <1>5 DEF RenameTmp, UsersInv, TmpOwn
  <2>2. LastAdminStays'
    BY <1>1, <2>1 DEF LastAdminStays, AdminsOf
  <2> QED  BY <1>1, <2>1, <2>2, EndsKeeps
<1> QED  BY <1>3, <1>4, <1>5

LEMMA KillKeeps ==
  ASSUME UsersInv, Kill
  PROVE  UsersInv' /\ users' = users
<1>1. /\ UsersTypeOK /\ UNCHANGED <<users, tmp>> /\ kills' \in 0..MaxKills
      /\ up' = FALSE /\ usersMu' = NoProc
      /\ step' = [p \in Proc |-> "idle"] /\ copy' = [p \in Proc |-> NoFile]
      /\ wish' = [r \in Request |-> NoWish]
  BY DEF UsersInv, UsersTypeOK, Kill
<1>2. UsersTypeOK' /\ LastAdminStays'
  BY <1>1 DEF UsersTypeOK, LastAdminStays, UsersInv
<1>3. Request \subseteq Proc /\ Boot \in Proc /\ \A p \in Proc : step'[p] = "idle"
  BY <1>1 DEF Proc
<1> QED  BY <1>1, <1>2, <1>3 DEF UsersInv, LockHeld, WishesSet, ReadStays, WriteGood, TmpOwn, Working

-----------------------------------------------------------------------------
(* The specification *)

(* Every step keeps the invariant, and leaves the file alone or puts one   *)
(* permitted change into it.                                               *)
LEMMA UsersStep ==
  ASSUME UsersInv, [UsersNext]_usersVars
  PROVE  UsersInv' /\ (users' = users \/ \E p \in Proc : Changed(p) /\ users' = copy[p])
<1>1. CASE BootBegins
  BY <1>1, BootKeeps
<1>2. CASE Kill
  BY <1>2, KillKeeps
<1>3. ASSUME NEW r \in Request,
             (\E w \in Wish : Ask(r, w)) \/ ReadUsers(r) \/ NoUsers(r) \/ Apply(r) \/ Refuse(r)
      PROVE  UsersInv' /\ users' = users
  BY <1>3, RequestKeeps
<1>4. ASSUME NEW p \in Proc,
             TruncateTmp(p) \/ FillTmp(p) \/ FillFails(p) \/ RenameTmp(p) \/ RenameFails(p)
      PROVE  UsersInv' /\ (users' = users \/ (Changed(p) /\ users' = copy[p]))
  BY <1>4, WriteKeeps
<1>5. CASE UNCHANGED usersVars
  BY <1>5 DEF usersVars, UsersInv, UsersTypeOK, LastAdminStays, LockHeld, WishesSet, ReadStays,
              WriteGood, TmpOwn, Working, Changed, AdminsOf, UserDir!Only
<1> QED  BY <1>1, <1>2, <1>3, <1>4, <1>5 DEF UsersNext

LEMMA UsersAlways == UsersSpec => []UsersInv
<1>1. UsersInv /\ [UsersNext]_usersVars => UsersInv'
  BY UsersStep
<1> QED  BY <1>1, UsersInitInv, PTL DEF UsersSpec

(* Once there are accounts one is an administrator's, whatever requests    *)
(* overlap and wherever the process is killed (errLastAdmin,               *)
(* users_admin.go).                                                        *)
THEOREM AdminStays == UsersSpec => []LastAdminStays
<1>1. UsersInv => LastAdminStays
  BY DEF UsersInv
<1> QED  BY <1>1, UsersAlways, PTL

(* The users file implements the abstract directory: every change takes    *)
(* effect at once, on the file as the change before left it.               *)
THEOREM FileIsDirectory == UsersSpec => UserDirectorySpec
<1>1. UsersInit => UserDir!Init
  BY DEF UsersInit, UserDir!Init, UserDir!HasAdmin, UserDir!Admins, AdminsOf,
         UserDir!Accounts, Accounts, UserDir!Role, Role
<1>2. UsersInv /\ [UsersNext]_usersVars => [UserDir!Next]_users
  <2> SUFFICES ASSUME UsersInv, [UsersNext]_usersVars PROVE UserDir!Next \/ users' = users
    OBVIOUS
  <2>1. CASE users' = users
    BY <2>1
  <2>2. ASSUME NEW p \in Proc, Changed(p), users' = copy[p] PROVE UserDir!Next
    <3>1. UserDir!HasAdmin(users')
      BY <2>2 DEF Changed, AdminsOf, UserDir!HasAdmin, UserDir!Admins
    <3>2. CASE users = NoFile /\ copy[p] = UserDir!Only(FirstUser)
      <4>1. UserDir!Create(FirstUser)
        BY <2>2, <3>2 DEF UserDir!Create
      <4> QED  BY <4>1 DEF UserDir!Next
    <3>3. ASSUME users # NoFile, NEW x \in User, NEW r \in Role \cup {"none"},
                 copy[p] = [users EXCEPT ![x] = r]
          PROVE  UserDir!Next
      <4>1. UserDir!Change(x, r)
        BY <2>2, <3>1, <3>3 DEF UserDir!Change
      <4> QED  BY <4>1 DEF UserDir!Next, UserDir!Role, Role
    <3> QED  BY <2>2, <3>2, <3>3 DEF Changed
  <2> QED  BY <2>1, <2>2, UsersStep
<1> QED  BY <1>1, <1>2, UsersAlways, PTL DEF UsersSpec, UserDirectorySpec, UserDir!Spec

HIDE UsersAssumption

-----------------------------------------------------------------------------
(* The sessions (web/auth.go) *)

SessTypeOK ==
  /\ time \in Nat /\ idleMin \in Nat
  /\ sess \in [Token -> Nat \cup {NoSession}] /\ due \in [Token -> Nat]
  /\ cookie \in [Token -> Nat \cup {NoSession}] /\ until \in [Token -> Nat]
  /\ drawn \subseteq Token /\ ended \subseteq drawn

(* A session there is ends when it is due, and one there is no more was    *)
(* logged out or its time is up; a cookie there is lasts as long as the    *)
(* login gave it and belongs to a token that was not logged out, and one   *)
(* there is no more was cleared by a logout or by a request that came too  *)
(* late for it or for its session.                                         *)
SessionDue ==
  \A k \in Token :
    /\ sess[k] # NoSession => k \in drawn /\ sess[k] = due[k]
    /\ k \in drawn /\ sess[k] = NoSession => k \in ended \/ time > due[k]
    /\ cookie[k] # NoSession => k \in drawn \ ended /\ cookie[k] = until[k]
    /\ k \in drawn /\ cookie[k] = NoSession =>
         k \in ended \/ time > due[k] \/ time > until[k]

SessInv == SessTypeOK /\ SessionDue

LEMMA SessStep == SessInv /\ [SessNext]_sessVars => SessInv'
<1> SUFFICES ASSUME SessInv, [SessNext]_sessVars PROVE SessInv'
  OBVIOUS
<1> USE SessAssumption DEF SessInv, SessTypeOK, SessionDue
<1>1. CASE Tick
  BY <1>1 DEF Tick
<1>2. CASE Reconfigure
  BY <1>2 DEF Reconfigure
<1>3. CASE PruneSessions
  <2>1. sess' = [k \in Token |-> IF sess[k] # NoSession => time > sess[k] THEN NoSession
                                 ELSE sess[k]]
    BY <1>3 DEF PruneSessions, Expired
  <2>2. UNCHANGED <<time, idleMin, cookie, drawn, ended, until, due>>
    BY <1>3 DEF PruneSessions
  <2> QED  BY <2>1, <2>2
<1>4. ASSUME NEW k \in Token, LoginUser(k) PROVE SessInv'
  BY <1>4 DEF LoginUser, Renewed
<1>5. ASSUME NEW k \in Token, TouchServes(k) PROVE SessInv'
  BY <1>5 DEF TouchServes, Sends, Expired, Renewed
<1>6. ASSUME NEW k \in Token, TouchRefuses(k) PROVE SessInv'
  BY <1>6 DEF TouchRefuses, Sends, Expired, ClearCookie
<1>7. ASSUME NEW k \in Token, RefusesBare(k) PROVE SessInv'
  BY <1>7 DEF RefusesBare, Sends, ClearCookie
<1>8. ASSUME NEW k \in Token, SessionDelete(k) PROVE SessInv'
  BY <1>8 DEF SessionDelete, Sends, ClearCookie
<1>9. CASE UNCHANGED sessVars
  BY <1>9 DEF sessVars
<1> QED  BY <1>1, <1>2, <1>3, <1>4, <1>5, <1>6, <1>7, <1>8, <1>9 DEF SessNext

(* Who logged in, and not out, and has sent a request within the idle time *)
(* of the last one, is served until the cookie of the login is over, and   *)
(* nobody else is, whatever the ticker, other users and changes of the     *)
(* idle time do (auth.go:179-220, http.go:43-81).                          *)
THEOREM ActiveIsServed == SessSpec => []ActiveServed
<1>1. SessInit => SessInv
  BY SessAssumption DEF SessInit, SessInv, SessTypeOK, SessionDue
<1>2. SessInv => ActiveServed
  <2> SUFFICES ASSUME SessInv, NEW k \in drawn
               PROVE  Sends(k) /\ ~Expired(k) <=>
                        k \notin ended /\ time <= due[k] /\ time <= until[k]
    BY DEF ActiveServed
  <2>1. /\ time \in Nat /\ due[k] \in Nat /\ until[k] \in Nat /\ k \in Token
        /\ sess[k] # NoSession => sess[k] = due[k]
        /\ sess[k] = NoSession => k \in ended \/ time > due[k]
        /\ cookie[k] # NoSession => k \notin ended /\ cookie[k] = until[k]
        /\ cookie[k] = NoSession => k \in ended \/ time > due[k] \/ time > until[k]
    BY DEF SessInv, SessTypeOK, SessionDue
  <2> QED  BY <2>1 DEF Expired, Sends
<1> QED  BY <1>1, <1>2, SessStep, PTL DEF SessSpec

-----------------------------------------------------------------------------
(* The blacklist (web/blacklist.go) *)

BlackPoint == {"idle", "open", "fill", "rename", "remove", "read", "swap"}

BlackTypeOK ==
  /\ inode \in Seq(Content)
  /\ fileAt \in 0..Len(inode) /\ tmpAt \in 0..Len(inode) /\ (tmpAt # 0 => tmpAt # fileAt)
  /\ blacklist \in List \cup {Nil}
  /\ now \in [Worker -> BlackPoint]
  /\ list \in [Worker -> List \cup {Nil}]
  /\ fd \in [Worker -> 0..Len(inode)]
  /\ \A p \in Worker : now[p] \in {"open", "fill", "rename", "swap"} => list[p] \in List
  /\ \A p \in Worker : now[p] \in {"fill", "rename"} => fd[p] # 0
  /\ overlapped \in BOOLEAN /\ unread \in BOOLEAN

(* Whoever saves is alone.                                                 *)
SaverAlone ==
  \A p \in Saver, q \in Worker : now[p] # "idle" /\ now[q] # "idle" => p = q

(* What is saved goes to the temporary file and not to the file, and is    *)
(* whole when it is renamed; what is read is on disk until it is swapped   *)
(* in; and what is in force is on disk unless a saver has still to load    *)
(* it.                                                                     *)
FileFollows ==
  /\ IsList(OnDisk)
  /\ \A p \in Saver :
       /\ now[p] \in {"fill", "rename"} => fd[p] = tmpAt
       /\ now[p] = "fill"   => inode[fd[p]] = Empty
       /\ now[p] = "rename" => inode[fd[p]] = list[p]
  /\ \A p \in Worker : now[p] = "swap" => list[p] = OnDisk
  /\ ~unread /\ blacklist # Nil /\ (\A p \in Saver : now[p] \notin {"read", "swap"})
       => blacklist = OnDisk

BlackInv == BlackTypeOK /\ (~overlapped => SaverAlone /\ FileFollows)

USE BlackAssumption

LEMMA OnDiskType == BlackTypeOK => OnDisk \in Content
  BY DEF BlackTypeOK, OnDisk, Content, List

LEMMA BlackInitInv == BlackInit => BlackInv
<1> SUFFICES ASSUME BlackInit PROVE BlackInv
  OBVIOUS
<1>1. inode \in Seq(Content) /\ Len(inode) \in {0, 1} /\ (Len(inode) = 1 => inode[1] \in List)
  <2>1. CASE inode = <<>>
    BY <2>1
  <2>2. ASSUME NEW l \in List, inode = <<l>>
        PROVE  inode \in Seq(Content) /\ Len(inode) = 1 /\ inode[1] = l
    <3>1. l \in Content
      BY DEF Content
    <3> QED  BY <2>2, <3>1
  <2> QED  BY <2>1, <2>2 DEF BlackInit
<1>2. \A p \in Worker : now[p] \in {"idle", "read"}
  BY DEF BlackInit
<1>3. BlackTypeOK
  <2>1. fileAt \in 0..Len(inode) /\ tmpAt = 0 /\ 0 \in 0..Len(inode)
    BY <1>1 DEF BlackInit
  <2>2. now \in [Worker -> BlackPoint] /\ list \in [Worker -> List \cup {Nil}]
    BY DEF BlackInit, BlackPoint
  <2>3. fd \in [Worker -> 0..Len(inode)]
    BY <2>1 DEF BlackInit
  <2>4. blacklist \in List \cup {Nil} /\ overlapped \in BOOLEAN /\ unread \in BOOLEAN
    BY DEF BlackInit
  <2> QED  BY <1>1, <1>2, <2>1, <2>2, <2>3, <2>4 DEF BlackTypeOK
<1>4. IsList(OnDisk)
  <2>1. \A l \in List : IsList(l)
    BY DEF IsList
  <2>2. {} \in List
    BY DEF List
  <2> QED  BY <1>1, <2>1, <2>2 DEF BlackInit, OnDisk
<1>5. \A p \in Saver : now[p] = "idle"
  BY DEF BlackInit, Worker, Loader
<1>6. SaverAlone
  BY <1>5 DEF SaverAlone
<1>7. FileFollows
  BY <1>2, <1>4, <1>5 DEF BlackInit, FileFollows
<1> QED  BY <1>3, <1>6, <1>7 DEF BlackInv

LEMMA InodeSet ==
  ASSUME NEW s \in Seq(Content), NEW i \in 1..Len(s), NEW c \in Content,
         NEW t, t = [s EXCEPT ![i] = c]
  PROVE  /\ t \in Seq(Content) /\ Len(t) = Len(s) /\ t[i] = c
         /\ \A j \in 1..Len(s) : j # i => t[j] = s[j]
  OBVIOUS

LEMMA InodeNew ==
  ASSUME NEW s \in Seq(Content), NEW c \in Content, NEW t, t = Append(s, c)
  PROVE  /\ t \in Seq(Content) /\ Len(t) = Len(s) + 1 /\ t[Len(t)] = c
         /\ \A j \in 1..Len(s) : t[j] = s[j]
  OBVIOUS

(* The actions of a worker, and what each leaves alone.                    *)
SaverStep(p)  == OpenTmp(p) \/ Fill(p) \/ FillStops(p) \/ Rename(p) \/ RenameRefused(p)
                   \/ RemoveTmp(p)
LoaderStep(p) == Ensure(p) \/ Read(p) \/ ReadRefused(p) \/ Swap(p)

LEMMA BlackTypesStep == BlackTypeOK /\ [BlackNext]_blackVars => BlackTypeOK'
<1> SUFFICES ASSUME BlackTypeOK, [BlackNext]_blackVars PROVE BlackTypeOK'
  OBVIOUS
<1> USE DEF BlackTypeOK, BlackPoint
<1>1. ASSUME NEW p \in Saver, NEW l \in List, Save(p, l) PROVE BlackTypeOK'
  BY <1>1 DEF Save, At, fsVars, Worker
<1>2. ASSUME NEW p \in Saver, OpenTmp(p) PROVE BlackTypeOK'
  <2>1. Empty \in Content /\ p \in Worker
    BY DEF Content, Worker
  <2>2. /\ inode' \in Seq(Content) /\ Len(inode) <= Len(inode') /\ Len(inode') \in Nat
        /\ tmpAt' \in 1..Len(inode') /\ tmpAt' # fileAt
    <3>1. CASE tmpAt = 0
      <4>1. Len(inode') = Len(inode) + 1 /\ inode' \in Seq(Content) /\ tmpAt' = Len(inode')
        BY <1>2, <2>1, <3>1, InodeNew, SMTT(20) DEF OpenTmp
      <4> QED  BY <4>1
    <3>2. CASE tmpAt # 0
      <4>1. Len(inode') = Len(inode) /\ inode' \in Seq(Content) /\ tmpAt' = tmpAt
        BY <1>2, <2>1, <3>2, InodeSet DEF OpenTmp
      <4> QED  BY <3>2, <4>1
    <3> QED  BY <3>1, <3>2
  <2>3. /\ now' = [now EXCEPT ![p] = "fill"] /\ fd' = [fd EXCEPT ![p] = tmpAt']
        /\ now[p] = "open"
        /\ UNCHANGED <<fileAt, blacklist, list, overlapped, unread>>
    BY <1>2 DEF OpenTmp, At, countVars
  <2>4. fd' \in [Worker -> 0..Len(inode')] /\ fd'[p] # 0 /\ \A q \in Worker \ {p} : fd'[q] = fd[q]
    BY <2>1, <2>2, <2>3
  <2>5. now' \in [Worker -> BlackPoint] /\ now'[p] = "fill" /\ \A q \in Worker \ {p} : now'[q] = now[q]
    BY <2>1, <2>3
  <2> QED  BY <2>2, <2>3, <2>4, <2>5
<1>3. ASSUME NEW p \in Saver, Fill(p) \/ FillStops(p) PROVE BlackTypeOK'
  <2>1. p \in Worker /\ fd[p] \in 1..Len(inode) /\ list[p] \in Content /\ Broken \in Content
    BY <1>3 DEF Fill, FillStops, Worker, Content
  <2>2. inode' \in Seq(Content) /\ Len(inode') = Len(inode)
    <3>1. \E c \in Content : inode' = [inode EXCEPT ![fd[p]] = c]
      <4>1. CASE Fill(p)
        BY <2>1, <4>1 DEF Fill
      <4>2. CASE FillStops(p)
        BY <2>1, <4>2 DEF FillStops
      <4> QED  BY <1>3, <4>1, <4>2
    <3>2. PICK c \in Content : inode' = [inode EXCEPT ![fd[p]] = c]
      BY <3>1
    <3> QED  BY <2>1, <3>2, InodeSet
  <2>3. UNCHANGED <<fileAt, tmpAt, blacklist, overlapped, unread>>
    BY <1>3 DEF Fill, FillStops, countVars
  <2>4. CASE Fill(p)
    <3>1. now' = [now EXCEPT ![p] = "rename"] /\ UNCHANGED <<list, fd>> /\ now[p] = "fill"
      BY <2>4 DEF Fill, At
    <3> QED  BY <2>1, <2>2, <2>3, <3>1
  <2>5. CASE FillStops(p)
    <3>1. /\ now' = [now EXCEPT ![p] = "idle"] /\ list' = [list EXCEPT ![p] = Nil]
          /\ fd' = [fd EXCEPT ![p] = 0]
      BY <2>5 DEF FillStops, Leave
    <3>2. 0 \in 0..Len(inode)
      OBVIOUS
    <3> QED  BY <2>1, <2>2, <2>3, <3>1, <3>2
  <2> QED  BY <1>3, <2>4, <2>5
<1>4. ASSUME NEW p \in Saver, Rename(p) \/ RenameRefused(p) \/ RemoveTmp(p) PROVE BlackTypeOK'
  <2>1. /\ p \in Worker /\ now[p] \in {"rename", "remove"}
        /\ UNCHANGED <<inode, blacklist, overlapped, unread>>
        /\ fileAt' \in 0..Len(inode) /\ tmpAt' \in 0..Len(inode) /\ (tmpAt' # 0 => tmpAt' # fileAt')
    BY <1>4 DEF Rename, RenameRefused, RemoveTmp, fsVars, countVars, Worker
  <2>2. CASE RemoveTmp(p)
    <3>1. /\ now' = [now EXCEPT ![p] = "idle"] /\ list' = [list EXCEPT ![p] = Nil]
          /\ fd' = [fd EXCEPT ![p] = 0] /\ 0 \in 0..Len(inode)
      BY <2>2 DEF RemoveTmp, Leave
    <3> QED  BY <2>1, <3>1
  <2>3. CASE ~RemoveTmp(p)
    <3>1. UNCHANGED <<list, fd>> /\ \E s \in {"read", "remove"} : now' = [now EXCEPT ![p] = s]
      BY <1>4, <2>3 DEF Rename, RenameRefused, At
    <3> QED  BY <2>1, <3>1
  <2> QED  BY <2>2, <2>3
<1>5. ASSUME NEW p \in Worker, Ensure(p) PROVE BlackTypeOK'
  BY <1>5 DEF Ensure, At, fsVars
<1>6. ASSUME NEW p \in Worker, Read(p) PROVE BlackTypeOK'
  <2>1. OnDisk \in Content
    BY OnDiskType
  <2>2. now' = [now EXCEPT ![p] = "swap"] /\ list' = [list EXCEPT ![p] = OnDisk]
    BY <1>6 DEF Read, At
  <2>3. OnDisk \in List
    BY <1>6, <2>1 DEF Read, IsList, Content
  <2>4. UNCHANGED <<inode, fileAt, tmpAt, blacklist, fd, overlapped, unread>>
    BY <1>6 DEF Read, fsVars, countVars
  <2> QED  BY <2>2, <2>3, <2>4
<1>7. ASSUME NEW p \in Worker, ReadRefused(p) \/ Swap(p) PROVE BlackTypeOK'
  <2>1. now' = [now EXCEPT ![p] = "idle"] /\ list' = [list EXCEPT ![p] = Nil]
        /\ fd' = [fd EXCEPT ![p] = 0] /\ UNCHANGED <<inode, fileAt, tmpAt, overlapped>>
    BY <1>7 DEF ReadRefused, Swap, Leave, fsVars, countVars
  <2>2. blacklist' \in List \cup {Nil} /\ unread' \in BOOLEAN
    BY <1>7 DEF ReadRefused, Swap, countVars
  <2>3. 0 \in 0..Len(inode)
    OBVIOUS
  <2> QED  BY <2>1, <2>2, <2>3
<1>8. CASE Restart
  <2>1. now' \in [Worker -> BlackPoint] /\ list' \in [Worker -> List \cup {Nil}]
        /\ fd' \in [Worker -> 0..Len(inode)]
        /\ \A p \in Worker : now'[p] \in {"idle", "read"}
    BY <1>8 DEF Restart
  <2>2. UNCHANGED <<inode, fileAt, tmpAt, overlapped, unread>> /\ blacklist' = Nil
    BY <1>8 DEF Restart, fsVars
  <2> QED  BY <2>1, <2>2
<1>9. CASE UNCHANGED blackVars
  BY <1>9 DEF blackVars, fsVars, countVars
<1> QED  BY <1>1, <1>2, <1>3, <1>4, <1>5, <1>6, <1>7, <1>8, <1>9 DEF BlackNext

(* Whoever begins meets nobody, or no saver, as long as nothing overlaps.  *)
LEMMA AloneStep ==
  ASSUME BlackTypeOK, SaverAlone, [BlackNext]_blackVars, ~overlapped'
  PROVE  SaverAlone'
<1> USE DEF BlackTypeOK, BlackPoint, SaverAlone, Worker
<1>1. ASSUME NEW p \in Saver, NEW l \in List, Save(p, l) PROVE SaverAlone'
  <2>1. \A q \in Worker : now[q] = "idle"
    BY <1>1 DEF Save, Busy
  <2> QED  BY <1>1, <2>1 DEF Save, At
<1>2. ASSUME NEW p \in Worker, Ensure(p) PROVE SaverAlone'
  <2>1. \A q \in Saver : now[q] = "idle"
    BY <1>2 DEF Ensure, Busy
  <2>2. p \notin Saver
    BY <1>2 DEF Ensure, Loader
  <2> QED  BY <1>2, <2>1, <2>2 DEF Ensure, At
<1>3. ASSUME NEW p \in Worker, NEW s \in BlackPoint, now[p] # "idle",
             now' = [now EXCEPT ![p] = s]
      PROVE  SaverAlone'
  <2>1. \A q \in Worker : now'[q] # "idle" => now[q] # "idle"
    BY <1>3
  <2> QED  BY <2>1
<1>4. ASSUME NEW p \in Saver, SaverStep(p) PROVE SaverAlone'
  <2>1. now[p] # "idle" /\ \E s \in BlackPoint : now' = [now EXCEPT ![p] = s]
    BY <1>4 DEF SaverStep, OpenTmp, Fill, FillStops, Rename, RenameRefused, RemoveTmp, At, Leave
  <2> QED  BY <1>3, <2>1
<1>5. ASSUME NEW p \in Worker, Read(p) \/ ReadRefused(p) \/ Swap(p) PROVE SaverAlone'
  <2>1. now[p] # "idle" /\ \E s \in BlackPoint : now' = [now EXCEPT ![p] = s]
    BY <1>5 DEF Read, ReadRefused, Swap, At, Leave
  <2> QED  BY <1>3, <2>1
<1>6. CASE Restart
  <2>1. \A q \in Saver : now'[q] = "idle"
    BY <1>6 DEF Restart, Loader
  <2> QED  BY <2>1
<1>7. CASE UNCHANGED blackVars
  BY <1>7 DEF blackVars
<1> QED  BY <1>1, <1>2, <1>4, <1>5, <1>6, <1>7 DEF BlackNext, SaverStep

(* The steps of a saver, who is alone.                                     *)
LEMMA SaverFollows ==
  ASSUME BlackTypeOK, SaverAlone, FileFollows, NEW p \in Saver, SaverStep(p)
  PROVE  FileFollows'
<1>1. p \in Worker /\ now[p] # "idle"
  BY DEF SaverStep, OpenTmp, Fill, FillStops, Rename, RenameRefused, RemoveTmp, Worker
<1>2. \A q \in Worker \ {p} : now[q] = "idle"
  BY <1>1 DEF SaverAlone
<1>3. \A q \in Worker \ {p} : now'[q] = "idle"
  BY <1>2 DEF SaverStep, OpenTmp, Fill, FillStops, Rename, RenameRefused, RemoveTmp, At, Leave,
              BlackTypeOK
<1>4. Saver \subseteq Worker
  BY DEF Worker
(* So only p and the files are left to look at.                            *)
<1> DEFINE F == /\ IsList(OnDisk)'
                /\ now'[p] \in {"fill", "rename"} => fd'[p] = tmpAt'
                /\ now'[p] = "fill"   => inode'[fd'[p]] = Empty
                /\ now'[p] = "rename" => inode'[fd'[p]] = list'[p]
                /\ now'[p] # "swap"
                /\ ~unread' /\ blacklist' # Nil /\ now'[p] \notin {"read", "swap"}
                     => blacklist' = OnDisk'
<1>5. SUFFICES F
  BY <1>3, <1>4 DEF FileFollows
<1>6. /\ IsList(OnDisk)
      /\ now[p] \in {"fill", "rename"} => fd[p] = tmpAt
      /\ now[p] = "rename" => inode[fd[p]] = list[p]
      /\ ~unread /\ blacklist # Nil /\ now[p] \notin {"read", "swap"} => blacklist = OnDisk
  BY <1>2, <1>4 DEF FileFollows
<1>7. fileAt \in 0..Len(inode) /\ Len(inode) \in Nat /\ Empty \in Content /\ inode \in Seq(Content)
  BY DEF BlackTypeOK, Content
<1>8. CASE OpenTmp(p)
  <2>1. /\ now[p] = "open" /\ now'[p] = "fill" /\ fd'[p] = tmpAt'
        /\ UNCHANGED <<fileAt, blacklist, unread>>
    BY <1>1, <1>8 DEF OpenTmp, At, BlackTypeOK, countVars
  <2>2. inode'[tmpAt'] = Empty /\ \A j \in 1..Len(inode) : j # tmpAt' => inode'[j] = inode[j]
    <3>1. CASE tmpAt = 0
      BY <1>7, <1>8, <3>1, InodeNew DEF OpenTmp
    <3>2. CASE tmpAt # 0
      <4>1. tmpAt \in 1..Len(inode)
        BY <3>2 DEF BlackTypeOK
      <4> QED  BY <1>7, <1>8, <3>2, <4>1, InodeSet DEF OpenTmp
    <3> QED  BY <3>1, <3>2
  <2>3. tmpAt' # fileAt \/ fileAt = 0
    BY <1>8 DEF OpenTmp, BlackTypeOK
  <2>4. OnDisk' = OnDisk
    BY <1>7, <2>1, <2>2, <2>3 DEF OnDisk
  <2> QED  BY <1>6, <2>1, <2>2, <2>4 DEF IsList
<1>9. CASE Fill(p) \/ FillStops(p)
  <2>1. /\ now[p] = "fill" /\ now'[p] \in {"rename", "idle"}
        /\ UNCHANGED <<fileAt, tmpAt, blacklist, unread>>
        /\ now'[p] = "rename" => fd'[p] = fd[p] /\ list'[p] = list[p]
    BY <1>1, <1>9 DEF Fill, FillStops, At, Leave, BlackTypeOK, countVars
  <2>2. fd[p] \in 1..Len(inode) /\ fd[p] = tmpAt /\ inode[fd[p]] = Empty
        /\ list[p] \in Content /\ Broken \in Content
    BY <1>1, <2>1 DEF FileFollows, BlackTypeOK, Content
  <2>3. \A j \in 1..Len(inode) : j # tmpAt => inode'[j] = inode[j]
    <3>1. CASE Fill(p)
      <4>1. inode' = [inode EXCEPT ![fd[p]] = list[p]]
        BY <2>2, <3>1 DEF Fill
      <4> QED  BY <1>7, <2>2, <4>1, InodeSet
    <3>2. CASE FillStops(p)
      BY <1>7, <2>2, <3>2, InodeSet DEF FillStops
    <3> QED  BY <1>9, <3>1, <3>2
  <2>4. now'[p] = "rename" => inode'[fd[p]] = list[p]
    <3>1. CASE Fill(p)
      <4>1. inode' = [inode EXCEPT ![fd[p]] = list[p]]
        BY <2>2, <3>1 DEF Fill
      <4> QED  BY <1>7, <2>2, <4>1, InodeSet
    <3>2. CASE FillStops(p)
      BY <1>1, <3>2 DEF FillStops, Leave, BlackTypeOK
    <3> QED  BY <1>9, <3>1, <3>2
  <2>5. OnDisk' = OnDisk
    BY <1>7, <2>1, <2>2, <2>3 DEF OnDisk, BlackTypeOK
  <2> QED  BY <1>6, <2>1, <2>2, <2>4, <2>5 DEF IsList
<1>10. CASE Rename(p)
  <2>1. /\ now[p] = "rename" /\ now'[p] = "read" /\ fileAt' = tmpAt /\ tmpAt # 0
        /\ UNCHANGED inode
    BY <1>1, <1>10 DEF Rename, At, BlackTypeOK
  <2>2. OnDisk' = list[p] /\ list[p] \in List
    BY <1>1, <1>6, <2>1 DEF OnDisk, BlackTypeOK
  <2> QED  BY <2>1, <2>2 DEF IsList
<1>11. CASE RenameRefused(p) \/ RemoveTmp(p)
  <2>1. /\ now[p] \in {"rename", "remove"} /\ now'[p] \in {"remove", "idle"}
        /\ UNCHANGED <<inode, fileAt, blacklist, unread>>
    BY <1>1, <1>11 DEF RenameRefused, RemoveTmp, At, Leave, BlackTypeOK, fsVars, countVars
  <2> QED  BY <1>6, <2>1 DEF OnDisk, IsList
<1> QED  BY <1>8, <1>9, <1>10, <1>11 DEF SaverStep

(* The steps of whoever loads.                                             *)
LEMMA LoaderFollows ==
  ASSUME BlackTypeOK, SaverAlone, FileFollows, NEW p \in Worker, LoaderStep(p), ~overlapped'
  PROVE  FileFollows'
<1>1. UNCHANGED fsVars /\ OnDisk' = OnDisk
  BY DEF LoaderStep, Ensure, Read, ReadRefused, Swap, OnDisk, fsVars
<1>2. /\ \A q \in Worker \ {p} : now'[q] = now[q] /\ fd'[q] = fd[q] /\ list'[q] = list[q]
      /\ now'[p] \in {"idle", "read", "swap"}
  BY DEF LoaderStep, Ensure, Read, ReadRefused, Swap, At, Leave, BlackTypeOK
<1>3. IsList(OnDisk)' /\ Saver \subseteq Worker
  BY <1>1 DEF FileFollows, IsList, Worker
<1>4. \A q \in Saver :
        /\ now'[q] \in {"fill", "rename"} => fd'[q] = tmpAt'
        /\ now'[q] = "fill"   => inode'[fd'[q]] = Empty
        /\ now'[q] = "rename" => inode'[fd'[q]] = list'[q]
  BY <1>1, <1>2, <1>3 DEF FileFollows, fsVars
<1>5. now'[p] = "swap" => list'[p] = OnDisk
  BY DEF LoaderStep, Ensure, Read, ReadRefused, Swap, At, Leave, BlackTypeOK
<1>6. \A q \in Worker : now'[q] = "swap" => list'[q] = OnDisk'
  BY <1>1, <1>2, <1>5 DEF FileFollows
<1>7. ASSUME ~unread', blacklist' # Nil, \A q \in Saver : now'[q] \notin {"read", "swap"}
      PROVE  blacklist' = OnDisk
  <2>1. CASE Ensure(p)
    BY <1>7, <2>1 DEF Ensure
  <2>2. CASE Read(p)
    <3>1. now'[p] = "swap" /\ UNCHANGED <<blacklist, unread>>
      BY <2>2 DEF Read, At, BlackTypeOK, countVars
    <3>2. \A q \in Saver : now[q] \notin {"read", "swap"}
      BY <1>2, <1>3, <1>7, <3>1
    <3> QED  BY <1>7, <3>1, <3>2 DEF FileFollows
  <2>3. CASE ReadRefused(p)
    <3>1. p \notin Saver /\ UNCHANGED <<blacklist>> /\ ~unread
      BY <1>7, <2>3 DEF ReadRefused
    <3>2. \A q \in Saver : now[q] \notin {"read", "swap"}
      BY <1>2, <1>3, <1>7, <3>1
    <3> QED  BY <1>7, <3>1, <3>2 DEF FileFollows
  <2>4. CASE Swap(p)
    BY <2>4 DEF Swap, FileFollows
  <2> QED  BY <2>1, <2>2, <2>3, <2>4 DEF LoaderStep
<1> QED  BY <1>1, <1>3, <1>4, <1>6, <1>7 DEF FileFollows

LEMMA BlackStep == BlackInv /\ [BlackNext]_blackVars => BlackInv'
<1> SUFFICES ASSUME BlackInv, [BlackNext]_blackVars, ~overlapped'
             PROVE  SaverAlone' /\ FileFollows'
  BY BlackTypesStep DEF BlackInv
<1>1. ~overlapped
  BY DEF BlackInv, BlackTypeOK, BlackNext, Save, OpenTmp, Fill, FillStops, Rename, RenameRefused,
         RemoveTmp, Ensure, Read, ReadRefused, Swap, Restart, blackVars, countVars
<1>2. BlackTypeOK /\ SaverAlone /\ FileFollows
  BY <1>1 DEF BlackInv
<1>3. SUFFICES FileFollows'
  BY <1>2, AloneStep
<1>4. ASSUME NEW p \in Saver, NEW l \in List, Save(p, l) PROVE FileFollows'
  <2>1. \A q \in Worker : now[q] = "idle"
    BY <1>4 DEF Save, Busy
  <2>2. /\ now'[p] = "open" /\ \A q \in Worker \ {p} : now'[q] = "idle"
        /\ UNCHANGED <<fsVars, blacklist, unread>> /\ Saver \subseteq Worker
    BY <1>2, <1>4, <2>1 DEF Save, At, BlackTypeOK, Worker
  <2>3. OnDisk' = OnDisk
    BY <2>2 DEF OnDisk, fsVars
  <2> QED  BY <1>2, <2>1, <2>2, <2>3 DEF FileFollows, IsList
<1>5. CASE Restart
  <2>1. \A q \in Worker : now'[q] \in {"idle", "read"}
    BY <1>5 DEF Restart
  <2>2. Saver \subseteq Worker /\ OnDisk' = OnDisk /\ blacklist' = Nil
    BY <1>5 DEF Restart, OnDisk, fsVars, Worker
  <2> QED  BY <1>2, <2>1, <2>2 DEF FileFollows, IsList
<1>6. CASE UNCHANGED blackVars
  BY <1>2, <1>6 DEF blackVars, fsVars, countVars, FileFollows, OnDisk, IsList
<1> QED  BY <1>2, <1>4, <1>5, <1>6, SaverFollows, LoaderFollows
         DEF BlackNext, SaverStep, LoaderStep

(* What is in force is a list, whatever becomes of the file; and while     *)
(* saves overlap neither saves nor loads, the file is one too, and in      *)
(* force whenever nobody is at it (web/blacklist.go saveTerminalBlacklist, *)
(* ReloadTerminalBlacklist).                                               *)
THEOREM SavedIsInForce == BlackSpec => []SavedInForce
<1>1. BlackInv => SavedInForce
  <2> SUFFICES ASSUME BlackInv PROVE SavedInForce
    OBVIOUS
  <2>1. blacklist # Nil => IsList(blacklist)
    BY DEF BlackInv, BlackTypeOK, IsList
  <2>2. ASSUME ~overlapped
        PROVE  /\ IsList(OnDisk)
               /\ ~unread /\ Busy(Worker) = {} /\ blacklist # Nil => blacklist = OnDisk
    BY <2>2 DEF BlackInv, FileFollows, Busy, Worker
  <2> QED  BY <2>1, <2>2 DEF SavedInForce
<1> QED  BY <1>1, BlackInitInv, BlackStep, PTL DEF BlackSpec

HIDE BlackAssumption

-----------------------------------------------------------------------------
(* The settings (web/http.go, utils/globalobj.go) *)

ConfTypeOK ==
  /\ conf \in Settings \cup {BadConf}
  /\ put \in [Putter -> [at : {"idle", "read", "truncate", "write", "reload", "set", "level",
                               "done"},
                         patch : Patches \cup {Defaults}, byLevel : BOOLEAN,
                         root : Settings \cup {BadConf}]]
  /\ before \in [Putter -> Settings \cup {BadConf}]
  /\ apart \in BOOLEAN /\ skipped \in BOOLEAN

Serving(p)   == put[p].at # "idle"
Requested(p) == Patched(before[p], put[p].patch)

OneServes == \A p, q \in Putter : Serving(p) /\ Serving(q) => p = q

(* A change of the log level names no other setting and a right value.     *)
LevelPatch ==
  \A p \in Putter : Serving(p) /\ put[p].byLevel =>
    DOMAIN put[p].patch = {"LogDebugClose"} /\ put[p].patch["LogDebugClose"] # Wrong

(* How far the only request has come: the file is as it was until it is    *)
(* truncated, then what was asked; memory follows, and then the log level. *)
PutProgress ==
  \A p \in Putter :
    /\ put[p].at \in {"read", "truncate"} => conf = before[p]
    /\ put[p].at \in {"truncate", "write"} => put[p].root = Requested(p)
    /\ put[p].at = "write" => conf = BadConf
    /\ put[p].at \in {"reload", "set", "level", "done"} => conf = Requested(p)
    /\ put[p].at = "set" => put[p].root = conf
    /\ put[p].at = "level" /\ Loads(conf) /\ ~skipped => mem = conf

MemFollows ==
  (\A p \in Putter : put[p].at \in {"idle", "read", "truncate", "done"})
     /\ Loads(conf) /\ ~skipped => Effective(conf)

ConfInv == ConfTypeOK /\ LevelPatch /\ (apart => OneServes /\ PutProgress /\ MemFollows)

USE ConfigAssumption

LEMMA PatchedType ==
  ASSUME NEW root \in Settings, NEW patch \in Patches \cup {Defaults}
  PROVE  Patched(root, patch) \in Settings
<1>1. ASSUME NEW k \in Setting, k \in DOMAIN patch
      PROVE  patch[k] \in BOOLEAN \cup {Wrong}
  <2>1. CASE patch = Defaults
    BY <1>1, <2>1 DEF Defaults
  <2>2. CASE patch \in Patches
    <3>1. PICK D \in SUBSET Setting : patch \in [D -> BOOLEAN \cup {Wrong}]
      BY <2>2
    <3> QED  BY <1>1, <3>1
  <2> QED  BY <2>1, <2>2
<1>2. \A k \in Setting : root[k] \in BOOLEAN \cup {Wrong}
  BY DEF Settings
<1> QED  BY <1>1, <1>2 DEF Patched, Settings

LEMMA ConfInitInv == ConfInit => ConfInv
<1> SUFFICES ASSUME ConfInit PROVE ConfInv
  OBVIOUS
<1>1. conf \in Settings /\ Loads(conf) /\ mem = conf /\ level = ~conf["LogDebugClose"]
  BY DEF ConfInit, Loaded, Levelled
<1>2. put = [p \in Putter |-> NoPut] /\ before = [p \in Putter |-> conf]
  BY DEF ConfInit
<1>6. apart \in BOOLEAN /\ skipped \in BOOLEAN
  BY DEF ConfInit
<1>3. ConfTypeOK
  BY <1>1, <1>2, <1>6 DEF ConfTypeOK, NoPut
<1>4. LevelPatch /\ OneServes /\ PutProgress
  BY <1>2 DEF LevelPatch, OneServes, PutProgress, Serving, NoPut
<1>5. MemFollows
  BY <1>1 DEF MemFollows, Effective
<1> QED  BY <1>3, <1>4, <1>5 DEF ConfInv

(* What the steps of one request keep, given what each does to its record. *)
LEMMA ConfTypesStep == ConfTypeOK /\ [ConfNext]_confVars => ConfTypeOK'
<1> SUFFICES ASSUME ConfTypeOK, [ConfNext]_confVars PROVE ConfTypeOK'
  OBVIOUS
<1> USE DEF ConfTypeOK
<1>1. ASSUME NEW read \in BOOLEAN, Down(read) PROVE ConfTypeOK'
  BY <1>1 DEF Down, NoPut
<1>2. ASSUME NEW p \in Putter, NEW patch \in Patches, NEW byLevel \in BOOLEAN,
             PutBegin(p, patch, byLevel)
      PROVE  ConfTypeOK'
  <2>1. put' \in [Putter -> [at : {"idle", "read", "truncate", "write", "reload", "set", "level",
                               "done"},
                         patch : Patches \cup {Defaults}, byLevel : BOOLEAN,
                         root : Settings \cup {BadConf}]]
    BY <1>2 DEF PutBegin
  <2>2. before' \in [Putter -> Settings \cup {BadConf}] /\ UNCHANGED conf
    BY <1>2 DEF PutBegin
  <2>3. apart' \in BOOLEAN
    BY <1>2 DEF PutBegin
  <2>4. skipped' \in BOOLEAN
    BY <1>2 DEF PutBegin
  <2> QED  BY <2>1, <2>2, <2>3, <2>4
<1>3. ASSUME NEW p \in Putter, PutRead(p) PROVE ConfTypeOK'
  <2>1. conf # BadConf => Patched(conf, put[p].patch) \in Settings
    BY PatchedType
  <2>2. CASE conf = BadConf
    BY <1>3, <2>2 DEF PutRead, NoPut
  <2>3. CASE conf # BadConf
    <3>1. put' = [put EXCEPT ![p] = [put[p] EXCEPT !.at = "truncate",
                                            !.root = Patched(conf, put[p].patch)]]
      BY <1>3, <2>3 DEF PutRead
    <3>2. UNCHANGED <<conf, before, apart, skipped>>
      BY <1>3 DEF PutRead
    <3> QED  BY <2>1, <2>3, <3>1, <3>2, ZenonT(40)
  <2> QED  BY <2>2, <2>3
<1>4. ASSUME NEW p \in Putter, PutTruncate(p) PROVE ConfTypeOK'
  BY <1>4 DEF PutTruncate
<1>5. ASSUME NEW p \in Putter, PutWrite(p) PROVE ConfTypeOK'
  BY <1>5 DEF PutWrite
<1>6. ASSUME NEW p \in Putter, PutFails(p) PROVE ConfTypeOK'
  BY <1>6 DEF PutFails, NoPut
<1>7. ASSUME NEW p \in Putter, ReloadRead(p) PROVE ConfTypeOK'
  BY <1>7, ZenonT(40) DEF ReloadRead
<1>11. ASSUME NEW p \in Putter, ReloadReadFails(p) PROVE ConfTypeOK'
  BY <1>11 DEF ReloadReadFails
<1>8. ASSUME NEW p \in Putter, ReloadSet(p) \/ PutLevel(p) PROVE ConfTypeOK'
  <2>1. CASE ReloadSet(p)
    BY <2>1 DEF ReloadSet
  <2>2. CASE PutLevel(p)
    BY <2>2 DEF PutLevel
  <2> QED  BY <1>8, <2>1, <2>2
<1>9. ASSUME NEW p \in Putter, PutAnswer(p) PROVE ConfTypeOK'
  BY <1>9 DEF PutAnswer, NoPut
<1>10. CASE UNCHANGED confVars
  BY <1>10 DEF confVars
<1> QED  BY <1>1, <1>2, <1>3, <1>4, <1>5, <1>6, <1>7, <1>8, <1>9, <1>10, <1>11
          DEF ConfNext

(* Each step of a request, as long as it is the only one.                  *)
PutStep(p) == \/ PutRead(p) \/ PutTruncate(p) \/ PutWrite(p) \/ PutFails(p)
              \/ ReloadRead(p) \/ ReloadReadFails(p) \/ ReloadSet(p) \/ PutLevel(p) \/ PutAnswer(p)

LEMMA PutStepFrame ==
  ASSUME ConfTypeOK, NEW p \in Putter, PutStep(p)
  PROVE  /\ Serving(p) /\ UNCHANGED <<before, apart>>
         /\ \A q \in Putter \ {p} : put'[q] = put[q]
         /\ put'[p].at = "idle" \/ (/\ put'[p].patch = put[p].patch
                                   /\ put'[p].byLevel = put[p].byLevel)
<1> USE DEF ConfTypeOK, Serving
<1>1. CASE PutRead(p)
  <2>1. CASE conf = BadConf
    <3>1. put' = [put EXCEPT ![p] = NoPut]
      BY <1>1, <2>1 DEF PutRead
    <3>2. put[p].at = "read" /\ UNCHANGED <<before, apart>>
      BY <1>1 DEF PutRead
    <3>3. put'[p].at = "idle"
      BY <3>1 DEF NoPut
    <3> QED  BY <3>1, <3>2, <3>3
  <2>2. CASE conf # BadConf
    <3>1. put' = [put EXCEPT ![p] = [put[p] EXCEPT !.at = "truncate",
                                            !.root = Patched(conf, put[p].patch)]]
      BY <1>1, <2>2 DEF PutRead
    <3>2. put[p].at = "read" /\ UNCHANGED <<before, apart>>
      BY <1>1 DEF PutRead
    <3>3. \A q \in Putter \ {p} : put'[q] = put[q]
      BY <3>1
    <3>4. put'[p].patch = put[p].patch /\ put'[p].byLevel = put[p].byLevel
      BY <3>1
    <3> QED  BY <3>2, <3>3, <3>4
  <2> QED  BY <2>1, <2>2
<1>2. CASE PutTruncate(p)
  BY <1>2 DEF PutTruncate
<1>3. CASE PutWrite(p)
  BY <1>3 DEF PutWrite
<1>4. CASE PutFails(p) \/ PutAnswer(p)
  BY <1>4 DEF PutFails, PutAnswer, NoPut
<1>5. CASE ReloadRead(p) \/ ReloadReadFails(p)
  BY <1>5 DEF ReloadRead, ReloadReadFails
<1>6. CASE ReloadSet(p) \/ PutLevel(p)
  BY <1>6 DEF ReloadSet, PutLevel
<1> QED  BY <1>1, <1>2, <1>3, <1>4, <1>5, <1>6 DEF PutStep

LEMMA PutStepMeans ==
  ASSUME ConfTypeOK, LevelPatch, OneServes, PutProgress, MemFollows, NEW p \in Putter, PutStep(p)
  PROVE  OneServes' /\ PutProgress' /\ MemFollows'
<1>1. /\ Serving(p) /\ UNCHANGED <<before, apart>>
      /\ \A q \in Putter \ {p} : put'[q] = put[q]
      /\ put'[p].at = "idle" \/ put'[p].patch = put[p].patch
  BY PutStepFrame
<1>2. \A q \in Putter \ {p} : put[q].at = "idle" /\ put'[q].at = "idle"
  BY <1>1 DEF OneServes, Serving
<1>3. OneServes'
  BY <1>2 DEF OneServes, Serving
(* So only what holds of p is left to show.                                *)
<1> DEFINE P == /\ put'[p].at \in {"read", "truncate"} => conf' = before[p]
                /\ put'[p].at \in {"truncate", "write"}
                     => put'[p].root = Patched(before[p], put[p].patch)
                /\ put'[p].at = "write" => conf' = BadConf
                /\ put'[p].at \in {"reload", "set", "level", "done"}
                     => conf' = Patched(before[p], put[p].patch)
                /\ put'[p].at = "set" => put'[p].root = conf'
                /\ put'[p].at = "level" /\ Loads(conf') /\ ~skipped' => mem' = conf'
           I == put'[p].at \in {"idle", "read", "truncate", "done"} /\ Loads(conf') /\ ~skipped'
                  => mem' = conf' /\ level' = ~conf'["LogDebugClose"]
<1>4. P => PutProgress'
  <2> SUFFICES ASSUME P, NEW q \in Putter
               PROVE  /\ put'[q].at \in {"read", "truncate"} => conf' = before'[q]
                      /\ put'[q].at \in {"truncate", "write"}
                           => put'[q].root = Patched(before'[q], put'[q].patch)
                      /\ put'[q].at = "write" => conf' = BadConf
                      /\ put'[q].at \in {"reload", "set", "level", "done"}
                           => conf' = Patched(before'[q], put'[q].patch)
                      /\ put'[q].at = "set" => put'[q].root = conf'
                      /\ put'[q].at = "level" /\ Loads(conf') /\ ~skipped' => mem' = conf'
    BY DEF PutProgress, Requested, Loads
  <2>1. CASE q # p
    BY <1>2, <2>1
  <2>2. CASE q = p
    BY <1>1, <2>2
  <2> QED  BY <2>1, <2>2
<1>5. I => MemFollows'
  BY DEF MemFollows, Effective, Loads
<1>6. SUFFICES P /\ I
  BY <1>3, <1>4, <1>5
<1>7. put[p].at \in {"idle", "read", "truncate", "done"} /\ Loads(conf) /\ ~skipped
        => mem = conf /\ level = ~conf["LogDebugClose"]
  BY <1>2 DEF MemFollows, Effective
<1>8. /\ put[p].at \in {"read", "truncate"} => conf = before[p]
      /\ put[p].at \in {"truncate", "write"} => put[p].root = Patched(before[p], put[p].patch)
      /\ put[p].at = "write" => conf = BadConf
      /\ put[p].at \in {"reload", "set", "level", "done"} => conf = Patched(before[p], put[p].patch)
      /\ put[p].at = "set" => put[p].root = conf
      /\ put[p].at = "level" /\ Loads(conf) /\ ~skipped => mem = conf
  BY DEF PutProgress, Requested
<1>9. CASE PutRead(p)
  <2>1. put[p].at = "read" /\ UNCHANGED <<conf, mem, level, skipped>>
    BY <1>9 DEF PutRead
  <2>2. CASE conf = BadConf
    <3>1. put'[p].at = "idle"
      BY <1>9, <2>2 DEF PutRead, NoPut, ConfTypeOK
    <3> QED  BY <1>7, <2>1, <3>1
  <2>3. CASE conf # BadConf
    <3>1. put'[p].at = "truncate" /\ put'[p].root = Patched(conf, put[p].patch)
      BY <1>9, <2>3 DEF PutRead, ConfTypeOK
    <3> QED  BY <1>7, <1>8, <2>1, <3>1
  <2> QED  BY <2>2, <2>3
<1>10. CASE PutTruncate(p)
  <2>1. /\ put[p].at = "truncate" /\ put'[p].at = "write" /\ put'[p].root = put[p].root
        /\ conf' = BadConf
    BY <1>10 DEF PutTruncate, ConfTypeOK
  <2> QED  BY <1>8, <2>1
<1>11. CASE PutWrite(p)
  <2>1. put[p].at = "write" /\ put'[p].at = "reload"
    BY <1>11 DEF PutWrite, ConfTypeOK
  <2>2. conf' = put[p].root
    BY <1>8, <1>11, <2>1 DEF PutWrite
  <2> QED  BY <1>8, <2>1, <2>2
<1>12. CASE PutFails(p)
  <2>1. put[p].at \in {"read", "truncate", "write"} /\ put'[p].at = "idle"
        /\ UNCHANGED <<conf, mem, level, skipped>>
    BY <1>12 DEF PutFails, NoPut, ConfTypeOK
  <2> QED  BY <1>7, <1>8, <2>1 DEF Loads
<1>13. CASE ReloadRead(p)
  <2>1. put[p].at = "reload" /\ put'[p].at = "set" /\ put'[p].root = conf /\ UNCHANGED conf
    BY <1>13 DEF ReloadRead, ConfTypeOK
  <2> QED  BY <1>8, <2>1
<1>17. CASE ReloadReadFails(p)
  <2>1. put[p].at = "reload" /\ put'[p].at = "level" /\ skipped' = TRUE /\ UNCHANGED conf
    BY <1>17 DEF ReloadReadFails, ConfTypeOK
  <2> QED  BY <1>8, <2>1
<1>14. CASE ReloadSet(p)
  <2>1. /\ put[p].at = "set" /\ put'[p].at = "level" /\ UNCHANGED conf
        /\ mem' = Loaded(mem, put[p].root)
    BY <1>14 DEF ReloadSet, ConfTypeOK
  <2> QED  BY <1>8, <2>1 DEF Loaded
<1>15. CASE PutLevel(p)
  <2>1. put[p].at = "level" /\ put'[p].at = "done" /\ UNCHANGED <<conf, mem, skipped>>
    BY <1>15 DEF PutLevel, ConfTypeOK
  <2>2. CASE put[p].byLevel
    <3>1. DOMAIN put[p].patch = {"LogDebugClose"}
      BY <1>1, <2>2 DEF LevelPatch
    <3>2. Patched(before[p], put[p].patch)["LogDebugClose"] = put[p].patch["LogDebugClose"]
      BY <3>1 DEF Patched, Setting, configWritableKeys
    <3>3. level' = ~put[p].patch["LogDebugClose"]
      BY <1>15, <2>2 DEF PutLevel
    <3> QED  BY <1>8, <2>1, <3>2, <3>3
  <2>3. CASE ~put[p].byLevel
    <3>1. level' = ~mem["LogDebugClose"]
      BY <1>15, <2>3 DEF PutLevel
    <3> QED  BY <1>8, <2>1, <3>1
  <2> QED  BY <2>2, <2>3
<1>16. CASE PutAnswer(p)
  <2>1. put[p].at = "done" /\ put'[p].at = "idle" /\ UNCHANGED <<conf, mem, level, skipped>>
    BY <1>16 DEF PutAnswer, NoPut, ConfTypeOK
  <2> QED  BY <1>7, <2>1
<1> QED  BY <1>9, <1>10, <1>11, <1>12, <1>13, <1>14, <1>15, <1>16, <1>17 DEF PutStep

LEMMA ConfStep == ConfInv /\ [ConfNext]_confVars => ConfInv'
<1> SUFFICES ASSUME ConfInv, [ConfNext]_confVars PROVE ConfInv'
  OBVIOUS
<1>1. ConfTypeOK' /\ ConfTypeOK /\ LevelPatch
  BY ConfTypesStep DEF ConfInv
<1>2. SUFFICES LevelPatch' /\ (apart' => OneServes' /\ PutProgress' /\ MemFollows')
  BY <1>1 DEF ConfInv
<1>3. ASSUME NEW read \in BOOLEAN, Down(read)
      PROVE  LevelPatch' /\ (apart' => OneServes' /\ PutProgress' /\ MemFollows')
  <2>1. \A p \in Putter : put'[p].at = "idle"
    BY <1>3 DEF Down, NoPut
  <2>2. Loads(conf') /\ ~skipped' => mem' = conf' /\ level' = ~conf'["LogDebugClose"]
    BY <1>3 DEF Down, Loaded, Levelled
  <2> QED  BY <2>1, <2>2 DEF LevelPatch, OneServes, PutProgress, MemFollows, Effective, Serving, Loads
<1>4. ASSUME NEW p \in Putter, NEW patch \in Patches, NEW byLevel \in BOOLEAN,
             PutBegin(p, patch, byLevel)
      PROVE  LevelPatch' /\ (apart' => OneServes' /\ PutProgress' /\ MemFollows')
  <2>1. /\ put[p].at = "idle" /\ UNCHANGED <<conf, mem, level, skipped>>
        /\ put'[p] = [at |-> "read", patch |-> patch, byLevel |-> byLevel, root |-> BadConf]
        /\ before'[p] = conf
        /\ \A q \in Putter \ {p} : put'[q] = put[q] /\ before'[q] = before[q]
        /\ byLevel => DOMAIN patch = {"LogDebugClose"} /\ patch["LogDebugClose"] # Wrong
    BY <1>1, <1>4 DEF PutBegin, ConfTypeOK
  <2>2. LevelPatch'
    BY <1>1, <2>1 DEF LevelPatch, Serving
  <2>3. ASSUME apart'
        PROVE  OneServes' /\ PutProgress' /\ MemFollows'
    <3>1. apart /\ \A q \in Putter : put[q].at = "idle"
      BY <1>4, <2>3 DEF PutBegin
    <3>2. OneServes' /\ PutProgress'
      BY <2>1, <3>1 DEF OneServes, PutProgress, Serving
    <3>3. Loads(conf) /\ ~skipped => Effective(conf)
      BY <3>1 DEF ConfInv, MemFollows
    <3>4. skipped' = skipped
      BY <1>4 DEF PutBegin
    <3> QED  BY <2>1, <3>2, <3>3, <3>4 DEF MemFollows, Effective, Loads
  <2> QED  BY <2>2, <2>3
<1>5. ASSUME NEW p \in Putter, PutStep(p)
      PROVE  LevelPatch' /\ (apart' => OneServes' /\ PutProgress' /\ MemFollows')
  <2>1. /\ UNCHANGED apart /\ Serving(p)
        /\ \A q \in Putter \ {p} : put'[q] = put[q]
        /\ put'[p].at = "idle" \/ (put'[p].patch = put[p].patch /\ put'[p].byLevel = put[p].byLevel)
    BY <1>1, <1>5, PutStepFrame
  <2>2. LevelPatch'
    BY <1>1, <2>1 DEF LevelPatch, Serving
  <2> QED  BY <1>1, <1>5, <2>1, <2>2, PutStepMeans DEF ConfInv
<1>6. CASE UNCHANGED confVars
  BY <1>6 DEF confVars, ConfInv, LevelPatch, OneServes, PutProgress, MemFollows, Effective, Serving,
              Requested, Loads
<1> QED  BY <1>3, <1>4, <1>5, <1>6 DEF ConfNext, PutStep

(* While requests do not overlap, an answered one has changed in the file  *)
(* what it named and nothing else; and unless the last Reload could not     *)
(* read the file, memory and log level agree with one that can be loaded,  *)
(* wherever a write was cut off or failed                                  *)
(* (http.go handleConfigPut, handleLogLevel, globalobj.go Reload).         *)
THEOREM SettingsAgree == ConfSpec => []SettingsInStep
<1>1. ConfInv => SettingsInStep
  BY DEF ConfInv, SettingsInStep, PutProgress, MemFollows, Requested
<1> QED  BY <1>1, ConfInitInv, ConfStep, PTL DEF ConfSpec

HIDE ConfigAssumption

-----------------------------------------------------------------------------
(* The packet logs (timewriter/timewriter.go) *)

LogText   == SUBSET Line
PlainFile == LogText \cup {NoLog}

LogTypeOK ==
  /\ day \in Day
  /\ plain \in [Day -> PlainFile] /\ gz \in [Day -> PlainFile \cup {TornLog}]
  /\ fileDay \in Day \cup {0} /\ curDay \in Day \cup {0} /\ zipping \in Day \cup {0}
  /\ linked \in BOOLEAN /\ millCh \in BOOLEAN /\ smooth \in BOOLEAN
  /\ writer \in {"idle", "check", "create", "name", "signal", "write"}
  /\ miller \in {"idle", "list", "work", "copy", "discard", "unlink"}
  /\ remove \in SUBSET ({"plain", "gz"} \X Day) /\ compress \in SUBSET Day
  /\ written \in SUBSET (Line \X Day) /\ IsFiniteSet(written) /\ cut \subseteq written
  /\ writer # "idle" => Cardinality(written) < MaxLines
  /\ writer \in {"check", "name", "signal", "write"} => fileDay # 0
  /\ miller \in {"copy", "discard", "unlink"} => zipping # 0
  /\ fileDay # 0 /\ linked => plain[fileDay] # NoLog

(* The open file is that of the day Write has noted, but while it is being *)
(* changed, which it is only to a later day.                               *)
WriterInOrder ==
  /\ linked /\ curDay <= day
  /\ fileDay # 0 /\ writer # "name" => fileDay = curDay
  /\ writer = "create" => fileDay = 0
  /\ writer = "name" => fileDay = day
  /\ writer \in {"create", "name"} => curDay # 0 /\ curDay < day

(* The mill runs only when today's file is the noted one, so it handles    *)
(* none that may be open.                                                  *)
MillInOrder ==
  /\ miller # "idle" \/ millCh \/ writer = "signal" => curDay = day
  /\ \A f \in remove : Old(f[2])
  /\ \A d \in compress : d < day
  /\ miller \in {"copy", "discard", "unlink"} => zipping < day

FilesInOrder ==
  /\ \A d \in Day : d > day => plain[d] = NoLog
  /\ miller \in {"copy", "discard", "unlink"} => plain[zipping] # NoLog
  /\ miller = "unlink" => gz[zipping] = plain[zipping]

LinesInOrder ==
  \A w \in written : w[2] <= day /\ (curDay # 0 => w[2] <= curDay)

(* The plain file of a day, while there is one, holds all its lines but    *)
(* those that were cut; then the compressed one does.                      *)
Lines(d)  == {l \in Line : <<l, d>> \in written \ cut}
KeptOf(d) ==
  /\ plain[d] # NoLog => Lines(d) \subseteq plain[d]
  /\ plain[d] = NoLog /\ Lines(d) # {} =>
       d < day /\ gz[d] \notin {NoLog, TornLog} /\ Lines(d) \subseteq gz[d]

LogInv ==
  /\ LogTypeOK
  /\ smooth => /\ WriterInOrder /\ MillInOrder /\ FilesInOrder /\ LinesInOrder
               /\ \A d \in Day : ~Old(d) => KeptOf(d)

USE LogAssumption

LEMMA DayFacts == 1 \in Day /\ 0 \notin Day /\ \A d \in Day : d \in Nat /\ d >= 1 /\ d <= MaxDay
  BY DEF Day

LEMMA PlainFacts ==
  /\ {} \in PlainFile /\ NoLog \in PlainFile /\ TornLog \notin PlainFile /\ {} # NoLog
  /\ \A f \in PlainFile, l \in Line : f # NoLog => f \cup {l} \in PlainFile /\ f \cup {l} # NoLog
<1>1. NoLog \notin LogText /\ TornLog \notin LogText /\ NoLog # TornLog /\ {} \in LogText
  BY DEF LogText
<1>2. \A f \in LogText, l \in Line : f \cup {l} \in LogText
  BY DEF LogText
<1>3. \A f : f \in PlainFile <=> f \in LogText \/ f = NoLog
  BY DEF PlainFile
<1>4. {} \in PlainFile /\ NoLog \in PlainFile /\ TornLog \notin PlainFile /\ {} # NoLog
  BY <1>1, <1>3
<1>5. ASSUME NEW f \in PlainFile, NEW l \in Line, f # NoLog
      PROVE  f \cup {l} \in PlainFile /\ f \cup {l} # NoLog
  <2>1. f \cup {l} \in LogText
    BY <1>2, <1>3, <1>5
  <2> QED  BY <1>1, <1>3, <2>1
<1> QED  BY <1>4, <1>5

LEMMA LogInitInv == LogInit => LogInv
<1> SUFFICES ASSUME LogInit PROVE LogInv
  OBVIOUS
<1>1. LogTypeOK
  BY FS_EmptySet, DayFacts, PlainFacts DEF LogInit, LogTypeOK
<1>2. WriterInOrder /\ MillInOrder /\ FilesInOrder /\ LinesInOrder
  BY DayFacts DEF LogInit, WriterInOrder, MillInOrder, FilesInOrder, LinesInOrder
<1>3. \A d \in Day : KeptOf(d)
  BY DEF LogInit, KeptOf, Lines
<1> QED  BY <1>1, <1>2, <1>3 DEF LogInv

LEMMA LogTypesStep == LogTypeOK /\ [LogNext]_logVars => LogTypeOK'
<1> SUFFICES ASSUME LogTypeOK, [LogNext]_logVars PROVE LogTypeOK'
  OBVIOUS
<1> USE DEF LogTypeOK
<1>1. CASE Midnight \/ SetBack
  <2>1. day' \in Day
    BY <1>1 DEF Midnight, SetBack, Day
  <2>2. smooth' \in BOOLEAN
    BY <1>1 DEF Midnight, SetBack
  <2>3. UNCHANGED <<fileVars, writeVars, millVars, cut>>
    BY <1>1 DEF Midnight, SetBack
  <2> QED  BY <2>1, <2>2, <2>3 DEF fileVars, writeVars, millVars
<1>2. CASE OpenExisting
  <2>1. plain' \in [Day -> PlainFile] /\ plain'[day] # NoLog
    BY <1>2, PlainFacts DEF OpenExisting
  <2> QED  BY <1>2, <2>1, DayFacts DEF OpenExisting, OpenTruncates, millVars
<1>18. CASE OpenTruncates
  <2>1. plain' \in [Day -> PlainFile] /\ plain'[day] # NoLog
    BY <1>18, PlainFacts DEF OpenTruncates
  <2> QED  BY <1>18, <2>1, DayFacts DEF OpenTruncates, millVars
<1>3. CASE HaveFile \/ SameDay \/ CloseOld
  BY <1>3 DEF HaveFile, SameDay, CloseOld, fileVars, millVars
<1>4. CASE OpenNewFails \/ Name
  BY <1>4 DEF OpenNewFails, Name, fileVars, millVars
<1>16. CASE Signal
  BY <1>16 DEF Signal, fileVars
<1>5. CASE OpenNew
  <2>1. plain' \in [Day -> PlainFile] /\ plain'[day] # NoLog
    BY <1>5, PlainFacts DEF OpenNew
  <2> QED  BY <1>5, <2>1, DayFacts DEF OpenNew, millVars
<1>6. CASE WriteLine
  <2>1. PICK l \in Line : l = Cardinality(written) + 1
    BY <1>6, FS_CardinalityType DEF WriteLine, Line
  <2>2. fileDay \in Day
    BY <1>6 DEF WriteLine
  <2>3. written' = written \cup {<<l, fileDay>>}
    BY <1>6, <2>1 DEF WriteLine
  <2>4. written' \in SUBSET (Line \X Day) /\ IsFiniteSet(written')
    <3>1. <<l, fileDay>> \in Line \X Day
      BY <2>1, <2>2
    <3>2. IsFiniteSet(written \cup {<<l, fileDay>>})
      BY FS_AddElement
    <3> QED  BY <2>3, <3>1, <3>2
  <2>5. plain' = IF linked THEN [plain EXCEPT ![fileDay] = @ \cup {l}] ELSE plain
    BY <1>6, <2>1 DEF WriteLine
  <2>6. plain' \in [Day -> PlainFile] /\ (linked => plain'[fileDay] # NoLog)
    <3>1. CASE linked
      <4>1. plain[fileDay] \cup {l} \in PlainFile /\ plain[fileDay] \cup {l} # NoLog
        <5>1. plain[fileDay] \in PlainFile /\ plain[fileDay] # NoLog
          BY <1>6, <2>2, <3>1 DEF WriteLine
        <5> QED  BY <2>1, <5>1, PlainFacts
      <4> QED  BY <2>2, <2>5, <3>1, <4>1
    <3> QED  BY <2>5, <3>1
  <2> QED  BY <1>6, <2>4, <2>6 DEF WriteLine, millVars
<1>7. CASE MillTake
  BY <1>7 DEF MillTake, fileVars, writeVars
<1>17. CASE MillEnd
  BY <1>17 DEF MillEnd, fileVars, writeVars
<1>8. CASE ListFiles
  <2>1. remove' \in SUBSET ({"plain", "gz"} \X Day) /\ compress' \in SUBSET Day
    BY <1>8 DEF ListFiles, Files
  <2> QED  BY <1>8, <2>1 DEF ListFiles, fileVars, writeVars
<1>9. CASE GzCopy \/ GzDiscard
  BY <1>9, PlainFacts DEF GzCopy, GzDiscard, writeVars
<1>10. ASSUME NEW d \in Day, Unlink(d)
       PROVE  plain' \in [Day -> PlainFile] /\ linked' \in BOOLEAN
              /\ (fileDay # 0 /\ linked' => plain'[fileDay] # NoLog)
  BY <1>10, PlainFacts DEF Unlink
<1>11. CASE GzUnlink
  <2>1. CASE Unlink(zipping)
    <3>1. zipping \in Day
      BY <1>11 DEF GzUnlink
    <3> QED  BY <1>10, <1>11, <2>1, <3>1 DEF GzUnlink
  <2>2. CASE UNCHANGED <<plain, linked, zipping>>
    BY <1>11, <2>2 DEF GzUnlink
  <2> QED  BY <1>11, <2>1, <2>2 DEF GzUnlink
<1>12. ASSUME NEW d \in Day, GzOpen(d) \/ GzSkip(d) PROVE LogTypeOK'
  BY <1>12, DayFacts DEF GzOpen, GzSkip, fileVars, writeVars
<1>13. ASSUME NEW d \in Day, NEW k \in {"plain", "gz"}, RemoveOld(k, d) PROVE LogTypeOK'
  <2>1. /\ remove' \in SUBSET ({"plain", "gz"} \X Day)
        /\ UNCHANGED <<day, fileDay, curDay, writer, written, millCh, miller, compress, zipping,
                       cut, smooth>>
    BY <1>13 DEF RemoveOld
  <2>2. gz' \in [Day -> PlainFile \cup {TornLog}]
    BY <1>13, PlainFacts DEF RemoveOld, fileVars
  <2>3. plain' \in [Day -> PlainFile] /\ linked' \in BOOLEAN
        /\ (fileDay # 0 /\ linked' => plain'[fileDay] # NoLog)
    <3>1. Unlink(d) \/ UNCHANGED <<plain, linked>>
      BY <1>13 DEF RemoveOld, fileVars
    <3> QED  BY <1>10, <3>1
  <2> QED  BY <2>1, <2>2, <2>3
<1>14. CASE LogCrash
  BY <1>14 DEF LogCrash, fileVars
<1>15. CASE UNCHANGED logVars
  BY <1>15 DEF logVars, fileVars, writeVars, millVars
<1> QED  BY <1>1, <1>2, <1>3, <1>4, <1>5, <1>6, <1>7, <1>8, <1>9, <1>11, <1>12, <1>13, <1>14,
            <1>15, <1>16, <1>17, <1>18 DEF LogNext

(* The steps of the writer, and those of the mill.                         *)
WriteStep == \/ OpenExisting \/ OpenTruncates \/ HaveFile \/ SameDay \/ CloseOld \/ OpenNew \/ OpenNewFails
             \/ Name \/ Signal \/ WriteLine
MillStep  == \/ MillTake \/ ListFiles \/ GzCopy \/ GzDiscard \/ GzUnlink \/ MillEnd
             \/ \E d \in Day : GzOpen(d) \/ GzSkip(d) \/ \E k \in {"plain", "gz"} : RemoveOld(k, d)

InOrder == WriterInOrder /\ MillInOrder /\ FilesInOrder /\ LinesInOrder

LEMMA MillFrame == MillStep => UNCHANGED <<day, fileDay, curDay, writer, written, cut, smooth>>
<1>1. MillTake \/ ListFiles \/ MillEnd => UNCHANGED <<day, fileDay, curDay, writer, written, cut, smooth>>
  BY DEF MillTake, ListFiles, MillEnd, writeVars
<1>2. GzCopy \/ GzDiscard \/ GzUnlink => UNCHANGED <<day, fileDay, curDay, writer, written, cut, smooth>>
  BY DEF GzCopy, GzDiscard, GzUnlink, writeVars
<1>3. ASSUME NEW d \in Day, GzOpen(d) \/ GzSkip(d)
      PROVE  UNCHANGED <<day, fileDay, curDay, writer, written, cut, smooth>>
  BY <1>3 DEF GzOpen, GzSkip, writeVars
<1>4. ASSUME NEW d \in Day, NEW k \in {"plain", "gz"}, RemoveOld(k, d)
      PROVE  UNCHANGED <<day, fileDay, curDay, writer, written, cut, smooth>>
  BY <1>4 DEF RemoveOld
<1> QED  BY <1>1, <1>2, <1>3, <1>4 DEF MillStep

LEMMA WriteFrame ==
  ASSUME WriteStep
  PROVE  /\ UNCHANGED <<day, gz, miller, remove, compress, zipping, smooth>>
         /\ UNCHANGED <<plain, written, cut>> \/ OpenExisting \/ OpenTruncates \/ OpenNew \/ WriteLine
<1>1. CASE OpenExisting \/ OpenTruncates \/ HaveFile \/ SameDay
  BY <1>1 DEF OpenExisting, OpenTruncates, HaveFile, SameDay, fileVars, millVars
<1>2. CASE CloseOld \/ OpenNew \/ OpenNewFails
  BY <1>2 DEF CloseOld, OpenNew, OpenNewFails, fileVars, millVars
<1>3. CASE Name \/ Signal \/ WriteLine
  BY <1>3 DEF Name, Signal, WriteLine, fileVars, millVars
<1> QED  BY <1>1, <1>2, <1>3 DEF WriteStep

LEMMA Scalars ==
  LogTypeOK => /\ day \in Nat /\ fileDay \in Nat /\ curDay \in Nat /\ linked \in BOOLEAN
               /\ \A w \in written : w[2] \in Day
  BY DayFacts DEF LogTypeOK

LEMMA WriterOrderStep ==
  ASSUME LogTypeOK, InOrder, [LogNext]_logVars, smooth'
  PROVE  WriterInOrder'
<1>1. /\ WriterInOrder /\ MillInOrder /\ day \in Nat /\ fileDay \in Nat /\ curDay \in Nat
      /\ \A d \in Day : d \in Nat
  BY Scalars, DayFacts DEF InOrder
<1> USE DEF WriterInOrder
<1>14. \A d \in Day : miller # "idle" /\ d < day => d # fileDay
  BY <1>1, DayFacts DEF MillInOrder
<1>2. CASE Midnight
  <2>1. day' = day + 1 /\ writer \notin {"create", "name", "signal"} /\ UNCHANGED writeVars
    BY <1>2 DEF Midnight, MillDone
  <2> QED  BY <1>1, <2>1 DEF writeVars
<1>3. CASE OpenExisting \/ OpenTruncates
  <2>1. /\ day' = day /\ fileDay' = day /\ curDay' = day /\ linked' = TRUE
        /\ writer' = "check"
    BY <1>3 DEF OpenExisting, OpenTruncates
  <2> QED  BY <1>1, <2>1
<1>4. CASE HaveFile \/ SameDay
  BY <1>1, <1>4 DEF HaveFile, SameDay
<1>5. CASE CloseOld
  <2>1. fileDay # 0
    BY <1>5 DEF CloseOld, LogTypeOK
  <2> QED  BY <1>1, <1>5, <2>1 DEF CloseOld
<1>15. CASE OpenNew
  BY <1>1, <1>15 DEF OpenNew
<1>16. CASE OpenNewFails
  BY <1>1, <1>16 DEF OpenNewFails
<1>17. CASE Name
  BY <1>1, <1>17 DEF Name
<1>18. CASE Signal \/ WriteLine
  BY <1>1, <1>18 DEF Signal, WriteLine
<1>6. ASSUME UNCHANGED <<day, fileDay, curDay, writer>>, linked' PROVE WriterInOrder'
  BY <1>1, <1>6
<1>7. CASE MillTake \/ ListFiles \/ GzCopy \/ GzDiscard \/ MillEnd
  <2>1. linked'
    BY <1>1, <1>7 DEF MillTake, ListFiles, GzCopy, GzDiscard, MillEnd, writeVars
  <2> QED  BY <1>6, <1>7, <2>1, MillFrame DEF MillStep
<1>8. CASE GzUnlink
  <2>1. UNCHANGED <<day, fileDay, curDay, writer>> /\ (Unlink(zipping) \/ UNCHANGED linked)
    BY <1>8 DEF GzUnlink
  <2>2. zipping # fileDay
    <3>1. zipping \in Day /\ zipping < day /\ miller # "idle"
      BY <1>1, <1>8 DEF GzUnlink, MillInOrder, LogTypeOK
    <3> QED  BY <1>14, <3>1
  <2> QED  BY <1>1, <1>6, <2>1, <2>2 DEF Unlink
<1>9. ASSUME NEW d \in Day, GzOpen(d) \/ GzSkip(d) PROVE WriterInOrder'
  BY <1>1, <1>6, <1>9 DEF GzOpen, GzSkip, writeVars
<1>10. ASSUME NEW d \in Day, NEW k \in {"plain", "gz"}, RemoveOld(k, d) PROVE WriterInOrder'
  <2>1. UNCHANGED <<day, fileDay, curDay, writer>> /\ (Unlink(d) \/ UNCHANGED linked)
    BY <1>10 DEF RemoveOld, fileVars
  <2>2. <<k, d>>[2] = d /\ <<k, d>> \in remove /\ miller = "work"
    BY <1>10 DEF RemoveOld
  <2>3. d < day
    BY <1>1, <2>2 DEF MillInOrder, Old
  <2> QED  BY <1>1, <1>6, <1>14, <2>1, <2>2, <2>3 DEF Unlink
<1>11. CASE LogCrash
  BY <1>1, <1>11 DEF LogCrash
<1>12. CASE SetBack
  BY <1>12 DEF SetBack
<1>13. CASE UNCHANGED logVars
  BY <1>1, <1>6, <1>13 DEF logVars, writeVars
<1> QED  BY <1>2, <1>3, <1>4, <1>5, <1>7, <1>8, <1>9, <1>10, <1>11, <1>12, <1>13,
            <1>15, <1>16, <1>17, <1>18 DEF LogNext

LEMMA MillOrderStep ==
  ASSUME LogTypeOK, InOrder, [LogNext]_logVars, smooth'
  PROVE  MillInOrder'
<1> USE DayFacts DEF LogTypeOK, MillInOrder, Old, InOrder
<1>1. CASE Midnight
  <2>1. /\ day' = day + 1 /\ miller' = "idle" /\ ~millCh' /\ writer' # "signal"
        /\ UNCHANGED <<remove, compress>>
    BY <1>1 DEF Midnight, MillDone, millVars, writeVars
  <2>2. \A f \in remove : f[2] \in Day
    OBVIOUS
  <2> QED  BY <2>1, <2>2
<1>2. ASSUME UNCHANGED <<day, millVars>>, curDay' = day \/ UNCHANGED curDay, writer' # "signal"
      PROVE  MillInOrder'
  BY <1>2 DEF millVars
<1>3. CASE OpenExisting \/ OpenTruncates \/ HaveFile \/ SameDay \/ CloseOld \/ OpenNew \/ OpenNewFails \/ WriteLine
  BY <1>2, <1>3 DEF OpenExisting, OpenTruncates, HaveFile, SameDay, CloseOld, OpenNew, OpenNewFails, WriteLine
<1>4. CASE Name \/ Signal
  <2>1. UNCHANGED <<day, miller, remove, compress, zipping>> /\ curDay' = day
    BY <1>4 DEF Name, Signal, millVars, WriterInOrder
  <2> QED  BY <2>1
<1>5. CASE MillTake
  BY <1>5 DEF MillTake, writeVars
<1>6. CASE ListFiles
  <2>1. \A f \in remove' : Old(f[2])
    BY <1>6 DEF ListFiles
  <2>2. \A d \in compress' : d < day
    BY <1>6 DEF ListFiles, Files, FilesInOrder
  <2> QED  BY <1>6, <2>1, <2>2 DEF ListFiles, writeVars
<1>7. CASE GzCopy \/ GzDiscard \/ GzUnlink \/ MillEnd
  <2>1. UNCHANGED <<day, curDay, writer>>
    BY <1>7, MillFrame DEF MillStep
  <2>2. UNCHANGED <<millCh, remove, compress>> /\ miller # "idle"
    BY <1>7 DEF GzCopy, GzDiscard, GzUnlink, MillEnd
  <2>3. miller' \in {"idle", "work"} \/ (UNCHANGED zipping /\ miller \in {"copy", "unlink"})
    BY <1>7 DEF GzCopy, GzDiscard, GzUnlink, MillEnd
  <2> QED  BY <2>1, <2>2, <2>3
<1>8. ASSUME NEW d \in Day, GzOpen(d) \/ GzSkip(d) PROVE MillInOrder'
  <2>1. UNCHANGED <<day, curDay, writer, millCh, remove>> /\ d < day /\ miller = "work"
    BY <1>8 DEF GzOpen, GzSkip, writeVars
  <2>2. compress' = compress \ {d} /\ (zipping' = d \/ miller' = "work")
    BY <1>8, <2>1 DEF GzOpen, GzSkip
  <2> QED  BY <2>1, <2>2
<1>9. ASSUME NEW d \in Day, NEW k \in {"plain", "gz"}, RemoveOld(k, d) PROVE MillInOrder'
  BY <1>9 DEF RemoveOld
<1>10. CASE LogCrash
  BY <1>10 DEF LogCrash
<1>11. CASE SetBack
  BY <1>11 DEF SetBack
<1>12. CASE UNCHANGED logVars
  BY <1>12 DEF logVars, writeVars, millVars
<1> QED  BY <1>1, <1>3, <1>4, <1>5, <1>6, <1>7, <1>8, <1>9, <1>10, <1>11, <1>12
         DEF LogNext

LEMMA FileOrderStep ==
  ASSUME LogTypeOK, InOrder, [LogNext]_logVars, smooth'
  PROVE  FilesInOrder'
<1> USE DayFacts DEF LogTypeOK, FilesInOrder, InOrder
<1>1. CASE Midnight
  <2>1. day' = day + 1 /\ miller' = "idle" /\ UNCHANGED plain
    BY <1>1 DEF Midnight, MillDone, millVars, fileVars
  <2> QED  BY <2>1
<1>2. ASSUME UNCHANGED <<day, fileVars, miller, zipping>> PROVE FilesInOrder'
  BY <1>2 DEF fileVars
<1>3. CASE HaveFile \/ SameDay \/ CloseOld \/ OpenNewFails \/ Name \/ Signal
  BY <1>2, <1>3 DEF HaveFile, SameDay, CloseOld, OpenNewFails, Name, Signal, millVars
(* The writer opens and writes no file that the mill compresses.           *)
<1>4. ASSUME NEW d \in Day, d <= day, \A e \in Day \ {d} : plain'[e] = plain[e],
             miller \in {"copy", "discard", "unlink"} => zipping # d,
             UNCHANGED <<day, gz, miller, zipping>>
      PROVE  FilesInOrder'
  BY <1>4
<1>5. CASE OpenExisting \/ OpenTruncates \/ OpenNew
  <2>1. \A e \in Day \ {day} : plain'[e] = plain[e]
    BY <1>5 DEF OpenExisting, OpenTruncates, OpenNew
  <2>2. UNCHANGED <<day, gz, miller, zipping>>
    BY <1>5, WriteFrame DEF WriteStep
  <2>3. miller \in {"copy", "discard", "unlink"} => zipping # day
    BY DEF MillInOrder
  <2> QED  BY <1>4, <2>1, <2>2, <2>3
<1>6. CASE WriteLine
  <2>1. fileDay \in Day /\ fileDay = curDay /\ fileDay <= day
    BY <1>6 DEF WriteLine, WriterInOrder
  <2>2. \A e \in Day \ {fileDay} : plain'[e] = plain[e]
    BY <1>6, <2>1 DEF WriteLine
  <2> QED  BY <1>4, <1>6, <2>1, <2>2 DEF WriteLine, millVars, MillInOrder
<1>7. CASE MillTake \/ ListFiles \/ MillEnd
  BY <1>7 DEF MillTake, ListFiles, MillEnd, fileVars
<1>8. CASE GzCopy \/ GzDiscard
  BY <1>8, ZenonT(40) DEF GzCopy, GzDiscard
<1>9. CASE GzUnlink
  BY <1>9 DEF GzUnlink, Unlink
<1>10. ASSUME NEW d \in Day, GzOpen(d) \/ GzSkip(d) PROVE FilesInOrder'
  BY <1>10 DEF GzOpen, GzSkip, fileVars
<1>11. ASSUME NEW d \in Day, NEW k \in {"plain", "gz"}, RemoveOld(k, d) PROVE FilesInOrder'
  BY <1>11 DEF RemoveOld, Unlink, fileVars
<1>12. CASE LogCrash
  BY <1>12 DEF LogCrash, fileVars
<1>13. CASE SetBack
  BY <1>13 DEF SetBack
<1>14. CASE UNCHANGED logVars
  BY <1>2, <1>14 DEF logVars, millVars
<1> QED  BY <1>1, <1>3, <1>5, <1>6, <1>7, <1>8, <1>9, <1>10, <1>11, <1>12, <1>13, <1>14 DEF LogNext

LEMMA LineOrderStep ==
  ASSUME LogTypeOK, InOrder, [LogNext]_logVars, smooth'
  PROVE  LinesInOrder'
<1>1. /\ LinesInOrder /\ WriterInOrder /\ day \in Nat /\ curDay \in Nat
      /\ \A w \in written : w[2] \in Nat
  BY Scalars, DayFacts DEF InOrder
<1> USE DEF LinesInOrder
<1>2. CASE Midnight
  <2>1. day' = day + 1 /\ UNCHANGED <<written, curDay>>
    BY <1>2 DEF Midnight, writeVars
  <2> QED  BY <1>1, <2>1
<1>3. ASSUME UNCHANGED <<day, written>>, curDay' \in {curDay, day, 0} PROVE LinesInOrder'
  BY <1>1, <1>3
<1>4. CASE OpenExisting \/ OpenTruncates \/ HaveFile \/ SameDay
  BY <1>3, <1>4 DEF OpenExisting, OpenTruncates, HaveFile, SameDay
<1>5. CASE CloseOld \/ OpenNew \/ OpenNewFails
  BY <1>3, <1>5 DEF CloseOld, OpenNew, OpenNewFails
<1>6. CASE Name \/ Signal
  BY <1>1, <1>3, <1>6 DEF Name, Signal, WriterInOrder
<1>7. CASE WriteLine
  <2>1. fileDay = curDay /\ curDay <= day /\ UNCHANGED <<day, curDay>>
    BY <1>1, <1>7 DEF WriteLine, WriterInOrder, LogTypeOK
  <2>2. PICK l : written' = written \cup {<<l, fileDay>>}
    BY <1>7 DEF WriteLine
  <2> QED  BY <1>1, <2>1, <2>2
<1>8. CASE MillStep
  BY <1>3, <1>8, MillFrame
<1>9. CASE LogCrash
  BY <1>3, <1>9 DEF LogCrash
<1>10. CASE SetBack
  BY <1>10 DEF SetBack
<1>11. CASE UNCHANGED logVars
  BY <1>3, <1>11 DEF logVars, writeVars
<1> QED  BY <1>2, <1>4, <1>5, <1>6, <1>7, <1>8, <1>9, <1>10, <1>11 DEF LogNext, MillStep

(* What becomes of the files of one day that is within the reserve.        *)
LEMMA KeptStep ==
  ASSUME LogTypeOK, InOrder, [LogNext]_logVars, smooth', NEW d \in Day, KeptOf(d), ~Old(d)
  PROVE  KeptOf(d)'
<1> USE DayFacts DEF LogTypeOK
<1>0. /\ WriterInOrder /\ MillInOrder /\ FilesInOrder /\ LinesInOrder
      /\ plain[d] # NoLog => Lines(d) \subseteq plain[d]
      /\ plain[d] = NoLog /\ Lines(d) # {} =>
           d < day /\ gz[d] \notin {NoLog, TornLog} /\ Lines(d) \subseteq gz[d]
  BY DEF InOrder, KeptOf
<1>1. ASSUME UNCHANGED <<written, cut>>, plain'[d] = plain[d], gz'[d] = gz[d] \/ plain[d] # NoLog,
             day' \in {day, day + 1}
      PROVE  KeptOf(d)'
  <2>1. Lines(d)' = Lines(d)
    BY <1>1 DEF Lines
  <2>2. d < day => d < day'
    BY <1>1, <2>1
  <2> QED  BY <1>0, <1>1, <2>1, <2>2 DEF KeptOf
<1>2. CASE Midnight
  BY <1>1, <1>2 DEF Midnight, fileVars, writeVars
<1>3. CASE HaveFile \/ SameDay \/ CloseOld \/ OpenNewFails \/ Name \/ Signal
  <2>1. UNCHANGED <<day, gz, plain, written, cut>>
    BY <1>3, WriteFrame DEF WriteStep, OpenExisting, OpenTruncates, OpenNew, WriteLine, HaveFile, SameDay, CloseOld,
                            OpenNewFails, Name, Signal
  <2> QED  BY <1>1, <2>1
(* A file is made only when no line of its day was written.                *)
<1>4. ASSUME UNCHANGED <<written, cut>>, plain'[d] = {}, Lines(d) = {}
      PROVE  KeptOf(d)'
  <2>1. Lines(d)' = {}
    BY <1>4 DEF Lines
  <2> QED  BY <1>4, <2>1, PlainFacts DEF KeptOf
<1>5. CASE OpenExisting
  <2>1. CASE d = day /\ plain[d] = NoLog
    <3>1. plain'[d] = {} /\ UNCHANGED <<written, cut>>
      BY <1>5, <2>1 DEF OpenExisting
    <3>2. Lines(d) = {}
      BY <1>0, <2>1
    <3> QED  BY <1>4, <3>1, <3>2
  <2>2. CASE d # day \/ plain[d] # NoLog
    BY <1>1, <1>5, <2>2 DEF OpenExisting
  <2> QED  BY <2>1, <2>2
<1>16. CASE OpenTruncates
  <2>1. CASE d = day
    <3>1. plain'[d] = {}
      BY <1>16, <2>1 DEF OpenTruncates
    <3>2. Lines(d)' = {}
      BY <1>16, <2>1 DEF OpenTruncates, Lines
    <3> QED  BY <3>1, <3>2, PlainFacts DEF KeptOf
  <2>2. CASE d # day
    <3>1. UNCHANGED <<day, gz>> /\ plain'[d] = plain[d]
      BY <1>16, <2>2 DEF OpenTruncates
    <3>2. Lines(d)' = Lines(d)
      BY <1>16, <2>2 DEF OpenTruncates, Lines
    <3> QED  BY <1>0, <3>1, <3>2 DEF KeptOf
  <2> QED  BY <2>1, <2>2
<1>6. CASE OpenNew
  <2>1. CASE d = day
    <3>1. plain'[d] = {} /\ UNCHANGED <<written, cut>>
      BY <1>6, <2>1 DEF OpenNew
    <3>2. \A w \in written : w[2] # d
      <4>1. curDay # 0 /\ curDay < day
        BY <1>0, <1>6 DEF OpenNew, WriterInOrder
      <4> QED  BY <1>0, <2>1, <4>1 DEF LinesInOrder
    <3>3. Lines(d) = {}
      BY <3>2 DEF Lines
    <3> QED  BY <1>4, <3>1, <3>3
  <2>2. CASE d # day
    BY <1>1, <1>6, <2>2 DEF OpenNew
  <2> QED  BY <2>1, <2>2
<1>7. CASE WriteLine
  <2>1. PICK l : /\ written' = written \cup {<<l, fileDay>>}
                 /\ plain' = IF linked THEN [plain EXCEPT ![fileDay] = @ \cup {l}] ELSE plain
    BY <1>7 DEF WriteLine
  <2>2. linked /\ fileDay \in Day /\ plain[fileDay] # NoLog /\ UNCHANGED <<day, gz, cut>>
    BY <1>0, <1>7 DEF WriteLine, WriterInOrder
  <2>3. CASE d = fileDay
    <3>1. plain'[d] = plain[d] \cup {l}
      BY <2>1, <2>2, <2>3
    <3>2. Lines(d)' \subseteq Lines(d) \cup {l}
      BY <2>1, <2>2 DEF Lines
    <3>3. plain'[d] # NoLog
      BY <1>7, <2>2, <2>3, LogTypesStep DEF WriteLine
    <3> QED  BY <1>0, <2>2, <2>3, <3>1, <3>2, <3>3 DEF KeptOf
  <2>4. CASE d # fileDay
    <3>1. plain'[d] = plain[d]
      BY <2>1, <2>2, <2>4
    <3>2. Lines(d)' = Lines(d)
      BY <2>1, <2>2, <2>4 DEF Lines
    <3> QED  BY <1>0, <2>2, <3>1, <3>2 DEF KeptOf
  <2> QED  BY <2>3, <2>4
<1>8. CASE MillTake \/ ListFiles \/ MillEnd
  <2>1. UNCHANGED <<day, fileVars, written, cut>>
    BY <1>8 DEF MillTake, ListFiles, MillEnd, writeVars
  <2> QED  BY <1>1, <2>1 DEF fileVars
(* While a file is compressed, its source is there.                        *)
<1>9. CASE GzCopy \/ GzDiscard
  <2>1. /\ zipping \in Day /\ plain[zipping] # NoLog
        /\ UNCHANGED <<day, plain, written, cut>>
        /\ \E c : gz' = [gz EXCEPT ![zipping] = c] \/ UNCHANGED gz
    BY <1>0, <1>9 DEF GzCopy, GzDiscard, writeVars, FilesInOrder
  <2>2. d # zipping => gz'[d] = gz[d]
    BY <2>1
  <2> QED  BY <1>1, <2>1, <2>2
<1>10. CASE GzUnlink
  <2>1. /\ zipping \in Day /\ zipping < day /\ plain[zipping] # NoLog
        /\ gz[zipping] = plain[zipping]
        /\ UNCHANGED <<day, gz, written, cut>>
    BY <1>0, <1>10 DEF GzUnlink, FilesInOrder, MillInOrder
  <2>2. CASE Unlink(zipping) /\ d = zipping
    <3>1. Lines(d)' = Lines(d)
      BY <2>1 DEF Lines
    <3>2. plain'[d] = NoLog
      BY <2>1, <2>2 DEF Unlink
    <3>3. gz[d] \notin {NoLog, TornLog}
      BY <2>1, <2>2, PlainFacts
    <3> QED  BY <1>0, <2>1, <2>2, <3>1, <3>2, <3>3 DEF KeptOf
  <2>3. CASE ~(Unlink(zipping) /\ d = zipping)
    <3>1. plain'[d] = plain[d]
      BY <1>10, <2>1, <2>3 DEF GzUnlink, Unlink
    <3> QED  BY <1>1, <2>1, <3>1
  <2> QED  BY <2>2, <2>3
<1>11. ASSUME NEW e \in Day, GzOpen(e) \/ GzSkip(e) PROVE KeptOf(d)'
  <2>1. /\ UNCHANGED <<day, plain, written, cut>>
        /\ UNCHANGED gz \/ (gz' = [gz EXCEPT ![e] = TornLog] /\ plain[e] # NoLog)
    BY <1>11 DEF GzOpen, GzSkip, fileVars, writeVars
  <2>2. gz'[d] = gz[d] \/ plain[d] # NoLog
    BY <2>1
  <2> QED  BY <1>1, <2>1, <2>2
<1>12. ASSUME NEW e \in Day, NEW k \in {"plain", "gz"}, RemoveOld(k, e) PROVE KeptOf(d)'
  <2>1. <<k, e>>[2] = e /\ <<k, e>> \in remove
    BY <1>12 DEF RemoveOld
  <2>2. e # d
    BY <1>0, <2>1 DEF MillInOrder
  <2>3. plain'[d] = plain[d] /\ gz'[d] = gz[d] /\ UNCHANGED <<day, written, cut>>
    BY <1>12, <2>2 DEF RemoveOld, Unlink, fileVars
  <2> QED  BY <1>1, <2>3
<1>13. CASE LogCrash
  BY <1>1, <1>13 DEF LogCrash, fileVars
<1>14. CASE SetBack
  BY <1>14 DEF SetBack
<1>15. CASE UNCHANGED logVars
  BY <1>1, <1>15 DEF logVars, fileVars, writeVars
<1> QED  BY <1>2, <1>3, <1>5, <1>6, <1>7, <1>8, <1>9, <1>10, <1>11, <1>12, <1>13, <1>14, <1>15, <1>16
         DEF LogNext

LEMMA LogStep == LogInv /\ [LogNext]_logVars => LogInv'
<1> SUFFICES ASSUME LogInv, [LogNext]_logVars, smooth'
             PROVE  InOrder' /\ \A d \in Day : ~Old(d)' => KeptOf(d)'
  BY LogTypesStep DEF LogInv, InOrder
<1>1. LogTypeOK /\ LogTypeOK'
  BY LogTypesStep DEF LogInv
<1>2. smooth
  BY <1>1 DEF LogNext, LogTypeOK, Midnight, SetBack, OpenExisting, OpenTruncates, HaveFile, SameDay, CloseOld,
              OpenNew, OpenNewFails, Name, Signal, WriteLine, MillTake, ListFiles, GzCopy,
              GzDiscard, GzUnlink, MillEnd, GzOpen, GzSkip, RemoveOld, LogCrash, logVars
<1>3. InOrder /\ \A d \in Day : ~Old(d) => KeptOf(d)
  BY <1>2 DEF LogInv, InOrder
<1>4. InOrder'
  BY <1>1, <1>3, WriterOrderStep, MillOrderStep, FileOrderStep, LineOrderStep DEF InOrder
(* A day that is within the reserve was so before: the clock runs forward. *)
<1>5. day <= day'
  <2>1. CASE Midnight
    BY <1>1, <2>1, DayFacts DEF Midnight, LogTypeOK
  <2>2. CASE SetBack
    BY <2>2 DEF SetBack
  <2>3. CASE UNCHANGED day
    BY <1>1, <2>3, DayFacts DEF LogTypeOK
  <2> QED
    BY <2>1, <2>2, <2>3
       DEF LogNext, OpenExisting, OpenTruncates, HaveFile, SameDay, CloseOld, OpenNew, OpenNewFails, Name, Signal,
           WriteLine, MillTake, ListFiles, GzCopy, GzDiscard, GzUnlink, MillEnd, GzOpen, GzSkip,
           RemoveOld, LogCrash, logVars
<1>6. \A d \in Day : ~Old(d)' => ~Old(d)
  BY <1>1, <1>5, DayFacts DEF Old, LogTypeOK
<1> QED  BY <1>1, <1>3, <1>4, <1>6, KeptStep

(* While the clock runs forward and each change of file is done before the *)
(* next midnight, every line that Write has reported is in a file of its   *)
(* day as long as the day is within the reserve, through crashes and       *)
(* failures at any step of rotate, millRunOnce and compressLogFile         *)
(* (timewriter.go), unless openExistingOrNew, unable to open today's file  *)
(* to append to, has emptied it meanwhile.                                 *)
THEOREM EntriesAreKept == LogSpec => []EntriesKept
<1>1. LogInv => EntriesKept
  <2> SUFFICES ASSUME LogInv, smooth, NEW w \in written \ cut, w[2] > day - ReserveDay
               PROVE  Holds(plain[w[2]], w[1]) \/ Holds(gz[w[2]], w[1])
    BY DEF EntriesKept
  <2>1. PICK l \in Line, d \in Day : w = <<l, d>>
    BY DEF LogInv, LogTypeOK
  <2>2. KeptOf(d) /\ l \in Lines(d) /\ plain[d] \in PlainFile
    <3>1. ~Old(d)
      BY <2>1, DayFacts DEF Old, LogInv, LogTypeOK
    <3> QED  BY <2>1, <3>1 DEF LogInv, LogTypeOK, Lines
  <2>3. CASE plain[d] # NoLog
    BY <2>1, <2>2, <2>3, PlainFacts DEF KeptOf, Holds
  <2>4. CASE plain[d] = NoLog
    BY <2>1, <2>2, <2>4 DEF KeptOf, Holds
  <2> QED  BY <2>3, <2>4
<1> QED  BY <1>1, LogInitInv, LogStep, PTL DEF LogSpec

HIDE LogAssumption

-----------------------------------------------------------------------------
(* The tables (fep/snapshot_web.go, traffic_history.go) *)

Detailed == [addr : TermAddr \cup {NoAddr}, login : Nat, bytes : Nat]
Row      == [proto : Protos, id : ConnID, addr : TermAddr \cup {NoAddr}, login : Nat]
Bar      == [bar : Nat, fits : BOOLEAN]

TabTypeOK ==
  /\ reg \in [ConnRole -> [Protos -> SUBSET ConnID]] /\ open \subseteq ConnID
  /\ det \in [ConnID -> Detailed]
  /\ rd \in [for : {"none", "terminals", "apps", "minute"}, next : Nat \ {0},
             todo : SUBSET (Protos \X ConnID), sum : Nat]
  /\ rows \subseteq Row /\ stayed \subseteq Protos \X ConnID
  /\ prev \in Nat \cup {-1} /\ ring \in Seq(Nat) /\ bars \in Seq(Bar)

(* Only connections of the manager are registered (Start, Stop).           *)
Managed == \A r \in ConnRole, p \in Protos : reg[r][p] \subseteq open

(* What stays is registered, and its registry has still to be copied, or   *)
(* it has still to be looked up, or it has a row.                          *)
Listing == rd.for \in {"terminals", "apps"}
Awaited(s) == \/ \E n \in rd.next..Len(Proto) : Proto[n] = s[1]
              \/ s \in rd.todo
              \/ \E x \in rows : x.proto = s[1] /\ x.id = s[2]
StaysAwaited == Listing => \A s \in stayed : s[2] \in reg[ReadRole][s[1]] /\ Awaited(s)

(* Rows are few: some number is above all of theirs.                       *)
RowsBounded ==
  /\ IsFiniteSet(rows)
  /\ \E b \in Nat : \A x \in rows : x.login <= b /\ x.id <= b

(* The ring holds the last bars.                                           *)
RingIsLast ==
  /\ \A i \in 1..Len(bars) : bars[i].fits
  /\ Len(ring) = (IF Len(bars) < TrafficMinBuckets THEN Len(bars) ELSE TrafficMinBuckets)
  /\ \A i \in 1..Len(ring) : ring[i] = bars[Len(bars) - Len(ring) + i].bar

TabInv == TabTypeOK /\ Managed /\ StaysAwaited /\ RowsBounded /\ RingIsLast

USE TablesAssumption

LEMMA TabInitInv == TabInit => TabInv
<1> SUFFICES ASSUME TabInit PROVE TabInv
  OBVIOUS
<1>1. /\ reg = [r \in ConnRole |-> [p \in Protos |-> {}]] /\ open = ConnID
      /\ det = [c \in ConnID |-> NoDetails] /\ rd = NoRead /\ rows = {} /\ stayed = {}
      /\ prev = -1 /\ ring = <<>> /\ bars = <<>>
  BY DEF TabInit
<1>2. NoDetails \in Detailed
  BY DEF NoDetails, Detailed
<1>3. det \in [ConnID -> Detailed]
  BY <1>1, <1>2
<1>4. rd \in [for : {"none", "terminals", "apps", "minute"}, next : Nat \ {0},
              todo : SUBSET (Protos \X ConnID), sum : Nat]
  BY <1>1 DEF NoRead
<1>5. TabTypeOK
  BY <1>1, <1>3, <1>4 DEF TabTypeOK
<1>6. Managed
  BY <1>1 DEF Managed
<1>7. StaysAwaited /\ RowsBounded
  BY <1>1, FS_EmptySet DEF StaysAwaited, RowsBounded
<1>8. RingIsLast
  BY <1>1 DEF RingIsLast
<1> QED  BY <1>5, <1>6, <1>7, <1>8 DEF TabInv

(* The actions by what they change.                                        *)
ConnStep ==
  \E c \in ConnID :
    \/ Carry(c) \/ Unregister(c) \/ Kick(c) \/ Gone(c)
    \/ \E a \in TermAddr, t \in 1..MaxClock : LoggedIn(c, a, t)
    \/ \E p \in Protos, r \in ConnRole : Enter(c, r, p)
ReadStep ==
  \/ Snapshot \/ MinuteEnds \/ ListShown
  \/ \E why \in {"terminals", "apps", "minute"} : ReadBegins(why)
  \/ \E c \in ConnID, p \in Protos : Detail(p, c)

LEMMA TabSteps == TabNext => ConnStep \/ ReadStep
BY DEF TabNext, ConnStep, ReadStep

LEMMA ConnFrame == ConnStep => UNCHANGED <<rd, rows, prev, ring, bars>>
BY DEF ConnStep, Carry, Unregister, Kick, Gone, LoggedIn, Enter, Exit

LEMMA ReadFrame == ReadStep => UNCHANGED connState
BY DEF ReadStep, Snapshot, MinuteEnds, ListShown, ReadBegins, Detail

LEMMA ConnTypes == TabTypeOK /\ ConnStep => TabTypeOK'
<1> SUFFICES ASSUME TabTypeOK, ConnStep PROVE TabTypeOK'
  OBVIOUS
<1>0. UNCHANGED <<rd, rows, prev, ring, bars>>
  BY ConnFrame
<1>1. /\ reg \in [ConnRole -> [Protos -> SUBSET ConnID]] /\ open \subseteq ConnID
      /\ det \in [ConnID -> Detailed] /\ stayed \subseteq Protos \X ConnID
  BY DEF TabTypeOK
<1> SUFFICES /\ reg' \in [ConnRole -> [Protos -> SUBSET ConnID]] /\ open' \subseteq ConnID
             /\ det' \in [ConnID -> Detailed] /\ stayed' \subseteq Protos \X ConnID
  BY <1>0 DEF TabTypeOK
<1>2. PICK c \in ConnID :
        \/ Carry(c) \/ Unregister(c) \/ Kick(c) \/ Gone(c)
        \/ \E a \in TermAddr, t \in 1..MaxClock : LoggedIn(c, a, t)
        \/ \E p \in Protos, r \in ConnRole : Enter(c, r, p)
  BY DEF ConnStep
<1>3. PICK d \in Detailed : d = det[c]
  BY <1>1
<1>4. d.addr \in TermAddr \cup {NoAddr} /\ d.login \in Nat /\ d.bytes \in Nat
  BY DEF Detailed
<1>5. CASE Carry(c)
  <2>1. UNCHANGED <<reg, open, stayed>> /\ det' = [det EXCEPT ![c] = [d EXCEPT !.bytes = @ + 1]]
    BY <1>3, <1>5 DEF Carry
  <2>2. [d EXCEPT !.bytes = @ + 1] \in Detailed
    BY <1>4 DEF Detailed
  <2> QED  BY <1>1, <2>1, <2>2
<1>6. CASE Unregister(c) \/ Kick(c)
  <2>1. /\ reg' = [r \in ConnRole |-> [p \in Protos |-> reg[r][p] \ {c}]]
        /\ stayed' = {x \in stayed : x[2] # c} /\ UNCHANGED <<open, det>>
    BY <1>6 DEF Unregister, Kick, Exit
  <2> QED  BY <1>1, <2>1
<1>7. CASE Gone(c)
  <2>1. open' = open \ {c} /\ det' = [det EXCEPT ![c] = NoDetails] /\ UNCHANGED <<reg, stayed>>
    BY <1>7 DEF Gone
  <2>2. NoDetails \in Detailed
    BY DEF NoDetails, Detailed
  <2> QED  BY <1>1, <2>1, <2>2
<1>8. ASSUME NEW a \in TermAddr, NEW t \in 1..MaxClock, LoggedIn(c, a, t)
      PROVE  /\ reg' \in [ConnRole -> [Protos -> SUBSET ConnID]] /\ open' \subseteq ConnID
             /\ det' \in [ConnID -> Detailed] /\ stayed' \subseteq Protos \X ConnID
  <2>1. UNCHANGED <<reg, open, stayed>> /\ det' = [det EXCEPT ![c].addr = a, ![c].login = t]
    BY <1>8 DEF LoggedIn
  <2>2. [d EXCEPT !.addr = a] \in Detailed
    BY <1>4 DEF Detailed
  <2>3. PICK e \in Detailed : e = [d EXCEPT !.addr = a]
    BY <2>2
  <2>4. t \in Nat
    BY <1>8
  <2>5. [e EXCEPT !.login = t] \in Detailed
    BY <2>4 DEF Detailed
  <2>6. PICK m \in [ConnID -> Detailed] : m = [det EXCEPT ![c].addr = a]
    BY <1>1, <1>3, <2>2
  <2>7. m[c] = e
    BY <1>1, <1>3, <2>3, <2>6
  <2>8. det' = [m EXCEPT ![c].login = t]
    BY <2>1, <2>6
  <2>9. det' = [m EXCEPT ![c] = [e EXCEPT !.login = t]]
    BY <2>7, <2>8
  <2> QED  BY <1>1, <2>1, <2>5, <2>9
<1>9. ASSUME NEW p \in Protos, NEW r \in ConnRole, Enter(c, r, p)
      PROVE  /\ reg' \in [ConnRole -> [Protos -> SUBSET ConnID]] /\ open' \subseteq ConnID
             /\ det' \in [ConnID -> Detailed] /\ stayed' \subseteq Protos \X ConnID
  <2>1. reg' = [reg EXCEPT ![r][p] = @ \cup {c}] /\ UNCHANGED <<open, det, stayed>>
    BY <1>9 DEF Enter
  <2> QED  BY <1>1, <2>1
<1> QED  BY <1>2, <1>5, <1>6, <1>7, <1>8, <1>9

LEMMA ConnManaged == TabTypeOK /\ Managed /\ ConnStep => Managed'
<1> SUFFICES ASSUME TabTypeOK, Managed, ConnStep, NEW q \in ConnRole, NEW o \in Protos
             PROVE  reg'[q][o] \subseteq open'
  BY DEF Managed
<1>1. reg \in [ConnRole -> [Protos -> SUBSET ConnID]] /\ reg[q][o] \subseteq open
  BY DEF TabTypeOK, Managed
<1>2. PICK c \in ConnID :
        \/ Carry(c) \/ Unregister(c) \/ Kick(c) \/ Gone(c)
        \/ \E a \in TermAddr, t \in 1..MaxClock : LoggedIn(c, a, t)
        \/ \E p \in Protos, r \in ConnRole : Enter(c, r, p)
  BY DEF ConnStep
<1>3. CASE Carry(c) \/ \E a \in TermAddr, t \in 1..MaxClock : LoggedIn(c, a, t)
  <2>1. UNCHANGED <<reg, open>>
    BY <1>3 DEF Carry, LoggedIn
  <2> QED  BY <1>1, <2>1
<1>4. CASE Unregister(c) \/ Kick(c)
  <2>1. reg' = [r \in ConnRole |-> [p \in Protos |-> reg[r][p] \ {c}]] /\ UNCHANGED open
    BY <1>4 DEF Unregister, Kick, Exit
  <2> QED  BY <1>1, <2>1
<1>5. CASE Gone(c)
  <2>1. open' = open \ {c} /\ UNCHANGED reg /\ In(c) = {}
    BY <1>5 DEF Gone
  <2>2. c \notin reg[q][o]
    <3>1. PICK x \in ConnRole \X Protos : x = <<q, o>>
      OBVIOUS
    <3>2. x[1] = q /\ x[2] = o /\ x \notin In(c)
      BY <2>1, <3>1
    <3> QED  BY <3>1, <3>2 DEF In
  <2> QED  BY <1>1, <2>1, <2>2
<1>6. ASSUME NEW p \in Protos, NEW r \in ConnRole, Enter(c, r, p)
      PROVE  reg'[q][o] \subseteq open'
  <2>1. reg' = [reg EXCEPT ![r][p] = @ \cup {c}] /\ UNCHANGED open /\ c \in open
    BY <1>6 DEF Enter
  <2>2. reg'[q][o] = reg[q][o] \/ reg'[q][o] = reg[q][o] \cup {c}
    <3>1. CASE q = r /\ o = p
      <4>1. reg'[q][o] = reg[q][o] \cup {c}
        BY <1>1, <2>1, <3>1
      <4> QED  BY <4>1
    <3>2. CASE q # r \/ o # p
      <4>1. reg'[q][o] = reg[q][o]
        BY <1>1, <2>1, <3>2
      <4> QED  BY <4>1
    <3> QED  BY <3>1, <3>2
  <2> QED  BY <1>1, <2>1, <2>2
<1> QED  BY <1>2, <1>3, <1>4, <1>5, <1>6

LEMMA ConnStays == TabTypeOK /\ StaysAwaited /\ ConnStep => StaysAwaited'
<1> SUFFICES ASSUME TabTypeOK, StaysAwaited, ConnStep, Listing', NEW s \in stayed'
             PROVE  s[2] \in reg'[ReadRole'][s[1]] /\ Awaited(s)'
  BY DEF StaysAwaited
<1>0. UNCHANGED <<rd, rows>> /\ Listing /\ ReadRole' = ReadRole /\ ReadRole \in ConnRole
  BY ConnFrame DEF Listing, ReadRole, ConnRole
<1>1. reg \in [ConnRole -> [Protos -> SUBSET ConnID]] /\ stayed \subseteq Protos \X ConnID
  BY DEF TabTypeOK
<1>2. PICK c \in ConnID :
        \/ Carry(c) \/ Unregister(c) \/ Kick(c) \/ Gone(c)
        \/ \E a \in TermAddr, t \in 1..MaxClock : LoggedIn(c, a, t)
        \/ \E p \in Protos, r \in ConnRole : Enter(c, r, p)
  BY DEF ConnStep
<1>3. ASSUME s \in stayed
      PROVE  s[1] \in Protos /\ s[2] \in reg[ReadRole][s[1]] /\ Awaited(s)'
  <2>1. Awaited(s) /\ s[2] \in reg[ReadRole][s[1]]
    BY <1>0, <1>3 DEF StaysAwaited
  <2> QED  BY <1>0, <1>1, <1>3, <2>1 DEF Awaited
<1>4. CASE Carry(c) \/ Gone(c) \/ \E a \in TermAddr, t \in 1..MaxClock : LoggedIn(c, a, t)
  <2>1. UNCHANGED <<reg, stayed>>
    BY <1>4 DEF Carry, Gone, LoggedIn
  <2> QED  BY <1>0, <1>3, <2>1
<1>5. CASE Unregister(c) \/ Kick(c)
  <2>1. /\ reg' = [r \in ConnRole |-> [p \in Protos |-> reg[r][p] \ {c}]]
        /\ stayed' = {x \in stayed : x[2] # c}
    BY <1>5 DEF Unregister, Kick, Exit
  <2>2. s \in stayed /\ s[2] # c
    BY <2>1
  <2> QED  BY <1>0, <1>3, <2>1, <2>2
<1>6. ASSUME NEW p \in Protos, NEW r \in ConnRole, Enter(c, r, p)
      PROVE  s[2] \in reg'[ReadRole'][s[1]] /\ Awaited(s)'
  <2>1. reg' = [reg EXCEPT ![r][p] = @ \cup {c}] /\ UNCHANGED stayed
    BY <1>6 DEF Enter
  <2>2. reg[ReadRole][s[1]] \subseteq reg'[ReadRole][s[1]]
    BY <1>0, <1>1, <1>3, <2>1
  <2> QED  BY <1>0, <1>3, <2>1, <2>2
<1> QED  BY <1>2, <1>4, <1>5, <1>6

(* What the reader's steps do to it.                                       *)
LEMMA ReaderTypes ==
  ASSUME TabTypeOK
  PROVE  /\ rd.for \in {"none", "terminals", "apps", "minute"} /\ rd.next \in Nat \ {0}
         /\ rd.todo \subseteq Protos \X ConnID /\ rd.sum \in Nat
         /\ rows \subseteq Row /\ stayed \subseteq Protos \X ConnID /\ Len(Proto) \in Nat
         /\ \A n \in 1..Len(Proto) : Proto[n] \in Protos
         /\ \A p \in Protos : \E n \in 1..Len(Proto) : Proto[n] = p
         /\ ReadRole \in ConnRole
<1>1. rd \in [for : {"none", "terminals", "apps", "minute"}, next : Nat \ {0},
              todo : SUBSET (Protos \X ConnID), sum : Nat]
  BY DEF TabTypeOK
<1>2. Len(Proto) \in Nat /\ DOMAIN Proto = 1..Len(Proto)
  OBVIOUS
<1> QED  BY <1>1, <1>2 DEF TabTypeOK, Protos, ReadRole, ConnRole

LEMMA SnapshotDoes ==
  ASSUME TabTypeOK, Snapshot
  PROVE  /\ rd' \in [for : {"none", "terminals", "apps", "minute"}, next : Nat \ {0},
                     todo : SUBSET (Protos \X ConnID), sum : Nat]
         /\ rd.next \in 1..Len(Proto)
         /\ rd'.for = rd.for /\ rd'.next = rd.next + 1
         /\ rd'.todo = rd.todo \cup ({Proto[rd.next]} \X reg[ReadRole][Proto[rd.next]])
         /\ UNCHANGED <<connState, rows, stayed, prev, ring, bars>>
<1>1. rd \in [for : {"none", "terminals", "apps", "minute"}, next : Nat \ {0},
              todo : SUBSET (Protos \X ConnID), sum : Nat]
  BY DEF TabTypeOK
<1>2. rd.next \in 1..Len(Proto) /\ UNCHANGED <<connState, rows, stayed, prev, ring, bars>>
  BY ReaderTypes DEF Snapshot
<1>3. PICK new : new = {Proto[rd.next]} \X reg[ReadRole][Proto[rd.next]]
  OBVIOUS
<1>4. new \subseteq Protos \X ConnID
  <2>1. Proto[rd.next] \in Protos /\ ReadRole \in ConnRole
    BY <1>2, ReaderTypes
  <2>2. reg[ReadRole][Proto[rd.next]] \subseteq ConnID
    BY <2>1 DEF TabTypeOK
  <2> QED  BY <1>3, <2>1, <2>2
<1>5. rd' = [rd EXCEPT !.next = @ + 1, !.todo = @ \cup new]
  BY <1>3 DEF Snapshot
<1>6. PICK n \in Nat \ {0} : n = rd.next + 1
  BY <1>1
<1>7. PICK t \in SUBSET (Protos \X ConnID) : t = rd.todo \cup new
  BY <1>1, <1>4
<1>8. rd' = [rd EXCEPT !.next = n, !.todo = t]
  BY <1>5, <1>6, <1>7
<1>9. /\ rd' \in [for : {"none", "terminals", "apps", "minute"}, next : Nat \ {0},
                  todo : SUBSET (Protos \X ConnID), sum : Nat]
      /\ rd'.for = rd.for /\ rd'.next = n /\ rd'.todo = t
  BY <1>1, <1>8
<1> QED  BY <1>2, <1>3, <1>6, <1>7, <1>9

LEMMA BeginDoes ==
  ASSUME TabTypeOK, NEW why \in {"terminals", "apps", "minute"}, ReadBegins(why)
  PROVE  /\ rd' \in [for : {"none", "terminals", "apps", "minute"}, next : Nat \ {0},
                     todo : SUBSET (Protos \X ConnID), sum : Nat]
         /\ rd'.for = why /\ rd'.next = 1 /\ rows' = {}
         /\ stayed' \subseteq Protos \X ConnID
         /\ why # "minute" => \A s \in stayed' : s[2] \in reg[ReadRole'][s[1]]
         /\ UNCHANGED <<connState, prev, ring, bars>>
<1>1. rd' = [for |-> why, next |-> 1, todo |-> {}, sum |-> 0]
  BY DEF ReadBegins, NoRead
<1>2. rd' \in [for : {"none", "terminals", "apps", "minute"}, next : Nat \ {0},
               todo : SUBSET (Protos \X ConnID), sum : Nat]
  BY <1>1
<1>3. /\ rows' = {} /\ UNCHANGED <<connState, prev, ring, bars>>
      /\ stayed' = IF why = "minute" THEN {}
                   ELSE {x \in Protos \X ConnID : x[2] \in reg[IF why = "apps" THEN "app" ELSE "tmn"][x[1]]}
  BY DEF ReadBegins
<1>4. ReadRole' = IF why = "apps" THEN "app" ELSE "tmn"
  BY <1>1 DEF ReadRole
<1>5. rd'.for = why /\ rd'.next = 1
  BY <1>1
<1>6. stayed' \subseteq Protos \X ConnID
  BY <1>3
<1>7. why # "minute" => \A s \in stayed' : s[2] \in reg[ReadRole'][s[1]]
  BY <1>3, <1>4
<1> QED  BY <1>2, <1>3, <1>5, <1>6, <1>7

LEMMA DetailDoes ==
  ASSUME TabTypeOK, NEW c \in ConnID, NEW p \in Protos, Detail(p, c)
  PROVE  /\ rd' \in [for : {"none", "terminals", "apps", "minute"}, next : Nat \ {0},
                     todo : SUBSET (Protos \X ConnID), sum : Nat]
         /\ rd'.for = rd.for /\ rd'.next = rd.next /\ rd'.todo = rd.todo \ {<<p, c>>}
         /\ rd.for = "minute" => rows' = rows
         /\ rd.for # "minute" =>
              IF c \in open THEN rows' = rows \cup {RowOf(p, c, det[c])} /\ RowOf(p, c, det[c]) \in Row
                            ELSE rows' = rows
         /\ UNCHANGED <<connState, stayed, prev, ring, bars>>
<1>1. rd \in [for : {"none", "terminals", "apps", "minute"}, next : Nat \ {0},
              todo : SUBSET (Protos \X ConnID), sum : Nat]
  BY DEF TabTypeOK
<1>2. det[c].addr \in TermAddr \cup {NoAddr} /\ det[c].login \in Nat /\ det[c].bytes \in Nat
  <2>1. det[c] \in Detailed
    BY DEF TabTypeOK
  <2> QED  BY <2>1 DEF Detailed
<1>3. UNCHANGED <<connState, stayed, prev, ring, bars>>
  BY DEF Detail
<1>4. CASE rd.for = "minute"
  <2>1. PICK n \in Nat : rd' = [rd EXCEPT !.todo = @ \ {<<p, c>>}, !.sum = (@ + n) % WordSize]
    <3>1. PICK n \in connBytes(connDetailsOrEmpty(c)) :
            rd' = [rd EXCEPT !.todo = @ \ {<<p, c>>}, !.sum = (@ + n) % WordSize]
      BY <1>4 DEF Detail
    <3>2. n \in Nat
      BY <1>2 DEF connBytes, connDetailsOrEmpty
    <3> QED  BY <3>1, <3>2
  <2>2. PICK z \in Nat : z = rd.sum
    BY <1>1
  <2>3. PICK t \in SUBSET (Protos \X ConnID) : t = rd.todo \ {<<p, c>>}
    BY <1>1
  <2>4. ((z + n) % WordSize) \in Nat
    OBVIOUS
  <2>5. PICK y \in Nat : y = (z + n) % WordSize
    BY <2>4
  <2>6. rd' = [rd EXCEPT !.todo = t, !.sum = y]
    BY <1>1, <2>1, <2>2, <2>3, <2>5
  <2>7. rows' = rows
    BY <1>4 DEF Detail
  <2> QED  BY <1>1, <1>3, <1>4, <2>3, <2>6, <2>7
<1>5. CASE rd.for # "minute"
  <2>1. rd' = [rd EXCEPT !.todo = @ \ {<<p, c>>}]
    BY <1>5 DEF Detail
  <2>2. rows' = rows \cup {RowOf(p, c, d) : d \in connDetailsOrEmpty(c)}
    BY <1>5 DEF Detail
  <2>3. RowOf(p, c, det[c]) \in Row
    BY <1>2 DEF RowOf, Row
  <2>4. c \in open => rows' = rows \cup {RowOf(p, c, det[c])}
    BY <2>2 DEF connDetailsOrEmpty
  <2>5. c \notin open => rows' = rows
    BY <2>2 DEF connDetailsOrEmpty
  <2> QED  BY <1>1, <1>3, <1>5, <2>1, <2>3, <2>4, <2>5
<1> QED  BY <1>4, <1>5

(* A minute's or a list's end.                                             *)
LEMMA EndDoes ==
  ASSUME MinuteEnds \/ ListShown
  PROVE  /\ rd' = NoRead /\ rows' = {} /\ stayed' = {} /\ UNCHANGED connState
         /\ NoRead \in [for : {"none", "terminals", "apps", "minute"}, next : Nat \ {0},
                        todo : SUBSET (Protos \X ConnID), sum : Nat]
         /\ NoRead.for = "none"
BY DEF MinuteEnds, ListShown, NoRead

LEMMA ReadRows == TabTypeOK /\ RowsBounded /\ ReadStep => RowsBounded' /\ rows' \subseteq Row
<1> SUFFICES ASSUME TabTypeOK, RowsBounded, ReadStep PROVE RowsBounded' /\ rows' \subseteq Row
  OBVIOUS
<1>1. rows \subseteq Row
  BY DEF TabTypeOK
<1>2. CASE rows' = rows
  BY <1>1, <1>2 DEF RowsBounded
<1>3. CASE rows' = {}
  BY <1>3, FS_EmptySet DEF RowsBounded
<1>4. CASE Snapshot
  BY <1>2, <1>4, SnapshotDoes
<1>5. CASE MinuteEnds \/ ListShown
  BY <1>3, <1>5, EndDoes
<1>6. ASSUME NEW why \in {"terminals", "apps", "minute"}, ReadBegins(why)
      PROVE  RowsBounded' /\ rows' \subseteq Row
  BY <1>3, <1>6, BeginDoes
<1>7. ASSUME NEW c \in ConnID, NEW p \in Protos, Detail(p, c)
      PROVE  RowsBounded' /\ rows' \subseteq Row
  <2>1. rows' = rows \/ \E x \in Row : rows' = rows \cup {x}
    BY <1>7, DetailDoes
  <2>2. ASSUME NEW x \in Row, rows' = rows \cup {x}
        PROVE  RowsBounded' /\ rows' \subseteq Row
    <3>1. PICK b \in Nat : \A y \in rows : y.login <= b /\ y.id <= b
      BY DEF RowsBounded
    <3>2. x.login \in Nat /\ x.id \in Nat
      BY DEF Row
    <3>3. b + x.login + x.id \in Nat
      BY <3>2
    <3>4. PICK m \in Nat : m = b + x.login + x.id
      BY <3>3
    <3>5. b <= m /\ x.login <= m /\ x.id <= m
      BY <3>2, <3>4
    <3>6. ASSUME NEW y \in rows PROVE y.login <= m /\ y.id <= m
      <4>1. y.login \in Nat /\ y.id \in Nat
        BY <1>1 DEF Row
      <4>2. y.login <= b /\ y.id <= b
        BY <3>1
      <4> QED  BY <3>5, <4>1, <4>2
    <3>7. \A y \in rows' : y.login <= m /\ y.id <= m
      BY <2>2, <3>5, <3>6
    <3>8. IsFiniteSet(rows')
      BY <2>2, FS_AddElement DEF RowsBounded
    <3> QED  BY <1>1, <2>2, <3>7, <3>8 DEF RowsBounded
  <2> QED  BY <1>2, <2>1, <2>2
<1> QED  BY <1>4, <1>5, <1>6, <1>7 DEF ReadStep

LEMMA ListStays == TabTypeOK /\ Managed /\ StaysAwaited /\ ReadStep => StaysAwaited'
<1> SUFFICES ASSUME TabTypeOK, Managed, StaysAwaited, ReadStep, Listing', NEW s \in stayed'
             PROVE  s[2] \in reg'[ReadRole'][s[1]] /\ Awaited(s)'
  BY DEF StaysAwaited
<1>0. UNCHANGED reg
  BY ReadFrame DEF connState
<1>1. CASE Snapshot
  <2>1. /\ rd.next \in 1..Len(Proto) /\ rd'.for = rd.for /\ rd'.next = rd.next + 1
        /\ rd'.todo = rd.todo \cup ({Proto[rd.next]} \X reg[ReadRole][Proto[rd.next]])
        /\ UNCHANGED <<rows, stayed>>
    BY <1>1, SnapshotDoes
  <2>2. Listing /\ ReadRole' = ReadRole
    BY <2>1 DEF Listing, ReadRole
  <2>3. s[2] \in reg[ReadRole][s[1]] /\ Awaited(s) /\ s \in Protos \X ConnID
    BY <2>1, <2>2 DEF StaysAwaited, TabTypeOK
  <2>4. CASE \E n \in rd.next..Len(Proto) : Proto[n] = s[1]
    <3>1. PICK n \in rd.next..Len(Proto) : Proto[n] = s[1]
      BY <2>4
    <3>2. CASE n = rd.next
      <4>1. s \in {Proto[rd.next]} \X reg[ReadRole][Proto[rd.next]]
        BY <2>3, <3>1, <3>2
      <4> QED  BY <1>0, <2>1, <2>2, <2>3, <4>1 DEF Awaited
    <3>3. CASE n # rd.next
      <4>1. n \in rd'.next..Len(Proto)
        BY <2>1, <3>3
      <4> QED  BY <1>0, <2>2, <2>3, <3>1, <4>1 DEF Awaited
    <3> QED  BY <3>2, <3>3
  <2>5. CASE s \in rd.todo
    BY <1>0, <2>1, <2>2, <2>3, <2>5 DEF Awaited
  <2>6. CASE \E x \in rows : x.proto = s[1] /\ x.id = s[2]
    BY <1>0, <2>1, <2>2, <2>3, <2>6 DEF Awaited
  <2> QED  BY <2>3, <2>4, <2>5, <2>6 DEF Awaited
<1>2. CASE MinuteEnds \/ ListShown
  <2>1. rd'.for = "none"
    BY <1>2, EndDoes
  <2> QED  BY <2>1 DEF Listing
<1>3. ASSUME NEW why \in {"terminals", "apps", "minute"}, ReadBegins(why)
      PROVE  s[2] \in reg'[ReadRole'][s[1]] /\ Awaited(s)'
  <2>1. /\ rd'.for = why /\ rd'.next = 1 /\ stayed' \subseteq Protos \X ConnID
        /\ why # "minute" => \A x \in stayed' : x[2] \in reg[ReadRole'][x[1]]
    BY <1>3, BeginDoes
  <2>2. why # "minute"
    BY <2>1 DEF Listing
  <2>3. s[2] \in reg'[ReadRole'][s[1]] /\ s[1] \in Protos
    BY <1>0, <2>1, <2>2
  <2>4. \E n \in 1..Len(Proto) : Proto[n] = s[1]
    BY <2>3, ReaderTypes
  <2> QED  BY <2>1, <2>3, <2>4 DEF Awaited
<1>4. ASSUME NEW c \in ConnID, NEW p \in Protos, Detail(p, c)
      PROVE  s[2] \in reg'[ReadRole'][s[1]] /\ Awaited(s)'
  <2>1. /\ rd'.for = rd.for /\ rd'.next = rd.next /\ rd'.todo = rd.todo \ {<<p, c>>}
        /\ rd.for # "minute" => IF c \in open THEN rows' = rows \cup {RowOf(p, c, det[c])} ELSE rows' = rows
        /\ UNCHANGED stayed
    BY <1>4, DetailDoes
  <2>2. Listing /\ ReadRole' = ReadRole /\ rd.for # "minute" /\ ReadRole \in ConnRole
    BY <2>1 DEF Listing, ReadRole, ConnRole
  <2>3. s[2] \in reg[ReadRole][s[1]] /\ Awaited(s) /\ s \in Protos \X ConnID
    BY <2>1, <2>2 DEF StaysAwaited, TabTypeOK
  <2>4. rows \subseteq rows'
    BY <2>1, <2>2
  <2>5. CASE s = <<p, c>>
    <3>1. c \in open
      BY <2>2, <2>3, <2>5 DEF Managed
    <3>2. RowOf(p, c, det[c]) \in rows'
      BY <2>1, <2>2, <3>1
    <3>3. RowOf(p, c, det[c]).proto = s[1] /\ RowOf(p, c, det[c]).id = s[2]
      BY <2>5 DEF RowOf
    <3>4. \E x \in rows' : x.proto = s[1] /\ x.id = s[2]
      BY <3>2, <3>3
    <3> QED  BY <1>0, <2>2, <2>3, <3>4 DEF Awaited
  <2>6. CASE s # <<p, c>>
    <3>1. Awaited(s)'
      BY <2>1, <2>3, <2>4, <2>6 DEF Awaited
    <3> QED  BY <1>0, <2>2, <2>3, <3>1
  <2> QED  BY <2>5, <2>6
<1> QED  BY <1>1, <1>2, <1>3, <1>4 DEF ReadStep

HIDE TablesAssumption

LEMMA Minutes == TrafficMinBuckets \in Nat /\ TrafficMinBuckets >= 1
  BY TablesAssumption

(* The last elements of s, as many as there is room for, and then v.       *)
LastAnd(r, s, v) ==
  /\ r \in Seq(Nat)
  /\ Len(r) = (IF Len(s) < TrafficMinBuckets THEN Len(s) + 1 ELSE TrafficMinBuckets)
  /\ r[Len(r)] = v
  /\ \A i \in 1..(Len(r) - 1) : r[i] = s[Len(s) - Len(r) + 1 + i]

LEMMA Pushed ==
  ASSUME NEW s \in Seq(Nat), NEW v \in Nat, Len(s) <= TrafficMinBuckets,
         NEW r, r = pushRing15(s, v)
  PROVE  LastAnd(r, s, v)
<1>1. PICK l \in Nat, m \in Nat : l = Len(s) /\ m = TrafficMinBuckets /\ m >= 1 /\ l <= m
  BY Minutes
<1>2. PICK t \in Seq(Nat) : t = Append(s, v)
  BY AppendProperties
<1>3. /\ Len(t) = l + 1 /\ t[l + 1] = v
      /\ \A i \in 1..l : t[i] = s[i]
  BY <1>1, <1>2, AppendProperties
<1>4. r = IF Len(t) > m THEN SubSeq(t, Len(t) - m + 1, Len(t)) ELSE t
  BY <1>1, <1>2 DEF pushRing15
<1>5. CASE l < m
  <2>1. r = t /\ Len(r) = l + 1
    BY <1>3, <1>4, <1>5
  <2>2. ASSUME NEW i \in 1..l PROVE r[i] = s[l - (l + 1) + 1 + i]
    <3>1. l - (l + 1) + 1 + i = i
      OBVIOUS
    <3> QED  BY <1>3, <2>1, <3>1
  <2>3. Len(r) - 1 = l
    BY <2>1
  <2> QED  BY <1>1, <1>2, <1>3, <1>5, <2>1, <2>2, <2>3 DEF LastAnd
<1>6. CASE l = m
  <2>1. Len(t) > m /\ Len(t) - m + 1 = 2 /\ Len(t) = m + 1
    BY <1>3, <1>6
  <2>2. r = SubSeq(t, 2, m + 1)
    BY <1>4, <2>1
  <2>3. r \in Seq(Nat) /\ Len(r) = m /\ \A i \in 1..m : r[i] = t[i + 1]
    <3>1. \A k \in 2..(m + 1) : t[k] \in Nat
      BY <2>1
    <3>2. /\ SubSeq(t, 2, m + 1) \in Seq(Nat)
          /\ Len(SubSeq(t, 2, m + 1)) = (IF 2 <= m + 1 THEN m + 1 - 2 + 1 ELSE 0)
          /\ \A i \in 1..(m + 1 - 2 + 1) : SubSeq(t, 2, m + 1)[i] = t[2 + i - 1]
      BY <3>1, SubSeqProperties
    <3>3. m + 1 - 2 + 1 = m /\ 2 <= m + 1 /\ \A i \in 1..m : 2 + i - 1 = i + 1
      BY <1>1
    <3> QED  BY <2>2, <3>2, <3>3
  <2>4. r[m] = v
    BY <1>1, <1>3, <1>6, <2>3
  <2>5. ASSUME NEW i \in 1..(m - 1) PROVE r[i] = s[m - m + 1 + i]
    <3>1. i \in 1..m /\ i + 1 \in 1..l /\ m - m + 1 + i = i + 1
      BY <1>6
    <3>2. PICK j \in 1..l : j = i + 1
      BY <3>1
    <3>3. t[j] = s[j]
      BY <1>3
    <3> QED  BY <2>3, <3>1, <3>2, <3>3
  <2> QED  BY <1>1, <1>6, <2>3, <2>4, <2>5 DEF LastAnd
<1> QED  BY <1>1, <1>5, <1>6

LEMMA Least ==
  ASSUME NEW S, S \subseteq Nat, S # {}
  PROVE  \E m \in S : \A k \in S : m <= k
<1> DEFINE R == {p \in Nat \X Nat : p[1] < p[2]}
<1>1. IsWellFoundedOn(R, Nat)
  BY NatLessThanWellFounded DEF OpToRel
<1>2. PICK m \in S : \A k \in S : ~(<<k, m>> \in R)
  <2> HIDE DEF R
  <2> QED  BY <1>1, WFMin
<1>3. ASSUME NEW k \in S PROVE m <= k
  <2>1. ~(k < m) /\ k \in Nat /\ m \in Nat
    BY <1>2
  <2> HIDE DEF R
  <2> QED  BY <2>1
<1> QED  BY <1>3

LEMMA MinuteDoes ==
  ASSUME TabTypeOK, MinuteEnds
  PROVE  /\ prev' \in Nat
         /\ \/ UNCHANGED <<ring, bars>>
            \/ \E b \in Bar : b.fits = TRUE /\ ring' = pushRing15(ring, b.bar) /\ bars' = Append(bars, b)
<1>1. PICK total \in Nat : total = rd.sum
  BY ReaderTypes
<1>2. prev' = total
  BY <1>1 DEF MinuteEnds
<1>3. CASE prev = -1
  BY <1>2, <1>3 DEF MinuteEnds
<1>4. CASE prev # -1
  <2>1. PICK last \in Nat : last = prev
    BY <1>4 DEF TabTypeOK
  <2>2. u64sub(total, last) \in Nat /\ u64sub(total, last) <= total
    BY DEF u64sub
  <2>3. PICK n \in Nat : n = u64sub(total, last) /\ n <= total
    BY <2>2
  <2>4. ring' = pushRing15(ring, n) /\ bars' = Append(bars, [bar |-> n, fits |-> n <= total])
    BY <1>1, <1>4, <2>1, <2>3 DEF MinuteEnds
  <2>5. (n <= total) = TRUE
    BY <2>3
  <2>6. [bar |-> n, fits |-> n <= total] = [bar |-> n, fits |-> TRUE]
    BY <2>5, Zenon
  <2>7. PICK b \in Bar : b = [bar |-> n, fits |-> TRUE]
    BY DEF Bar
  <2>8. b.bar = n /\ b.fits = TRUE
    BY <2>7
  <2>9. bars' = Append(bars, b)
    BY <2>4, <2>6, <2>7
  <2> QED  BY <1>2, <2>4, <2>8, <2>9
<1> QED  BY <1>3, <1>4

LEMMA RingStep ==
  ASSUME TabTypeOK, RingIsLast, NEW b \in Bar, b.fits = TRUE,
         ring' = pushRing15(ring, b.bar), bars' = Append(bars, b)
  PROVE  ring' \in Seq(Nat) /\ bars' \in Seq(Bar) /\ RingIsLast'
<1> USE Minutes
<1>1. /\ ring \in Seq(Nat) /\ bars \in Seq(Bar) /\ Len(ring) \in Nat /\ Len(bars) \in Nat
      /\ Len(ring) = (IF Len(bars) < TrafficMinBuckets THEN Len(bars) ELSE TrafficMinBuckets)
      /\ Len(ring) <= TrafficMinBuckets
  BY DEF TabTypeOK, RingIsLast
<1>2. b.bar \in Nat
  BY DEF Bar
<1>3. PICK v \in Nat : v = b.bar
  BY <1>2
<1>4. /\ bars' \in Seq(Bar) /\ Len(bars') = Len(bars) + 1 /\ bars'[Len(bars) + 1] = b
      /\ \A i \in 1..Len(bars) : bars'[i] = bars[i]
  BY <1>1, AppendProperties
<1>5. PICK r : r = pushRing15(ring, v)
  OBVIOUS
<1>6. /\ r \in Seq(Nat)
      /\ Len(r) = (IF Len(ring) < TrafficMinBuckets THEN Len(ring) + 1 ELSE TrafficMinBuckets)
      /\ r[Len(r)] = v
      /\ \A i \in 1..(Len(r) - 1) : r[i] = ring[Len(ring) - Len(r) + 1 + i]
  <2>1. LastAnd(r, ring, v)
    BY <1>1, <1>5, Pushed
  <2> QED  BY <2>1 DEF LastAnd
<1>7. ring' = r /\ Len(r) \in Nat
  BY <1>3, <1>5, <1>6
<1>8. Len(r) = (IF Len(bars') < TrafficMinBuckets THEN Len(bars') ELSE TrafficMinBuckets)
  BY <1>1, <1>4, <1>6
<1>9. \A i \in 1..Len(bars') : bars'[i].fits
  <2> TAKE i \in 1..Len(bars')
  <2>1. CASE i = Len(bars) + 1
    BY <1>4, <2>1
  <2>2. CASE i \in 1..Len(bars)
    BY <1>4, <2>2 DEF RingIsLast
  <2> QED  BY <1>1, <1>4, <2>1, <2>2
<1>10. ASSUME NEW i \in 1..Len(r) PROVE r[i] = bars'[Len(bars') - Len(r) + i].bar
  <2>1. CASE i = Len(r)
    <3>1. Len(bars') - Len(r) + i = Len(bars) + 1
      BY <1>1, <1>4, <1>7, <2>1
    <3> QED  BY <1>3, <1>4, <1>6, <2>1, <3>1
  <2>2. CASE i # Len(r)
    <3>1. i \in 1..(Len(r) - 1)
      BY <1>7, <2>2
    <3>0. PICK l \in Nat, m \in Nat, w \in Nat : l = Len(ring) /\ m = Len(r) /\ w = Len(bars)
      BY <1>1, <1>7
    <3>2. l - m + 1 + i \in 1..l /\ l <= w
      <4>1. m >= 1 /\ (m = l + 1 \/ m = l) /\ l <= w
        BY <1>1, <1>6, <3>0
      <4>2. i >= 1 /\ i <= m - 1 /\ i \in Int
        BY <3>0, <3>1
      <4> QED  BY <4>1, <4>2
    <3>3. PICK j \in 1..Len(ring) : j = l - m + 1 + i
      BY <3>0, <3>2
    <3>4. r[i] = ring[j]
      BY <1>6, <3>0, <3>1, <3>3
    <3>5. ring[j] = bars[Len(bars) - Len(ring) + j].bar
      BY DEF RingIsLast
    <3>6. w - l + j \in 1..w
      BY <3>0, <3>2, <3>3
    <3>7. PICK k \in 1..w : k = w - l + j
      BY <3>6
    <3>8. k = (w + 1) - m + i
      BY <3>3, <3>7
    <3>9. bars'[k] = bars[k]
      BY <1>4, <3>0
    <3>10. Len(bars') - Len(r) + i = k
      BY <1>4, <3>0, <3>8
    <3> QED  BY <3>0, <3>4, <3>5, <3>7, <3>9, <3>10
  <2> QED  BY <2>1, <2>2
<1> QED  BY <1>4, <1>6, <1>7, <1>8, <1>9, <1>10 DEF RingIsLast

USE TablesAssumption

LEMMA ReadKeeps == TabInv /\ ReadStep => TabTypeOK' /\ RingIsLast'
<1> SUFFICES ASSUME TabInv, ReadStep PROVE TabTypeOK' /\ RingIsLast'
  OBVIOUS
<1>1. TabTypeOK /\ RowsBounded /\ RingIsLast
  BY DEF TabInv
<1>2. UNCHANGED connState /\ rows' \subseteq Row
  BY <1>1, ReadFrame, ReadRows
<1>3. /\ reg' \in [ConnRole -> [Protos -> SUBSET ConnID]] /\ open' \subseteq ConnID
      /\ det' \in [ConnID -> Detailed]
  BY <1>1, <1>2 DEF TabTypeOK, connState
<1>4. \/ prev' \in Nat /\ \E b \in Bar : b.fits = TRUE /\ ring' = pushRing15(ring, b.bar) /\ bars' = Append(bars, b)
      \/ prev' \in Nat \cup {-1} /\ UNCHANGED <<ring, bars>>
  <2>1. CASE MinuteEnds
    BY <1>1, <2>1, MinuteDoes
  <2>2. CASE UNCHANGED <<prev, ring, bars>>
    BY <1>1, <2>2 DEF TabTypeOK
  <2>3. CASE Snapshot \/ ListShown
    BY <2>2, <2>3 DEF Snapshot, ListShown
  <2>4. ASSUME NEW why \in {"terminals", "apps", "minute"}, ReadBegins(why) PROVE UNCHANGED <<prev, ring, bars>>
    BY <2>4 DEF ReadBegins
  <2>5. ASSUME NEW c \in ConnID, NEW p \in Protos, Detail(p, c) PROVE UNCHANGED <<prev, ring, bars>>
    BY <2>5 DEF Detail
  <2> QED  BY <2>1, <2>2, <2>3, <2>4, <2>5 DEF ReadStep
<1>5. prev' \in Nat \cup {-1} /\ ring' \in Seq(Nat) /\ bars' \in Seq(Bar) /\ RingIsLast'
  <2>1. CASE UNCHANGED <<ring, bars>>
    BY <1>1, <1>4, <2>1 DEF TabTypeOK, RingIsLast
  <2>2. ASSUME NEW b \in Bar, b.fits = TRUE, ring' = pushRing15(ring, b.bar), bars' = Append(bars, b)
        PROVE  ring' \in Seq(Nat) /\ bars' \in Seq(Bar) /\ RingIsLast'
    BY <1>1, <2>2, RingStep
  <2> QED  BY <1>4, <2>1, <2>2
<1>6. /\ rd' \in [for : {"none", "terminals", "apps", "minute"}, next : Nat \ {0},
                  todo : SUBSET (Protos \X ConnID), sum : Nat]
      /\ stayed' \subseteq Protos \X ConnID
  <2>0. stayed \subseteq Protos \X ConnID
    BY <1>1, ReaderTypes
  <2>1. CASE Snapshot
    BY <1>1, <2>0, <2>1, SnapshotDoes
  <2>2. CASE MinuteEnds \/ ListShown
    BY <2>2, EndDoes
  <2>3. ASSUME NEW why \in {"terminals", "apps", "minute"}, ReadBegins(why)
        PROVE  /\ rd' \in [for : {"none", "terminals", "apps", "minute"}, next : Nat \ {0},
                           todo : SUBSET (Protos \X ConnID), sum : Nat]
               /\ stayed' \subseteq Protos \X ConnID
    BY <1>1, <2>3, BeginDoes
  <2>4. ASSUME NEW c \in ConnID, NEW p \in Protos, Detail(p, c)
        PROVE  /\ rd' \in [for : {"none", "terminals", "apps", "minute"}, next : Nat \ {0},
                           todo : SUBSET (Protos \X ConnID), sum : Nat]
               /\ stayed' \subseteq Protos \X ConnID
    BY <1>1, <2>0, <2>4, DetailDoes
  <2> QED  BY <2>1, <2>2, <2>3, <2>4 DEF ReadStep
<1> QED  BY <1>2, <1>3, <1>5, <1>6 DEF TabTypeOK

LEMMA TabStep == TabInv /\ [TabNext]_tabVars => TabInv'
<1> SUFFICES ASSUME TabInv, [TabNext]_tabVars PROVE TabInv'
  OBVIOUS
<1>1. TabTypeOK /\ Managed /\ StaysAwaited /\ RowsBounded /\ RingIsLast
  BY DEF TabInv
<1>2. CASE UNCHANGED tabVars
  BY <1>1, <1>2 DEF tabVars, TabInv, TabTypeOK, Managed, StaysAwaited, RowsBounded, RingIsLast,
                    Listing, ReadRole, Awaited
<1>3. CASE ConnStep
  <2>1. TabTypeOK' /\ Managed' /\ StaysAwaited'
    BY <1>1, <1>3, ConnTypes, ConnManaged, ConnStays
  <2>2. RowsBounded' /\ RingIsLast'
    BY <1>1, <1>3, ConnFrame DEF RowsBounded, RingIsLast
  <2> QED  BY <2>1, <2>2 DEF TabInv
<1>4. CASE ReadStep
  <2>1. TabTypeOK' /\ RingIsLast' /\ RowsBounded' /\ StaysAwaited'
    BY <1>1, <1>4, ReadKeeps, ReadRows, ListStays
  <2>2. Managed'
    BY <1>1, <1>4, ReadFrame DEF Managed, connState
  <2> QED  BY <2>1, <2>2 DEF TabInv
<1> QED  BY <1>2, <1>3, <1>4, TabSteps

(* Among the rows of a terminal one is shown, and none has logged in later.*)
LEMMA LatestRow ==
  ASSUME rows \subseteq Row, RowsBounded, NEW x \in rows
  PROVE  \E y \in Collapsed(rows, FALSE) : SameTerminal(x, y) /\ y.login >= x.login
<1>1. PICK b \in Nat : \A z \in rows : z.login <= b /\ z.id <= b
  BY DEF RowsBounded
<1>2. \A z \in rows : z.login \in Nat /\ z.id \in Nat
  BY DEF Row
<1> DEFINE C == {z \in rows : SameTerminal(x, z) /\ z.login >= x.login}
           D == {n \in Nat : \E z \in C : n = b - z.login}
<1>3. x \in C
  BY <1>2 DEF SameTerminal
<1>4. D # {}
  <2>1. b - x.login \in Nat
    BY <1>1, <1>2
  <2> QED  BY <1>3, <2>1
<1>5. PICK m \in D : \A n \in D : m <= n
  <2>1. D \subseteq Nat
    OBVIOUS
  <2> HIDE DEF D
  <2> QED  BY <1>4, <2>1, Least
<1>6. PICK u \in C : m = b - u.login
  BY <1>5
<1> DEFINE E == {n \in Nat : \E z \in C : z.login = u.login /\ n = b - z.id}
<1>7. E # {}
  <2>1. b - u.id \in Nat
    BY <1>1, <1>2
  <2> QED  BY <2>1
<1>8. PICK l \in E : \A n \in E : l <= n
  <2>1. E \subseteq Nat
    OBVIOUS
  <2> HIDE DEF E
  <2> QED  BY <1>7, <2>1, Least
<1>9. PICK y \in C : y.login = u.login /\ l = b - y.id
  BY <1>8
<1>10. ASSUME NEW z \in rows, SameTerminal(y, z), Better(z, y) PROVE FALSE
  <2>1. /\ z.login \in Nat /\ z.id \in Nat /\ y.login \in Nat /\ y.id \in Nat /\ u.login \in Nat
        /\ x.login \in Nat /\ z.login <= b /\ z.id <= b
    BY <1>1, <1>2
  <2>2. SameTerminal(x, z)
    BY <1>10 DEF SameTerminal
  <2>3. z.login > y.login \/ (z.login = y.login /\ z.id > y.id)
    BY <1>10 DEF Better
  <2>4. z.login >= x.login
    BY <2>1, <2>3
  <2>5. z \in C
    BY <2>2, <2>4
  <2>6. CASE z.login > y.login
    <3>1. b - z.login \in D
      BY <2>1, <2>5
    <3>2. m <= b - z.login
      BY <1>5, <3>1
    <3>3. m = b - u.login /\ y.login = u.login
      BY <1>6, <1>9
    <3> HIDE DEF C, D, E
    <3> QED  BY <2>1, <2>6, <3>2, <3>3
  <2>7. CASE z.login = y.login /\ z.id > y.id
    <3>1. b - z.id \in E
      BY <1>9, <2>1, <2>5, <2>7
    <3>2. l <= b - z.id
      BY <1>8, <3>1
    <3>3. l = b - y.id
      BY <1>9
    <3> HIDE DEF C, D, E
    <3> QED  BY <2>1, <2>7, <3>2, <3>3
  <2> QED  BY <2>3, <2>6, <2>7
<1>11. y \in Collapsed(rows, FALSE)
  BY <1>10 DEF Collapsed
<1> QED  BY <1>11

(* The first part of ListComplete: while connections come, log in and go,  *)
(* a list has a row for each that stays (fepWebTerminalRows,               *)
(* fepWebAppRows), or a later one of the same terminal.                    *)
THEOREM StayersAreShown ==
  TabSpec => [](ReadDone /\ rd.for \in {"terminals", "apps"} => StayedShown)
<1>1. ASSUME TabInv PROVE ReadDone /\ rd.for \in {"terminals", "apps"} => StayedShown
  <2> SUFFICES ASSUME ReadDone, rd.for \in {"terminals", "apps"}, NEW s \in stayed
               PROVE  \E x \in rows :
                        /\ x.proto = s[1] /\ x.id = s[2]
                        /\ \E y \in Collapsed(rows, FALSE) : SameTerminal(x, y) /\ y.login >= x.login
    BY DEF StayedShown
  <2>1. TabTypeOK /\ StaysAwaited /\ RowsBounded
    BY <1>1 DEF TabInv
  <2>2. Awaited(s)
    BY <2>1 DEF StaysAwaited, Listing
  <2>3. rd.next > Len(Proto) /\ rd.todo = {} /\ rd.next \in Nat /\ Len(Proto) \in Nat /\ rows \subseteq Row
    BY <2>1, ReaderTypes DEF ReadDone
  <2>4. ~\E n \in rd.next..Len(Proto) : Proto[n] = s[1]
    BY <2>3
  <2>5. PICK x \in rows : x.proto = s[1] /\ x.id = s[2]
    BY <2>2, <2>3, <2>4 DEF Awaited
  <2> QED  BY <2>1, <2>3, <2>5, LatestRow
<1> QED  BY <1>1, TabInitInv, TabStep, PTL DEF TabSpec

HIDE TablesAssumption

LEMMA Quotient ==
  ASSUME NEW x \in Nat, NEW d \in Nat \ {0}
  PROVE  x \div d \in Nat /\ x % d \in 0..(d - 1) /\ x = (x \div d) * d + (x % d)
OBVIOUS

LEMMA Times ==
  ASSUME NEW a \in Nat, NEW b \in Nat, NEW c \in Nat, a <= b
  PROVE  a * c \in Nat /\ b * c \in Nat /\ a * c <= b * c
OBVIOUS

LEMMA Succ ==
  ASSUME NEW a \in Int, NEW c \in Int
  PROVE  (a + 1) * c = a * c + c /\ (a - 1) * c = a * c - c
OBVIOUS

(* The last page begins before the end of the rows and reaches it.         *)
LEMMA LastPage ==
  ASSUME NEW R, NEW all \in Seq(R), NEW size \in Nat \ {0}
  PROVE  \E last \in Nat \ {0}, l \in Nat :
           /\ last = maxPage(all, size) /\ l = Len(all)
           /\ (last - 1) * size \in Nat /\ last * size = (last - 1) * size + size
           /\ (last - 1) * size <= l /\ l <= last * size
           /\ l > 0 => (last - 1) * size < l
<1>1. PICK l \in Nat : l = Len(all)
  OBVIOUS
<1>2. CASE l = 0
  <2>1. maxPage(all, size) = 1
    BY <1>1, <1>2 DEF maxPage
  <2> QED  BY <1>1, <1>2, <2>1
<1>3. CASE l > 0
  <2>1. l - 1 \in Nat
    BY <1>3
  <2>2. PICK q \in Nat, r \in 0..(size - 1) : l - 1 = q * size + r
    BY <2>1, Quotient
  <2>3. PICK m : m = (l + size - 1) \div size
    OBVIOUS
  <2>4. m = q + 1
    <3>1. l + size - 1 = (q + 1) * size + r
      BY <2>2, Succ
    <3>2. l + size - 1 \in Nat
      BY <1>3
    <3>3. PICK x \in Nat : x = l + size - 1
      BY <3>2
    <3>4. /\ m \in Nat /\ x = m * size + (x % size) /\ x % size \in 0..(size - 1)
      BY <2>3, <3>3, Quotient
    <3>5. PICK u \in Nat : u = x % size /\ u < size
      BY <3>4
    <3>6. x = m * size + u /\ x = (q + 1) * size + r /\ m * size \in Nat /\ q * size \in Nat
      BY <3>1, <3>3, <3>4, <3>5
    <3>7. ~(m < q + 1)
      <4> SUFFICES ASSUME m + 1 <= q + 1 PROVE FALSE
        BY <3>4
      <4>1. (m + 1) * size <= (q + 1) * size
        BY <3>4, Times
      <4>2. (m + 1) * size = m * size + size
        BY <3>4, Succ
      <4>3. PICK a \in Nat, b \in Nat : a = m * size /\ b = (q + 1) * size
        BY <3>4, Times
      <4>4. a + size <= b
        BY <4>1, <4>2, <4>3
      <4>5. a + u = b + r
        BY <3>6, <4>3
      <4> QED  BY <3>5, <4>4, <4>5
    <3>8. ~(q + 1 < m)
      <4> SUFFICES ASSUME q + 1 + 1 <= m PROVE FALSE
        BY <3>4
      <4>1. (q + 1 + 1) * size <= m * size
        BY <3>4, Times
      <4>2. (q + 1 + 1) * size = (q + 1) * size + size
        BY Succ
      <4>3. PICK a \in Nat, b \in Nat : a = m * size /\ b = (q + 1) * size
        BY <3>4, Times
      <4>4. b + size <= a
        BY <4>1, <4>2, <4>3
      <4>5. a + u = b + r /\ r < size
        BY <2>2, <3>6, <4>3
      <4> QED  BY <4>4, <4>5
    <3> QED  BY <3>4, <3>7, <3>8
  <2>5. maxPage(all, size) = q + 1
    BY <1>1, <1>3, <2>3, <2>4 DEF maxPage
  <2>6. (q + 1) * size = q * size + size /\ q * size \in Nat
    BY Succ
  <2>7. PICK a \in Nat : a = q * size
    BY <2>6
  <2>8. PICK last \in Nat \ {0} : last = q + 1
    OBVIOUS
  <2>9. last * size = a + size /\ (last - 1) * size = a
    <3>1. last - 1 = q
      BY <2>8
    <3> QED  BY <2>6, <2>7, <2>8, <3>1
  <2>10. a < l /\ l <= a + size
    BY <2>2, <2>7
  <2>11. /\ last = maxPage(all, size) /\ l = Len(all)
         /\ (last - 1) * size \in Nat /\ last * size = (last - 1) * size + size
         /\ (last - 1) * size <= l /\ l <= last * size
         /\ l > 0 => (last - 1) * size < l
    <3>1. last = maxPage(all, size) /\ (last - 1) * size \in Nat
      BY <2>5, <2>8, <2>9
    <3>2. /\ last * size = (last - 1) * size + size
          /\ (last - 1) * size < l /\ l <= last * size
      BY <2>9, <2>10
    <3>3. (last - 1) * size <= l
      BY <3>1, <3>2
    <3> QED  BY <1>1, <3>1, <3>2, <3>3
  <2> QED  BY <2>11
<1> QED  BY <1>2, <1>3

(* Page n is the rows from (n - 1) * size on.                              *)
PageAt(all, n, size, a, l, e) ==
  /\ n <= maxPage(all, size) /\ a = (n - 1) * size /\ l = Len(all) /\ a <= l
  /\ e = IF a + size > l THEN l ELSE a + size

PageIs(all, n, size, a, e) ==
  /\ Len(pageOf(all, n, size)) = e - a
  /\ \A i \in 1..(e - a) : pageOf(all, n, size)[i] = all[a + i]

LEMMA PageHolds ==
  ASSUME NEW R, NEW all \in Seq(R), NEW size \in Nat \ {0}, NEW n \in Nat \ {0},
         NEW a \in Nat, NEW l \in Nat, NEW e \in Nat,
         PageAt(all, n, size, a, l, e)
  PROVE  PageIs(all, n, size, a, e)
<1> USE DEF PageAt
<1>1. a <= e /\ e <= l
  OBVIOUS
<1>2. PICK last \in Nat \ {0} : last = maxPage(all, size)
  BY LastPage
<1>3. (IF n > maxPage(all, size) THEN maxPage(all, size) ELSE n) = n
  BY <1>2
<1>4. PICK s : s = pageOf(all, n, size)
  OBVIOUS
<1>5. s = SubSeq(all, a + 1, e)
  BY <1>1, <1>3, <1>4 DEF pageOf
<1>6. PICK b \in Nat : b = a + 1
  OBVIOUS
<1>7. \A i \in b..e : all[i] \in R
  BY <1>1, <1>6
<1>8. /\ Len(SubSeq(all, b, e)) = (IF b <= e THEN e - b + 1 ELSE 0)
      /\ \A i \in 1..(e - b + 1) : SubSeq(all, b, e)[i] = all[b + i - 1]
  BY <1>7, SubSeqProperties
<1>9. e - b + 1 = e - a /\ (b <= e <=> e > a) /\ \A i \in Int : b + i - 1 = a + i
  BY <1>1, <1>6
<1>10. Len(s) = e - a
  <2>1. Len(s) = (IF b <= e THEN e - b + 1 ELSE 0)
    BY <1>5, <1>6, <1>8
  <2>2. a <= e
    BY <1>1
  <2>3. CASE b <= e
    BY <1>6, <2>1, <2>3
  <2>4. CASE ~(b <= e)
    <3>1. e - a = 0
      BY <1>6, <2>2, <2>4
    <3> QED  BY <2>1, <2>4, <3>1
  <2> QED  BY <2>3, <2>4
<1>11. \A i \in 1..(e - a) : s[i] = all[a + i]
  BY <1>5, <1>6, <1>8, <1>9
<1> QED  BY <1>4, <1>10, <1>11 DEF PageIs

LEMMA PagesAreWhole ==
  ASSUME NEW R, NEW all \in Seq(R), NEW size \in Nat \ {0}
  PROVE  PagedWhole(all, size)
<1>1. PICK last \in Nat \ {0}, l \in Nat :
        /\ last = maxPage(all, size) /\ l = Len(all)
        /\ (last - 1) * size \in Nat /\ last * size = (last - 1) * size + size
        /\ (last - 1) * size <= l /\ l <= last * size
        /\ l > 0 => (last - 1) * size < l
  BY LastPage
<1>2. PICK z \in Nat : z = (last - 1) * size /\ z <= l /\ l <= z + size
  BY <1>1
<1>3. ASSUME NEW n \in 1..last
      PROVE  \E a \in Nat :
               /\ a = (n - 1) * size /\ a <= z /\ (n < last => a + size <= z) /\ (n = last => a = z)
  <2>1. n - 1 \in Nat /\ last - 1 \in Nat /\ n - 1 <= last - 1
    OBVIOUS
  <2>2. (n - 1) * size \in Nat /\ (n - 1) * size <= (last - 1) * size
    BY <2>1, Times
  <2>3. PICK a \in Nat : a = (n - 1) * size /\ a <= z
    BY <1>2, <2>2
  <2>4. CASE n < last
    <3>1. n \in Nat /\ n <= last - 1
      BY <2>4
    <3>2. n * size <= (last - 1) * size
      BY <2>1, <3>1, Times
    <3>3. ((n - 1) + 1) * size = (n - 1) * size + size /\ (n - 1) + 1 = n
      BY <2>1, Succ
    <3>4. a + size <= z
      BY <1>2, <2>3, <3>2, <3>3
    <3> QED  BY <2>3, <2>4, <3>4
  <2>5. CASE n = last
    BY <1>2, <2>3, <2>5
  <2> QED  BY <2>4, <2>5
<1>4. ASSUME NEW n \in 1..last
      PROVE  Len(pageOf(all, n, size)) = IF n < last THEN size ELSE Len(all) - (last - 1) * size
  <2>1. PICK a \in Nat : /\ a = (n - 1) * size /\ a <= z /\ (n < last => a + size <= z)
                         /\ (n = last => a = z)
    BY <1>3
  <2>2. PICK e \in Nat : e = (IF a + size > l THEN l ELSE a + size)
    OBVIOUS
  <2>3. Len(pageOf(all, n, size)) = e - a
    <3>1. n \in Nat \ {0} /\ n <= maxPage(all, size) /\ a <= l
      BY <1>1, <1>2, <2>1
    <3>2. l = Len(all) /\ a = (n - 1) * size
      BY <1>1, <2>1
    <3>3. PageIs(all, n, size, a, e)
      <4>1. PageAt(all, n, size, a, l, e)
        BY <2>2, <3>1, <3>2 DEF PageAt
      <4> QED  BY <3>1, <4>1, PageHolds
    <3> QED  BY <3>3 DEF PageIs
  <2>4. CASE n < last
    <3>1. e - a = size
      BY <1>2, <2>1, <2>2, <2>4
    <3> QED  BY <2>3, <2>4, <3>1
  <2>5. CASE n = last
    <3>1. e - a = l - z
      BY <1>2, <2>1, <2>2, <2>5
    <3>2. l - z = Len(all) - (last - 1) * size
      BY <1>1, <1>2
    <3> QED  BY <2>3, <2>5, <3>1, <3>2
  <2> QED  BY <2>4, <2>5
<1>5. ASSUME NEW k \in DOMAIN all
      PROVE  LET n == (k - 1) \div size + 1
             IN  n \in 1..last /\ pageOf(all, n, size)[((k - 1) % size) + 1] = all[k]
  <2>1. k \in 1..l /\ k - 1 \in Nat
    BY <1>1
  <2>2. PICK x \in Nat : x = k - 1 /\ x < l
    BY <2>1
  <2>3. /\ x \div size \in Nat /\ x % size \in 0..(size - 1)
        /\ x = (x \div size) * size + (x % size)
    BY Quotient
  <2>4. PICK q \in Nat : q = x \div size
    BY <2>3
  <2>5. PICK r \in Nat : r = x % size /\ r < size
    BY <2>3
  <2>6. PICK a \in Nat : a = q * size /\ x = a + r
    BY <2>3, <2>4, <2>5
  <2>7. PICK n \in Nat \ {0} : n = q + 1
    OBVIOUS
  <2>8. n <= last
    <3> SUFFICES ASSUME last <= q PROVE FALSE
      BY <2>7
    <3>1. last * size <= q * size
      BY Times
    <3>2. last * size = z + size
      BY <1>1, <1>2
    <3>3. z + size <= a
      BY <2>6, <3>1, <3>2
    <3> QED  BY <1>2, <2>2, <2>6, <3>3
  <2>9. a = (n - 1) * size /\ a <= l
    <3>1. n - 1 = q
      BY <2>7
    <3> QED  BY <2>2, <2>6, <3>1
  <2>10. PICK e \in Nat : e = (IF a + size > l THEN l ELSE a + size)
    OBVIOUS
  <2>11. \A i \in 1..(e - a) : pageOf(all, n, size)[i] = all[a + i]
    <3>1. l = Len(all) /\ n <= maxPage(all, size)
      BY <1>1, <2>8
    <3>2. PageAt(all, n, size, a, l, e)
      BY <2>9, <2>10, <3>1 DEF PageAt
    <3>3. PageIs(all, n, size, a, e)
      BY <3>2, PageHolds
    <3> QED  BY <3>3 DEF PageIs
  <2>12. PICK i \in 1..(e - a) : i = r + 1
    <3>1. r + 1 <= e - a /\ r + 1 \in Nat
      <4>1. a + r < l /\ r < size
        BY <2>2, <2>5, <2>6
      <4> QED  BY <2>10, <4>1
    <3> QED  BY <3>1
  <2>13. pageOf(all, n, size)[i] = all[a + i] /\ a + i = k
    <3>1. a + i = k
      BY <2>2, <2>6, <2>12
    <3> QED  BY <2>11, <3>1
  <2>14. n \in 1..last /\ (k - 1) \div size + 1 = n /\ ((k - 1) % size) + 1 = i
    BY <2>2, <2>4, <2>5, <2>7, <2>8, <2>12
  <2> QED  BY <2>13, <2>14
<1>6. pageOf(all, last + 1, size) = pageOf(all, last, size)
  <2>1. (IF last + 1 > last THEN last ELSE last + 1) = last /\ (IF last > last THEN last ELSE last) = last
    OBVIOUS
  <2> QED  BY <1>1, <2>1 DEF pageOf
<1> QED  BY <1>1, <1>4, <1>5, <1>6 DEF PagedWhole

Finite(rs) == IsFiniteSet(rs) /\ Cardinality(rs) \in Nat

LEMMA OrderHasAll ==
  ASSUME NEW rs, Finite(rs), NEW rank, NEW desc, NEW all \in sortTerminalRows(rs, rank, desc)
  PROVE  all \in Seq(rs) /\ \A x \in rs : \E k \in DOMAIN all : all[k] = x
<1>1. PICK n \in Nat : n = Cardinality(rs)
  BY DEF Finite
<1>2. all \in [1..n -> rs] /\ \A i, j \in DOMAIN all : i < j => all[i] # all[j]
  BY <1>1 DEF sortTerminalRows
<1>3. all \in Seq(rs)
  BY <1>2
<1>4. \A i, j \in 1..n : all[i] = all[j] => i = j
  <2> SUFFICES ASSUME NEW i \in 1..n, NEW j \in 1..n, i # j PROVE all[i] # all[j]
    OBVIOUS
  <2>1. i < j \/ j < i
    OBVIOUS
  <2> QED  BY <1>2, <2>1
<1>5. all \in Injection(1..n, rs)
  BY <1>2, <1>4, Fun_IsInj
<1>6. Cardinality(1..n) = n
  <2>1. Cardinality(1..n) = IF 1 > n THEN 0 ELSE n - 1 + 1
    BY FS_Interval
  <2> QED  BY <2>1
<1>7. all \in Surjection(1..n, rs)
  BY <1>1, <1>5, <1>6, FS_Injection DEF Finite
<1>8. \A x \in rs : \E k \in 1..n : all[k] = x
  BY <1>7 DEF Surjection
<1> QED  BY <1>2, <1>3, <1>8

Bounded(rs, rank, b) ==
  \A x \in rs : rank[x] \in Nat /\ rank[x] <= b /\ x.id \in Nat /\ x.id <= b

(* What comes last in an order.                                            *)
LEMMA LastRow ==
  ASSUME NEW rs, rs # {}, NEW b \in Nat, NEW rank, NEW desc \in BOOLEAN,
         Bounded(rs, rank, b)
  PROVE  \E x \in rs : \A y \in rs : ~Before(rank, desc, x, y)
<1> USE DEF Bounded
<1> DEFINE Key(x) == IF desc THEN rank[x] ELSE b - rank[x]
           D == {n \in Nat : \E x \in rs : n = Key(x)}
<1>1. \A x \in rs : Key(x) \in Nat
  OBVIOUS
<1>2. D # {} /\ D \subseteq Nat
  BY <1>1
<1>3. PICK m \in D : \A k \in D : m <= k
  <2> HIDE DEF D
  <2> QED  BY <1>2, Least
<1>4. PICK u \in rs : m = Key(u)
  OBVIOUS
<1>5. \A y \in rs : m <= Key(y)
  <2> SUFFICES ASSUME NEW y \in rs PROVE Key(y) \in D
    BY <1>3
  <2> HIDE DEF Key
  <2> QED  BY <1>1
<1> DEFINE E == {n \in Nat : \E x \in rs : Key(x) = m /\ n = b - x.id}
<1>6. E # {} /\ E \subseteq Nat
  <2>1. b - u.id \in Nat
    OBVIOUS
  <2> HIDE DEF Key
  <2> QED  BY <1>4, <2>1
<1>7. PICK l \in E : \A k \in E : l <= k
  <2> HIDE DEF E
  <2> QED  BY <1>6, Least
<1>8. PICK x \in rs : Key(x) = m /\ l = b - x.id
  <2> HIDE DEF Key
  <2> QED  OBVIOUS
<1>9. \A y \in rs : Key(y) = m => b - y.id >= b - x.id
  <2> SUFFICES ASSUME NEW y \in rs, Key(y) = m PROVE b - x.id <= b - y.id
    BY DEF Key
  <2>1. b - y.id \in Nat
    OBVIOUS
  <2>2. b - y.id \in E
    <3> HIDE DEF Key
    <3> QED  BY <2>1
  <2> HIDE DEF Key, E
  <2> QED  BY <1>7, <1>8, <2>2
<1> HIDE DEF D, E
<1>10. ASSUME NEW y \in rs PROVE ~Before(rank, desc, x, y)
  <2>1. /\ rank[x] \in Nat /\ rank[y] \in Nat /\ rank[x] <= b /\ rank[y] <= b
        /\ x.id \in Nat /\ y.id \in Nat
    OBVIOUS
  <2>2. PICK p \in Nat, q \in Nat : p = rank[x] /\ q = rank[y] /\ p <= b /\ q <= b
    BY <2>1
  <2>3. IF desc THEN p <= q ELSE q <= p
    <3>1. Key(x) <= Key(y)
      BY <1>5, <1>8
    <3> QED  BY <2>2, <3>1
  <2>4. CASE p # q
    BY <2>2, <2>3, <2>4 DEF Before
  <2>5. CASE p = q
    <3>1. Key(y) = m
      BY <1>8, <2>2, <2>5
    <3>2. y.id <= x.id
      <4>1. b - y.id >= b - x.id
        BY <1>9, <3>1
      <4> HIDE DEF Key
      <4> QED  BY <2>1, <4>1
    <3> QED  BY <2>1, <2>2, <2>5, <3>2 DEF Before
  <2> QED  BY <2>4, <2>5
<1> QED  BY <1>10

(* Before the last row come the others, in an order of theirs.             *)
LEMMA OrderGrows ==
  ASSUME NEW rs, Finite(rs), NEW rank, NEW desc, NEW x \in rs,
         \A y \in rs : ~Before(rank, desc, x, y),
         NEW s \in sortTerminalRows(rs \ {x}, rank, desc)
  PROVE  sortTerminalRows(rs, rank, desc) # {}
<1>1. PICK n \in Nat : n = Cardinality(rs)
  BY DEF Finite
<1>2. Cardinality(rs \ {x}) = n - 1
  BY <1>1, FS_RemoveElement DEF Finite
<1>3. n >= 1
  <2>1. n # 0
    BY <1>1, FS_EmptySet DEF Finite
  <2> QED  BY <2>1
<1>4. /\ s \in [1..(n - 1) -> rs \ {x}]
      /\ \A i, j \in 1..(n - 1) : i < j => s[i] # s[j] /\ ~Before(rank, desc, s[j], s[i])
  BY <1>2 DEF sortTerminalRows
<1>5. PICK t : t = [i \in 1..n |-> IF i = n THEN x ELSE s[i]]
  OBVIOUS
<1>6. t \in [1..n -> rs]
  <2> SUFFICES ASSUME NEW i \in 1..n PROVE (IF i = n THEN x ELSE s[i]) \in rs
    BY <1>5
  <2>1. i # n => i \in 1..(n - 1)
    OBVIOUS
  <2> QED  BY <1>4, <2>1
<1>7. ASSUME NEW i \in 1..n, NEW j \in 1..n, i < j
      PROVE  t[i] # t[j] /\ ~Before(rank, desc, t[j], t[i])
  <2>1. i \in 1..(n - 1) /\ t[i] = s[i] /\ s[i] \in rs \ {x}
    <3>1. i \in 1..(n - 1) /\ i # n
      BY <1>7
    <3> QED  BY <1>4, <1>5, <3>1
  <2>2. CASE j = n
    BY <1>5, <2>1, <2>2
  <2>3. CASE j # n
    <3>1. j \in 1..(n - 1) /\ t[j] = s[j]
      BY <1>5, <2>3
    <3> QED  BY <1>4, <1>7, <2>1, <3>1
  <2> QED  BY <2>2, <2>3
<1>8. t \in sortTerminalRows(rs, rank, desc)
  <2>1. DOMAIN t = 1..n
    BY <1>5
  <2> QED  BY <1>1, <1>6, <1>7, <2>1 DEF sortTerminalRows
<1> QED  BY <1>8

(* Rows can be put in order: of sets without an order, none is smallest.   *)
LEMMA SomeOrder ==
  ASSUME NEW rs, Finite(rs), NEW b \in Nat, NEW rank, NEW desc \in BOOLEAN,
         Bounded(rs, rank, b)
  PROVE  sortTerminalRows(rs, rank, desc) # {}
<1> DEFINE Bad(n) == \E t \in SUBSET rs : Finite(t) /\ Cardinality(t) = n /\ sortTerminalRows(t, rank, desc) = {}
           B == {n \in Nat : Bad(n)}
<1> SUFFICES ASSUME sortTerminalRows(rs, rank, desc) = {} PROVE FALSE
  OBVIOUS
<1>1. B # {} /\ B \subseteq Nat
  <2>1. Cardinality(rs) \in Nat /\ Bad(Cardinality(rs))
    BY DEF Finite
  <2> HIDE DEF Bad
  <2> QED  BY <2>1
<1>2. PICK m \in B : \A k \in B : m <= k
  <2> HIDE DEF B
  <2> QED  BY <1>1, Least
<1>3. PICK t \in SUBSET rs : Finite(t) /\ Cardinality(t) = m /\ sortTerminalRows(t, rank, desc) = {}
  OBVIOUS
<1>4. m \in Nat
  OBVIOUS
<1>5. CASE t = {}
  <2>1. Cardinality(t) = 0
    BY <1>5, FS_EmptySet
  <2>2. PICK s : s = [i \in 1..0 |-> 0]
    OBVIOUS
  <2>3. s \in [1..0 -> t] /\ DOMAIN s = {}
    BY <2>2
  <2>4. s \in sortTerminalRows(t, rank, desc)
    BY <2>1, <2>3 DEF sortTerminalRows
  <2> QED  BY <1>3, <2>4
<1>6. CASE t # {}
  <2>1. PICK x \in t : \A y \in t : ~Before(rank, desc, x, y)
    <3>1. Bounded(t, rank, b)
      BY DEF Bounded
    <3> QED  BY <1>6, <3>1, LastRow
  <2>2. /\ Finite(t \ {x}) /\ Cardinality(t \ {x}) = m - 1 /\ m - 1 \in Nat
    <3>1. IsFiniteSet(t \ {x}) /\ Cardinality(t \ {x}) = m - 1
      BY <1>3, FS_RemoveElement DEF Finite
    <3>2. m # 0
      BY <1>3, <1>6, FS_EmptySet DEF Finite
    <3>3. m - 1 \in Nat
      BY <1>4, <3>2
    <3> QED  BY <3>1, <3>3 DEF Finite
  <2>3. sortTerminalRows(t \ {x}, rank, desc) # {}
    <3> SUFFICES ASSUME sortTerminalRows(t \ {x}, rank, desc) = {} PROVE FALSE
      OBVIOUS
    <3>1. t \ {x} \in SUBSET rs
      OBVIOUS
    <3>2. Bad(m - 1)
      BY <2>2, <3>1
    <3>3. m - 1 \in B
      <4> HIDE DEF Bad
      <4> QED  BY <2>2, <3>2
    <3>4. m <= m - 1
      <4> HIDE DEF B
      <4> QED  BY <1>2, <3>3
    <3> QED  BY <1>4, <3>4
  <2> QED  BY <1>3, <2>1, <2>3, OrderGrows
<1> QED  BY <1>5, <1>6

(* A list has a row for each connection that stays, or a later one of the  *)
(* same terminal; the list of terminals can be put in order, and every     *)
(* order, cut in pages of any size, has each row once (fepWebTerminalRows, *)
(* fepWebAppRows, handleTerminals, sortTerminalRows).                      *)
THEOREM ListsAreComplete == TabSpec => []ListComplete
<1> DEFINE Shown == ReadDone /\ rd.for \in {"terminals", "apps"} => StayedShown
<1>1. ASSUME TabInv, Shown PROVE ListComplete
  <2> SUFFICES ASSUME NEW expand \in BOOLEAN, NEW desc \in BOOLEAN,
                      NEW rs, rs = Collapsed(rows, expand),
                      NEW rank, rank = [x \in rs |-> x.login]
               PROVE  /\ sortTerminalRows(rs, rank, desc) # {}
                      /\ \A all \in sortTerminalRows(rs, rank, desc) :
                           /\ \A x \in rs : \E k \in DOMAIN all : all[k] = x
                           /\ \A size \in PageSize : PagedWhole(all, size)
    BY <1>1, Zenon DEF ListComplete
  <2>1. RowsBounded /\ rows \subseteq Row
    BY <1>1 DEF TabInv, TabTypeOK
  <2>2. rs \subseteq rows
    BY DEF Collapsed
  <2>3. Finite(rs)
    <3>1. IsFiniteSet(rs)
      BY <2>1, <2>2, FS_Subset DEF RowsBounded
    <3> QED  BY <3>1, FS_CardinalityType DEF Finite
  <2>4. PICK b \in Nat : Bounded(rs, rank, b)
    <3>1. PICK b \in Nat : \A x \in rows : x.login <= b /\ x.id <= b
      BY <2>1 DEF RowsBounded
    <3>2. \A x \in rows : x.login \in Nat /\ x.id \in Nat
      BY <2>1, TablesAssumption DEF Row
    <3>3. \A x \in rs : rank[x] = x.login
      OBVIOUS
    <3> QED  BY <2>2, <3>1, <3>2, <3>3 DEF Bounded
  <2>5. sortTerminalRows(rs, rank, desc) # {}
    BY <2>3, <2>4, SomeOrder
  <2>6. ASSUME NEW all \in sortTerminalRows(rs, rank, desc)
        PROVE  /\ \A x \in rs : \E k \in DOMAIN all : all[k] = x
               /\ \A size \in PageSize : PagedWhole(all, size)
    <3>1. all \in Seq(rs) /\ \A x \in rs : \E k \in DOMAIN all : all[k] = x
      BY <2>3, OrderHasAll
    <3>2. ASSUME NEW size \in PageSize PROVE PagedWhole(all, size)
      <4>1. size \in Nat \ {0}
        BY TablesAssumption
      <4> QED  BY <3>1, <4>1, PagesAreWhole
    <3> QED  BY <3>1, <3>2
  <2> QED  BY <2>5, <2>6
<1> QED  BY <1>1, TabInitInv, TabStep, StayersAreShown, PTL DEF TabSpec

USE TablesAssumption

(* The bars shown are the last ones and none is more than was counted      *)
(* (trafficHistoryTick, u64sub, pushRing15).                               *)
THEOREM BarsAreRight == TabSpec => []BarsRight
<1>1. ASSUME TabInv PROVE BarsRight
  <2>1. RingIsLast /\ ring \in Seq(Nat) /\ bars \in Seq(Bar)
    BY <1>1 DEF TabInv, TabTypeOK
  <2>2. PICK l \in Nat, w \in Nat, t \in Nat :
          l = Len(ring) /\ w = Len(bars) /\ t = TrafficMinBuckets
    BY <2>1, Minutes
  <2>3. l = (IF w < t THEN w ELSE t)
    BY <2>1, <2>2 DEF RingIsLast
  <2>4. t - l \in Nat
    BY <2>2, <2>3
  <2>5. PICK n \in Nat : n = t - l
    BY <2>4
  <2>6. PICK z : z = [i \in 1..n |-> 0]
    OBVIOUS
  <2>7. z \in Seq(Nat) /\ Len(z) = n /\ \A i \in 1..n : z[i] = 0
    BY <2>6
  <2>8. pad15Ring(ring) = z \o ring
    BY <2>2, <2>5, <2>6 DEF pad15Ring
  <2>9. PICK p : p = z \o ring
    OBVIOUS
  <2>10. \A i \in 1..(n + l) : p[i] = IF i <= n THEN z[i] ELSE ring[i - n]
    <3>1. z \in Seq(Nat) /\ ring \in Seq(Nat) /\ Len(z) = n /\ Len(ring) = l
      BY <2>1, <2>2, <2>7
    <3>2. \A i \in 1..(Len(z) + Len(ring)) :
            (z \o ring)[i] = IF i <= Len(z) THEN z[i] ELSE ring[i - Len(z)]
      BY <3>1, ConcatProperties, ZenonT(40)
    <3>3. \A i \in 1..(n + l) : (z \o ring)[i] = IF i <= n THEN z[i] ELSE ring[i - n]
      BY <3>1, <3>2, ZenonT(40)
    <3> QED  BY <2>9, <3>3
  <2>11. ASSUME NEW i \in 1..t
         PROVE  p[i] = IF w - t + i >= 1 THEN bars[w - t + i].bar ELSE 0
    <3>1. i \in 1..(n + l) /\ i \in Int
      BY <2>5
    <3>2. CASE i <= n
      <4>1. i \in 1..n /\ ~(w - t + i >= 1)
        BY <2>3, <2>5, <3>2
      <4> QED  BY <2>7, <2>10, <3>1, <3>2, <4>1
    <3>3. CASE i > n
      <4>1. i - n \in 1..l /\ w - l + (i - n) = w - t + i /\ w - t + i >= 1
        BY <2>3, <2>5, <3>1, <3>3
      <4>2. PICK j \in 1..l : j = i - n
        BY <4>1
      <4>3. ring[j] = bars[w - l + j].bar
        BY <2>1, <2>2 DEF RingIsLast
      <4>4. p[i] = ring[j]
        BY <2>10, <3>1, <3>3, <4>2
      <4> QED  BY <4>1, <4>2, <4>3, <4>4
    <3> QED  BY <3>1, <3>2, <3>3
  <2>12. \A i \in DOMAIN bars : bars[i].fits
    BY <2>1 DEF RingIsLast
  <2> QED  BY <2>2, <2>8, <2>9, <2>11, <2>12 DEF BarsRight
<1> QED  BY <1>1, TabInitInv, TabStep, PTL DEF TabSpec
=============================================================================
