------------------------------- MODULE WebUsers -------------------------------
(***************************************************************************)
(* The accounts of the web console (web/auth.go, users_admin.go and the    *)
(* handler in http.go): requests that add, change or delete an account     *)
(* read the users file, change it and replace it by way of a temporary     *)
(* file, all under usersMu; the process may be killed between any two      *)
(* steps and started again.                                                *)
(*                                                                         *)
(* An account is its role; a password that changes alone is a change that  *)
(* leaves the role as it is.                                               *)
(***************************************************************************)
EXTENDS Naturals, FiniteSets

CONSTANTS
  User,         (* account names                                           *)
  Bootstrap,    (* the environment names a first administrator             *)
  FirstUser,    (* ... which is this one                                   *)
  Request,      (* goroutines that serve requests                          *)
  Boot,         (* the goroutine of StartConsole                           *)
  NoFile, NoProc, Torn,
  MaxKills      (* bound: how often the process is killed                  *)

Role     == {"admin", "user"}
Accounts == [User -> Role \cup {"none"}]
Proc     == Request \cup {Boot}

ASSUME UsersAssumption ==
  /\ Bootstrap \in BOOLEAN /\ FirstUser \in User /\ MaxKills \in Nat
  /\ Boot \notin Request /\ NoProc \notin Proc
  /\ NoFile \notin Accounts /\ Torn \notin Accounts /\ NoFile # Torn

VARIABLES
  users,     (* web_users.json                                             *)
  tmp,       (* web_users.json.tmp                                         *)
  up,        (* the console serves requests                                *)
  usersMu,   (* who holds the lock                                         *)
  step,      (* step[p]: where p is                                        *)
  wish,      (* wish[r]: what request r asks for                           *)
  copy,      (* copy[p]: the accounts p has read, or is about to write     *)
  kills      (* how often the process was killed                           *)

usersVars == <<users, tmp, up, usersMu, step, wish, copy, kills>>

Wish == [op : {"add", "update"}, who : User, role : Role]
          \cup [op : {"delete"}, who : User, role : {"none"}]
NoWish == [op |-> "none", who |-> FirstUser, role |-> "none"]

AdminsOf(u) == {x \in User : u[x] = "admin"}

UsersInit ==
  /\ users \in {NoFile} \cup {u \in Accounts : AdminsOf(u) # {}}
  /\ tmp = NoFile
  /\ up = FALSE
  /\ usersMu = NoProc
  /\ step = [p \in Proc |-> "idle"]
  /\ wish = [r \in Request |-> NoWish]
  /\ copy = [p \in Proc |-> NoFile]
  /\ kills = 0

-----------------------------------------------------------------------------
(* Mutant: the lock is not taken for the whole of a change. *)
LockUsersBriefly(p) == usersMu = NoProc /\ UNCHANGED usersMu

LockUsers(p)   == usersMu = NoProc /\ usersMu' = p
UnlockUsers(p) == usersMu' = IF usersMu = p THEN NoProc ELSE usersMu

Go(p, s)  == step' = [step EXCEPT ![p] = s]
(* p is through, with or without success.                                  *)
Ends(p)   == /\ step' = [step EXCEPT ![p] = "idle"]
             /\ copy' = [copy EXCEPT ![p] = NoFile]
             /\ wish' = [r \in Request |-> IF r = p THEN NoWish ELSE wish[r]]
             /\ up' = (up \/ p = Boot)
             /\ UnlockUsers(p)

(* StartConsole: TryBootstrapUsers makes the first file if there is none.  *)
BootBegins ==
  /\ ~up /\ step[Boot] = "idle"
  /\ IF users = NoFile /\ Bootstrap
     THEN /\ LockUsers(Boot)
          /\ copy' = [copy EXCEPT ![Boot] = [x \in User |-> IF x = FirstUser THEN "admin"
                                                             ELSE "none"]]
          /\ Go(Boot, "write")
          /\ UNCHANGED <<up, wish>>
     ELSE usersMu = NoProc /\ Ends(Boot)
  /\ UNCHANGED <<users, tmp, kills>>

(* handleUsers: an administrator's session asks for w. *)
Ask(r, w) ==
  /\ up /\ step[r] = "idle"
  /\ wish' = [wish EXCEPT ![r] = w]
  /\ Go(r, "asked")
  /\ UNCHANGED <<users, tmp, up, usersMu, copy, kills>>

(* Under the lock the file is read; without one there is nothing to change. *)
ReadUsers(r) ==
  /\ step[r] = "asked"
  /\ users # NoFile
  /\ LockUsers(r)
  /\ copy' = [copy EXCEPT ![r] = users]
  /\ Go(r, "read")
  /\ UNCHANGED <<users, tmp, up, wish, kills>>

NoUsers(r) ==
  /\ step[r] = "asked"
  /\ users = NoFile /\ usersMu = NoProc
  /\ Ends(r)
  /\ UNCHANGED <<users, tmp, kills>>

(* Mutant: only a deletion is stopped at the last administrator. *)
AllowedDemotion(u, w) ==
  CASE w.op = "add"    -> u[w.who] = "none"
    [] w.op = "update" -> u[w.who] # "none"
    [] w.op = "delete" -> u[w.who] # "none" /\ (u[w.who] = "admin" => Cardinality(AdminsOf(u)) > 1)

(* AddWebUser, UpdateWebUser, DeleteWebUser: an account is added once, one *)
(* that exists is changed, and the last administrator is neither demoted   *)
(* nor deleted.                                                            *)
Allowed(u, w) ==
  CASE w.op = "add" -> u[w.who] = "none"
    [] OTHER        -> /\ u[w.who] # "none"
                       /\ u[w.who] = "admin" /\ w.role # "admin" => Cardinality(AdminsOf(u)) > 1

Apply(r) ==
  /\ step[r] = "read" /\ Allowed(copy[r], wish[r])
  /\ copy' = [copy EXCEPT ![r] = [@ EXCEPT ![wish[r].who] = wish[r].role]]
  /\ Go(r, "write")
  /\ UNCHANGED <<users, tmp, up, usersMu, wish, kills>>

(* Not allowed, or a password that is too short. *)
Refuse(r) ==
  /\ step[r] = "read"
  /\ Ends(r)
  /\ UNCHANGED <<users, tmp, kills>>

(* writeUsersFile: the temporary file is truncated and filled ...          *)
TruncateTmp(p) ==
  /\ step[p] = "write"
  /\ tmp' = Torn
  /\ Go(p, "written")
  /\ UNCHANGED <<users, up, usersMu, wish, copy, kills>>

FillTmp(p) ==
  /\ step[p] = "written"
  /\ tmp' = copy[p]
  /\ Go(p, "rename")
  /\ UNCHANGED <<users, up, usersMu, wish, copy, kills>>

FillFails(p) ==
  /\ step[p] = "written"
  /\ Ends(p)
  /\ UNCHANGED <<users, tmp, kills>>

(* ... and takes the place of the file, or is removed.                     *)
RenameTmp(p) ==
  /\ step[p] = "rename" /\ tmp # NoFile
  /\ users' = tmp /\ tmp' = NoFile
  /\ Ends(p)
  /\ UNCHANGED kills

RenameFails(p) ==
  /\ step[p] = "rename"
  /\ tmp' = NoFile
  /\ Ends(p)
  /\ UNCHANGED <<users, kills>>

(* The process is killed: the files stay.                                  *)
Kill ==
  /\ kills < MaxKills
  /\ kills' = kills + 1
  /\ up' = FALSE
  /\ usersMu' = NoProc
  /\ step' = [p \in Proc |-> "idle"]
  /\ copy' = [p \in Proc |-> NoFile]
  /\ wish' = [r \in Request |-> NoWish]
  /\ UNCHANGED <<users, tmp>>

UsersNext ==
  \/ BootBegins \/ Kill
  \/ \E r \in Request : \/ \E w \in Wish : Ask(r, w)
                        \/ ReadUsers(r) \/ NoUsers(r) \/ Apply(r) \/ Refuse(r)
  \/ \E p \in Proc : \/ TruncateTmp(p) \/ FillTmp(p) \/ FillFails(p)
                     \/ RenameTmp(p) \/ RenameFails(p)

UsersSpec == UsersInit /\ [][UsersNext]_usersVars

-----------------------------------------------------------------------------
(* Types.                                                                  *)
UsersTypeOK ==
  /\ users \in Accounts \cup {NoFile}
  /\ tmp \in Accounts \cup {NoFile, Torn}
  /\ up \in BOOLEAN
  /\ usersMu \in Proc \cup {NoProc}
  /\ step \in [Proc -> {"idle", "asked", "read", "write", "written", "rename"}]
  /\ wish \in [Request -> Wish \cup {NoWish}]
  /\ copy \in [Proc -> Accounts \cup {NoFile}]
  /\ kills \in 0..MaxKills

(* Once there are accounts there is an administrator among them, whatever  *)
(* requests overlap and wherever the process is killed (errLastAdmin).     *)
LastAdminStays == users # NoFile => users \in Accounts /\ AdminsOf(users) # {}

(* The file implements the abstract directory: changes take effect one at  *)
(* a time and whole, none undoes another.                                  *)
UserDir == INSTANCE UserDirectory
UserDirectorySpec == UserDir!Spec
===============================================================================
