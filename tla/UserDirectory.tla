---------------------------- MODULE UserDirectory ----------------------------
(***************************************************************************)
(* What the console promises about its accounts: they are created once     *)
(* with an administrator, every change concerns one account and takes      *)
(* effect at once, and the last administrator stays.                       *)
(***************************************************************************)
CONSTANTS User,      (* account names                                      *)
          NoFile     (* there are no accounts yet                          *)

Role     == {"admin", "user"}
Accounts == [User -> Role \cup {"none"}]

Admins(u)   == {x \in User : u[x] = "admin"}
HasAdmin(u) == Admins(u) # {}

(* The accounts of a fresh system: the administrator x alone.              *)
Only(x) == [y \in User |-> IF y = x THEN "admin" ELSE "none"]

VARIABLE users

Init == users = NoFile \/ (users \in Accounts /\ HasAdmin(users))

Create(x) == /\ users = NoFile
             /\ users' = Only(x)

(* Account x gets the role r, is added with it, or goes (r = "none").      *)
Change(x, r) == /\ users # NoFile
                /\ users' = [users EXCEPT ![x] = r]
                /\ HasAdmin(users')

Next == \/ \E x \in User : Create(x)
        \/ \E x \in User, r \in Role \cup {"none"} : Change(x, r)

Spec == Init /\ [][Next]_users
==============================================================================
