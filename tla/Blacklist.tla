------------------------------ MODULE Blacklist ------------------------------
(***************************************************************************)
(* The terminals' blacklist (web/blacklist.go): a list in a file and the   *)
(* copy in memory that logins are checked against.  Requests of the        *)
(* console save a list through one temporary file and load it again;       *)
(* logins load it if nobody has; the lock covers the copy, not the files.  *)
(*                                                                         *)
(* Files are inodes with names: a writer keeps writing to the inode it     *)
(* has opened, whatever name that has by then.                             *)
(***************************************************************************)
EXTENDS Naturals, Sequences

CONSTANTS
  Term,          (* terminal addresses: a list is a set of them            *)
  Saver,         (* goroutines that serve PUT /api/blacklist               *)
  Login,         (* workers that handle logins                             *)
  Console,       (* the goroutine of StartConsole                          *)
  Nil,           (* nothing was loaded                                     *)
  Empty, Broken, (* contents that are no list: truncated, torn or mixed    *)
  MaxSaves,      (* bound: saves in a behaviour                            *)
  MaxRestarts    (* bound: times the process is killed                     *)

List    == SUBSET Term
Content == {Empty, Broken} \cup List
IsList(c) == c \notin {Empty, Broken}
Loader  == Login \cup {Console}
Worker  == Saver \cup Loader

ASSUME BlackAssumption ==
  /\ Saver \cap Loader = {} /\ Console \notin Login
  /\ \A l \in List : Nil # l /\ Empty # l /\ Broken # l
  /\ Nil \notin {Empty, Broken} /\ Empty # Broken
  /\ MaxSaves \in Nat /\ MaxRestarts \in Nat

VARIABLES
  inode,      (* contents of the inodes made so far                        *)
  fileAt,     (* the inode of terminal_blacklist.json, 0 if there is none  *)
  tmpAt,      (* the inode of terminal_blacklist.json.tmp                  *)
  blacklist,  (* the copy in memory                                        *)
  serving,    (* StartConsole has come to ListenAndServe                   *)
  now,        (* now[p]: where p is                                        *)
  list,       (* list[p]: the list p saves, or has read                    *)
  fd,         (* fd[p]: the inode p writes to                              *)
  overlapped, (* history: a save overlapped another save or a load         *)
  unread,     (* history: a save could not load what it had saved          *)
  saves, restarts

fsVars    == <<inode, fileAt, tmpAt>>
countVars == <<overlapped, unread, saves, restarts>>
blackVars == <<fsVars, blacklist, serving, now, list, fd, countVars>>

BlackInit ==
  /\ inode \in {<<>>} \cup {<<l>> : l \in List}
  /\ fileAt = Len(inode) /\ tmpAt = 0
  /\ blacklist = Nil
  /\ serving = FALSE
  /\ now = [p \in Worker |-> IF p = Console THEN "read" ELSE "idle"]
  /\ list = [p \in Worker |-> Nil]
  /\ fd = [p \in Worker |-> 0]
  /\ overlapped = FALSE /\ unread = FALSE /\ saves = 0 /\ restarts = 0

Busy(P)    == {p \in P : now[p] # "idle"}
At(p, s)   == now' = [now EXCEPT ![p] = s]
Leave(p)   == /\ now' = [now EXCEPT ![p] = "idle"]
              /\ list' = [list EXCEPT ![p] = Nil]
              /\ fd' = [fd EXCEPT ![p] = 0]
              /\ serving' = (serving \/ p = Console)

-----------------------------------------------------------------------------
(* SaveTerminalBlacklist *)

Save(p, l) ==
  /\ serving /\ now[p] = "idle" /\ saves < MaxSaves
  /\ At(p, "open")
  /\ list' = [list EXCEPT ![p] = l]
  /\ overlapped' = (overlapped \/ Busy(Worker) # {})
  /\ saves' = saves + 1
  /\ UNCHANGED <<fsVars, blacklist, serving, fd, unread, restarts>>

(* WriteFile makes the temporary file, or truncates the one there is ...   *)
OpenTmp(p) ==
  /\ now[p] = "open"
  /\ IF tmpAt = 0
     THEN inode' = Append(inode, Empty) /\ tmpAt' = Len(inode')
     ELSE inode' = [inode EXCEPT ![tmpAt] = Empty] /\ UNCHANGED tmpAt
  /\ fd' = [fd EXCEPT ![p] = tmpAt']
  /\ At(p, "fill")
  /\ UNCHANGED <<fileAt, blacklist, serving, list, countVars>>

(* ... and writes it from the start, over what another may have written.   *)
Fill(p) ==
  /\ now[p] = "fill"
  /\ \E c \in {list[p]} \cup (IF inode[fd[p]] = Empty THEN {} ELSE {Broken}) :
        inode' = [inode EXCEPT ![fd[p]] = c]
  /\ At(p, "rename")
  /\ UNCHANGED <<fileAt, tmpAt, blacklist, serving, list, fd, countVars>>

FillStops(p) ==
  /\ now[p] = "fill"
  /\ inode' = [inode EXCEPT ![fd[p]] = Broken]
  /\ Leave(p)
  /\ UNCHANGED <<fileAt, tmpAt, blacklist, countVars>>

Rename(p) ==
  /\ now[p] = "rename" /\ tmpAt # 0
  /\ fileAt' = tmpAt /\ tmpAt' = 0
  /\ At(p, "read")
  /\ UNCHANGED <<inode, blacklist, serving, list, fd, countVars>>

(* Also when another has renamed it before; then the temporary file, which *)
(* may be that of a third, is removed.                                     *)
RenameRefused(p) ==
  /\ now[p] = "rename"
  /\ At(p, "remove")
  /\ UNCHANGED <<fsVars, blacklist, serving, list, fd, countVars>>

RemoveTmp(p) ==
  /\ now[p] = "remove"
  /\ tmpAt' = 0
  /\ Leave(p)
  /\ UNCHANGED <<inode, fileAt, blacklist, countVars>>

-----------------------------------------------------------------------------
(* ReloadTerminalBlacklist *)

(* EnsureBlacklistLoaded by a login. *)
Ensure(p) ==
  /\ p \in Login /\ now[p] = "idle" /\ blacklist = Nil
  /\ At(p, "read")
  /\ overlapped' = (overlapped \/ Busy(Saver) # {})
  /\ UNCHANGED <<fsVars, blacklist, serving, list, fd, unread, saves, restarts>>

OnDisk == IF fileAt = 0 THEN {} ELSE inode[fileAt]

(* The file is read, an absent one as an empty list ...                    *)
Read(p) ==
  /\ now[p] = "read" /\ IsList(OnDisk)
  /\ list' = [list EXCEPT ![p] = OnDisk]
  /\ At(p, "swap")
  /\ UNCHANGED <<fsVars, blacklist, serving, fd, countVars>>

(* ... unless it is no list or cannot be read: the copy stays as it is.    *)
ReadRefused(p) ==
  /\ now[p] = "read"
  /\ unread' = (unread \/ p \in Saver)
  /\ Leave(p)
  /\ UNCHANGED <<fsVars, blacklist, overlapped, saves, restarts>>

(* Mutant: the new list is added to the old one. *)
SwapMerges(p) ==
  /\ now[p] = "swap"
  /\ blacklist' = IF blacklist = Nil THEN list[p] ELSE blacklist \cup list[p]
  /\ Leave(p)
  /\ UNCHANGED <<fsVars, countVars>>

Swap(p) ==
  /\ now[p] = "swap"
  /\ blacklist' = list[p]
  /\ Leave(p)
  /\ UNCHANGED <<fsVars, countVars>>

(* The process is killed and started again. *)
Restart ==
  /\ restarts < MaxRestarts
  /\ restarts' = restarts + 1
  /\ blacklist' = Nil /\ serving' = FALSE
  /\ now' = [p \in Worker |-> IF p = Console THEN "read" ELSE "idle"]
  /\ list' = [p \in Worker |-> Nil]
  /\ fd' = [p \in Worker |-> 0]
  /\ UNCHANGED <<fsVars, overlapped, unread, saves>>

BlackNext ==
  \/ \E p \in Saver, l \in List : Save(p, l)
  \/ \E p \in Saver : OpenTmp(p) \/ Fill(p) \/ FillStops(p) \/ Rename(p)
                      \/ RenameRefused(p) \/ RemoveTmp(p)
  \/ \E p \in Worker : Ensure(p) \/ Read(p) \/ ReadRefused(p) \/ Swap(p)
  \/ Restart

BlackSpec == BlackInit /\ [][BlackNext]_blackVars

-----------------------------------------------------------------------------
(* A broken file never comes into force.  While saves overlap neither      *)
(* saves nor loads, there is none, wherever a save fails or the process is *)
(* killed (blacklist.go:119-127); and what is in force is what is saved    *)
(* (WEB_SPEC.md:277), provided that each save could read it again.         *)
SavedInForce ==
  /\ blacklist # Nil => IsList(blacklist)
  /\ ~overlapped => /\ IsList(OnDisk)
                    /\ ~unread /\ Busy(Worker) = {} /\ blacklist # Nil => blacklist = OnDisk
===============================================================================
