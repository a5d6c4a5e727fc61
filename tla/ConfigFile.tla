------------------------------ MODULE ConfigFile ------------------------------
(***************************************************************************)
(* The settings (web/http.go handleConfigPut and handleLogLevel,           *)
(* utils/globalobj.go Reload): a request reads the file, changes it,       *)
(* writes it in place, loads it into GlobalObject and sets the log level,  *)
(* all without a lock.                                                     *)
(***************************************************************************)
EXTENDS Naturals

CONSTANTS
  Putter,        (* goroutines that serve requests                         *)
  BadConf,       (* what a file that does not parse holds                  *)
  Wrong,         (* a value of a wrong type, which a request may name      *)
  Patches,       (* bound: the patches, functions on some of the settings  *)
  MaxPuts, MaxDowns   (* bounds: requests, deaths of the process           *)

Setting  == {"LogDebugClose", "Timeout", "TCPPort"}
Settings == [Setting -> BOOLEAN \cup {Wrong}]    \* of each setting, two right values
Defaults == [k \in Setting |-> FALSE]

ASSUME ConfigAssumption ==
  /\ Wrong \notin BOOLEAN /\ BadConf \notin Settings /\ MaxPuts \in Nat /\ MaxDowns \in Nat
  /\ Patches \subseteq UNION {[D -> BOOLEAN \cup {Wrong}] : D \in SUBSET Setting}

VARIABLES
  conf,      (* gfep.json                                                  *)
  mem,       (* GlobalObject                                               *)
  level,     (* debug lines are written                                    *)
  put,       (* put[p]: where p is, what it was asked, and what it has read *)
  before,    (* history: before[p], the file when p's request came         *)
  apart,     (* history: no two requests were ever in progress at once     *)
  skipped,   (* history: the last Reload could not read the file           *)
  puts, downs

confVars == <<conf, mem, level, put, before, apart, skipped, puts, downs>>

(* byLevel: the request is for the log level, not for the settings.        *)
NoPut == [at |-> "idle", patch |-> Defaults, byLevel |-> FALSE, root |-> BadConf]

configWritableKeys == {"LogDebugClose", "Timeout"}

Patched(root, patch) ==
  [k \in Setting |-> IF k \in configWritableKeys \cap DOMAIN patch THEN patch[k] ELSE root[k]]

(* What Reload leaves in memory and of the log level: a file with one      *)
(* wrong value is not loaded at all.                                       *)
Loads(c)       == c # BadConf /\ \A k \in Setting : c[k] # Wrong
Loaded(m, c)   == IF Loads(c) THEN c ELSE m
Levelled(l, c) == l /\ (Loads(c) => ~c["LogDebugClose"])

ConfInit ==
  /\ conf \in {c \in Settings : Loads(c)}
  /\ mem = Loaded(Defaults, conf) /\ level = Levelled(TRUE, conf)
  /\ put = [p \in Putter |-> NoPut] /\ before = [p \in Putter |-> conf]
  /\ apart = TRUE /\ skipped = FALSE /\ puts = 0 /\ downs = 0

-----------------------------------------------------------------------------
PutBegin(p, patch, byLevel) ==
  /\ put[p].at = "idle" /\ puts < MaxPuts
  /\ byLevel => DOMAIN patch = {"LogDebugClose"} /\ patch["LogDebugClose"] # Wrong
  /\ puts' = puts + 1
  /\ put' = [put EXCEPT ![p] = [at |-> "read", patch |-> patch, byLevel |-> byLevel,
                                root |-> BadConf]]
  /\ before' = [before EXCEPT ![p] = conf]
  /\ apart' = (apart /\ \A q \in Putter : put[q].at = "idle")
  /\ UNCHANGED <<conf, mem, level, skipped, downs>>

(* A file that does not parse ends the request.                            *)
PutRead(p) ==
  /\ put[p].at = "read"
  /\ put' = [put EXCEPT ![p] = IF conf = BadConf THEN NoPut
                               ELSE [@ EXCEPT !.at = "truncate",
                                              !.root = Patched(conf, put[p].patch)]]
  /\ UNCHANGED <<conf, mem, level, before, apart, skipped, puts, downs>>

(* os.WriteFile: an empty file does not parse.                             *)
PutTruncate(p) ==
  /\ put[p].at = "truncate"
  /\ conf' = BadConf
  /\ put' = [put EXCEPT ![p].at = "write"]
  /\ UNCHANGED <<mem, level, before, apart, skipped, puts, downs>>

(* What another request has written meanwhile may be longer, and its end   *)
(* then stays.                                                             *)
PutWrite(p) ==
  /\ put[p].at = "write"
  /\ conf' \in {put[p].root} \cup (IF conf = BadConf THEN {} ELSE {BadConf})
  /\ put' = [put EXCEPT ![p].at = "reload"]
  /\ UNCHANGED <<mem, level, before, apart, skipped, puts, downs>>

(* The file cannot be read, opened or written.                             *)
PutFails(p) ==
  /\ put[p].at \in {"read", "truncate", "write"}
  /\ put' = [put EXCEPT ![p] = NoPut]
  /\ UNCHANGED <<conf, mem, level, before, apart, skipped, puts, downs>>

(* Reload reads the file ...                                               *)
ReloadRead(p) ==
  /\ put[p].at = "reload"
  /\ put' = [put EXCEPT ![p].at = "set", ![p].root = conf]
  /\ UNCHANGED <<conf, mem, level, before, apart, skipped, puts, downs>>

(* ... or cannot, and returns without a word ...                           *)
ReloadReadFails(p) ==
  /\ put[p].at = "reload"
  /\ put' = [put EXCEPT ![p].at = "level"]
  /\ skipped' = TRUE
  /\ UNCHANGED <<conf, mem, level, before, apart, puts, downs>>

(* ... and sets GlobalObject; it closes the debug level but never opens it. *)
ReloadSet(p) ==
  /\ put[p].at = "set"
  /\ mem' = Loaded(mem, put[p].root) /\ level' = Levelled(level, put[p].root)
  /\ put' = [put EXCEPT ![p].at = "level"]
  /\ skipped' = FALSE
  /\ UNCHANGED <<conf, before, apart, puts, downs>>

(* Mutant: a change of the settings never opens the level again. *)
PutLevelCloses(p) ==
  /\ put[p].at = "level"
  /\ level' = IF put[p].byLevel THEN ~put[p].patch["LogDebugClose"]
              ELSE level /\ ~mem["LogDebugClose"]
  /\ put' = [put EXCEPT ![p].at = "done"]
  /\ UNCHANGED <<conf, mem, before, apart, skipped, puts, downs>>

(* The level follows GlobalObject after a change of the settings, and the  *)
(* request itself after a change of the level.                             *)
PutLevel(p) ==
  /\ put[p].at = "level"
  /\ level' = ~(IF put[p].byLevel THEN put[p].patch["LogDebugClose"] ELSE mem["LogDebugClose"])
  /\ put' = [put EXCEPT ![p].at = "done"]
  /\ UNCHANGED <<conf, mem, before, apart, skipped, puts, downs>>

PutAnswer(p) ==
  /\ put[p].at = "done"
  /\ put' = [put EXCEPT ![p] = NoPut]
  /\ UNCHANGED <<conf, mem, level, before, apart, skipped, puts, downs>>

(* The process dies and starts again, with its defaults and the file, if   *)
(* it can be read.                                                         *)
Down(read) ==
  /\ downs < MaxDowns
  /\ downs' = downs + 1
  /\ mem' = (IF read THEN Loaded(Defaults, conf) ELSE Defaults)
  /\ level' = (IF read THEN Levelled(TRUE, conf) ELSE TRUE)
  /\ skipped' = ~read
  /\ put' = [p \in Putter |-> NoPut]
  /\ UNCHANGED <<conf, before, apart, puts>>

ConfNext ==
  \/ \E read \in BOOLEAN : Down(read)
  \/ \E p \in Putter :
       \/ \E patch \in Patches, byLevel \in BOOLEAN : PutBegin(p, patch, byLevel)
       \/ PutRead(p) \/ PutTruncate(p) \/ PutWrite(p) \/ PutFails(p)
       \/ ReloadRead(p) \/ ReloadReadFails(p) \/ ReloadSet(p) \/ PutLevel(p)
       \/ PutAnswer(p)

ConfSpec == ConfInit /\ [][ConfNext]_confVars

-----------------------------------------------------------------------------
(* Properties *)

Effective(c) == mem = c /\ level = ~c["LogDebugClose"]

(* While requests do not overlap: one that is answered has changed in the  *)
(* file what it named among the writable settings and nothing else; and    *)
(* unless the last Reload could not read it, memory and log level agree    *)
(* with a file that can be loaded whenever a request is answered or none   *)
(* is served, whatever step of a write the process has died in or an error *)
(* has ended, and whatever wrong value the file held before                *)
(* (handleConfigPut, handleLogLevel, Reload).                              *)
SettingsInStep ==
  apart =>
    /\ \A p \in Putter : put[p].at = "done" => conf = Patched(before[p], put[p].patch)
    /\ ~skipped /\ Loads(conf) /\ (\A p \in Putter : put[p].at \in {"idle", "done"})
         => Effective(conf)
===============================================================================
