----------------------------- MODULE LogRotation -----------------------------
(***************************************************************************)
(* The packet logs (timewriter/timewriter.go): Write, which the logger     *)
(* calls under a lock, opens a file per day; after each change of day a    *)
(* goroutine removes old files and compresses the others, without the      *)
(* lock and on files that the writer may be about to name.                 *)
(*                                                                         *)
(* Each day has a plain and a compressed file; a file is the set of lines  *)
(* in it.                                                                  *)
(***************************************************************************)
EXTENDS Integers, FiniteSets

CONSTANTS
  ReserveDay,    (* files are kept for so many days, with today            *)
  NoLog,         (* no such file                                           *)
  TornLog,       (* a compressed file that is not finished                 *)
  MaxDay, MaxLines, MaxCrashes   (* bounds: days, lines, crashes           *)

Day  == 1..MaxDay
Line == 1..MaxLines

ASSUME LogAssumption ==
  /\ ReserveDay \in Nat \ {0} /\ MaxDay \in Nat \ {0} /\ MaxLines \in Nat /\ MaxCrashes \in Nat
  /\ NoLog # TornLog /\ \A s \in SUBSET Line : s \notin {NoLog, TornLog}

VARIABLES
  day,       (* the date                                                   *)
  plain, gz, (* plain[d], gz[d]: the files of day d                        *)
  fileDay,   (* the day whose file the writer has open, 0 if none          *)
  linked,    (* that file still has its name                               *)
  curDay,    (* curFilename: the day in it, 0 at first                     *)
  writer,    (* where Write is                                             *)
  millCh,    (* the signal in the channel                                  *)
  miller,    (* where the mill goroutine is                                *)
  remove, compress,  (* the files it has still to handle                   *)
  zipping,   (* the day whose file it compresses, 0 if none                *)
  written,   (* history: <<line, day>> that Write has reported             *)
  cut,       (* history: those of them that OpenTruncates took away        *)
  smooth,    (* history: the clock was never set back, and each change of  *)
             (* file, with its mill, was done before the next midnight     *)
  crashes

fileVars  == <<plain, gz>>
writeVars == <<fileDay, linked, curDay, writer, written>>
millVars  == <<millCh, miller, remove, compress, zipping>>
logVars   == <<day, fileVars, writeVars, millVars, cut, smooth, crashes>>

LogInit ==
  /\ day = 1
  /\ plain = [d \in Day |-> NoLog] /\ gz = [d \in Day |-> NoLog]
  /\ fileDay = 0 /\ linked = TRUE /\ curDay = 0 /\ writer = "idle"
  /\ millCh = FALSE /\ miller = "idle" /\ remove = {} /\ compress = {}
  /\ zipping = 0 /\ written = {} /\ cut = {} /\ smooth = TRUE /\ crashes = 0

MillDone == miller = "idle" /\ ~millCh /\ writer \notin {"create", "name", "signal"}

(* Midnight, at any time. *)
Midnight ==
  /\ day < MaxDay
  /\ day' = day + 1
  /\ smooth' = (smooth /\ MillDone)
  /\ UNCHANGED <<fileVars, writeVars, millVars, cut, crashes>>

(* The clock is set back over midnight. *)
SetBack ==
  /\ smooth /\ day > 1
  /\ day' = day - 1 /\ smooth' = FALSE
  /\ UNCHANGED <<fileVars, writeVars, millVars, cut, crashes>>

-----------------------------------------------------------------------------
(* Write *)

(* No file is open: today's is opened to append to, or made.  (If nothing  *)
(* can be opened or made the line is lost, reported so, and all stays.)    *)
OpenExisting ==
  /\ writer = "idle" /\ Cardinality(written) < MaxLines
  /\ fileDay = 0
  /\ fileDay' = day /\ curDay' = day /\ linked' = TRUE
  /\ plain' = [plain EXCEPT ![day] = IF @ = NoLog THEN {} ELSE @]
  /\ writer' = "check"
  /\ UNCHANGED <<day, gz, written, millVars, cut, smooth, crashes>>

(* Today's file is there and cannot be opened to append to: openNew is     *)
(* tried, which empties it.                                                *)
OpenTruncates ==
  /\ writer = "idle" /\ Cardinality(written) < MaxLines
  /\ fileDay = 0 /\ plain[day] # NoLog
  /\ fileDay' = day /\ curDay' = day /\ linked' = TRUE
  /\ plain' = [plain EXCEPT ![day] = {}]
  /\ cut' = cut \cup {w \in written : w[2] = day}
  /\ writer' = "check"
  /\ UNCHANGED <<day, gz, written, millVars, smooth, crashes>>

HaveFile ==
  /\ writer = "idle" /\ Cardinality(written) < MaxLines
  /\ fileDay # 0
  /\ writer' = "check"
  /\ UNCHANGED <<day, fileVars, fileDay, linked, curDay, written, millVars, cut, smooth, crashes>>

SameDay ==
  /\ writer = "check" /\ curDay = day
  /\ writer' = "write"
  /\ UNCHANGED <<day, fileVars, fileDay, linked, curDay, written, millVars, cut, smooth, crashes>>

(* The date has changed: rotate closes the file, makes another ...         *)
CloseOld ==
  /\ writer = "check" /\ curDay # day
  /\ fileDay' = 0
  /\ writer' = "create"
  /\ UNCHANGED <<day, fileVars, linked, curDay, written, millVars, cut, smooth, crashes>>

OpenNew ==
  /\ writer = "create"
  /\ fileDay' = day /\ linked' = TRUE
  /\ plain' = [plain EXCEPT ![day] = {}]
  /\ writer' = "name"
  /\ UNCHANGED <<day, gz, curDay, written, millVars, cut, smooth, crashes>>

(* It cannot be made, or the old one not be closed: the line is lost, and  *)
(* reported so.                                                            *)
OpenNewFails ==
  /\ writer = "create"
  /\ writer' = "idle"
  /\ UNCHANGED <<day, fileVars, fileDay, linked, curDay, written, millVars, cut, smooth, crashes>>

(* ... notes its name, and wakes the mill, once.                           *)
Name ==
  /\ writer = "name"
  /\ curDay' = fileDay
  /\ writer' = "signal"
  /\ UNCHANGED <<day, fileVars, fileDay, linked, written, millVars, cut, smooth, crashes>>

Signal ==
  /\ writer = "signal"
  /\ millCh' = TRUE
  /\ writer' = "write"
  /\ UNCHANGED <<day, fileVars, fileDay, linked, curDay, written, miller, remove, compress,
                 zipping, cut, smooth, crashes>>

(* The line goes to the open file, whether it still has a name or not.     *)
WriteLine ==
  /\ writer = "write"
  /\ LET l == Cardinality(written) + 1
     IN  /\ plain' = IF linked THEN [plain EXCEPT ![fileDay] = @ \cup {l}] ELSE plain
         /\ written' = written \cup {<<l, fileDay>>}
  /\ writer' = "idle"
  /\ UNCHANGED <<day, gz, fileDay, linked, curDay, millVars, cut, smooth, crashes>>

-----------------------------------------------------------------------------
(* The mill *)

MillTake ==
  /\ miller = "idle" /\ millCh
  /\ millCh' = FALSE /\ miller' = "list"
  /\ UNCHANGED <<day, fileVars, writeVars, remove, compress, zipping, cut, smooth, crashes>>

Files(k) == {d \in Day : (IF k = "plain" THEN plain[d] ELSE gz[d]) # NoLog}
Old(d)   == d <= day - ReserveDay

(* millRunOnce lists the files but the current one: those whose day began  *)
(* before now less ReserveDay days go, plain ones of the others are        *)
(* compressed.                                                             *)
ListFiles ==
  /\ miller = "list"
  /\ remove' = {f \in {"plain", "gz"} \X Day :
                  f[2] \in Files(f[1]) /\ Old(f[2]) /\ f # <<"plain", curDay>>}
  /\ compress' = {d \in Files("plain") : ~Old(d) /\ d # curDay}
  /\ miller' = "work"
  /\ UNCHANGED <<day, fileVars, writeVars, millCh, zipping, cut, smooth, crashes>>

Unlink(d) == /\ plain' = [plain EXCEPT ![d] = NoLog]
             /\ linked' = (linked /\ d # fileDay)

(* A removal that fails leaves the file for the next mill.                 *)
RemoveOld(k, d) ==
  /\ miller = "work" /\ <<k, d>> \in remove
  /\ remove' = remove \ {<<k, d>>}
  /\ \/ IF k = "plain" THEN Unlink(d) /\ UNCHANGED gz
        ELSE gz' = [gz EXCEPT ![d] = NoLog] /\ UNCHANGED <<plain, linked>>
     \/ UNCHANGED <<fileVars, linked>>
  /\ UNCHANGED <<day, fileDay, curDay, writer, written, millCh, miller, compress, zipping, cut,
                 smooth, crashes>>

(* compressLogFile opens the compressed file, or truncates it, ...         *)
GzOpen(d) ==
  /\ miller = "work" /\ remove = {} /\ d \in compress
  /\ plain[d] # NoLog
  /\ gz' = [gz EXCEPT ![d] = TornLog]
  /\ compress' = compress \ {d} /\ zipping' = d
  /\ miller' = "copy"
  /\ UNCHANGED <<day, plain, writeVars, millCh, remove, cut, smooth, crashes>>

(* (or cannot open either, and goes on with the next) ...                  *)
GzSkip(d) ==
  /\ miller = "work" /\ remove = {} /\ d \in compress
  /\ compress' = compress \ {d}
  /\ UNCHANGED <<day, fileVars, writeVars, millCh, miller, remove, zipping, cut, smooth, crashes>>

(* Mutant: the source is removed although the copy has failed. *)
GzCopyAnyway ==
  /\ miller = "copy"
  /\ \E c \in {plain[zipping], TornLog} : gz' = [gz EXCEPT ![zipping] = c]
  /\ miller' = "unlink"
  /\ UNCHANGED <<day, plain, writeVars, millCh, remove, compress, zipping, cut, smooth, crashes>>

(* ... copies what the source holds and closes both; if that fails, the    *)
(* compressed file goes ...                                                *)
GzCopy ==
  /\ miller = "copy"
  /\ \/ gz' = [gz EXCEPT ![zipping] = plain[zipping]] /\ miller' = "unlink"
     \/ miller' = "discard" /\ UNCHANGED gz
  /\ UNCHANGED <<day, plain, writeVars, millCh, remove, compress, zipping, cut, smooth, crashes>>

GzDiscard ==
  /\ miller = "discard"
  /\ gz' = [gz EXCEPT ![zipping] = NoLog]
  /\ miller' = "work" /\ zipping' = 0
  /\ UNCHANGED <<day, plain, writeVars, millCh, remove, compress, cut, smooth, crashes>>

(* ... and otherwise the source goes; if that fails, again the compressed  *)
(* file.                                                                   *)
GzUnlink ==
  /\ miller = "unlink"
  /\ \/ /\ Unlink(zipping)
        /\ miller' = "work" /\ zipping' = 0
     \/ /\ miller' = "discard"
        /\ UNCHANGED <<plain, linked, zipping>>
  /\ UNCHANGED <<day, gz, fileDay, curDay, writer, written, millCh, remove, compress, cut,
                 smooth, crashes>>

MillEnd ==
  /\ miller = "work" /\ remove = {} /\ compress = {}
  /\ miller' = "idle"
  /\ UNCHANGED <<day, fileVars, writeVars, millCh, remove, compress, zipping, cut, smooth, crashes>>

-----------------------------------------------------------------------------
(* The process dies: its files stay as they are.                           *)
LogCrash ==
  /\ crashes < MaxCrashes
  /\ crashes' = crashes + 1
  /\ fileDay' = 0 /\ linked' = TRUE /\ curDay' = 0 /\ writer' = "idle"
  /\ millCh' = FALSE /\ miller' = "idle" /\ remove' = {} /\ compress' = {} /\ zipping' = 0
  /\ UNCHANGED <<day, fileVars, written, cut, smooth>>

LogNext ==
  \/ Midnight \/ SetBack \/ LogCrash
  \/ OpenExisting \/ OpenTruncates \/ HaveFile \/ SameDay \/ CloseOld
  \/ OpenNew \/ OpenNewFails \/ Name \/ Signal \/ WriteLine
  \/ MillTake \/ ListFiles \/ GzCopy \/ GzDiscard \/ GzUnlink \/ MillEnd
  \/ \E d \in Day : GzOpen(d) \/ GzSkip(d) \/ \E k \in {"plain", "gz"} : RemoveOld(k, d)

LogSpec == LogInit /\ [][LogNext]_logVars

-----------------------------------------------------------------------------
(* Properties *)

Holds(f, l) == f \notin {NoLog, TornLog} /\ l \in f

(* While the clock runs forward and each change of file is done, with its  *)
(* mill, before the next midnight, a line that Write has reported is in a  *)
(* file of its day as long as that day is within the reserve, whatever     *)
(* step of the removal, the compression or the change of file a crash      *)
(* falls into or an error ends (rotate, millRunOnce, compressLogFile); but *)
(* for the lines of today that the code itself empties away, when after a  *)
(* start or a failed change of file it cannot open today's file to append  *)
(* to (openExistingOrNew).                                                 *)
EntriesKept ==
  smooth => \A w \in written \ cut :
              w[2] > day - ReserveDay => Holds(plain[w[2]], w[1]) \/ Holds(gz[w[2]], w[1])
===============================================================================
