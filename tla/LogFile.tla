------------------------------- MODULE LogFile -------------------------------
(***************************************************************************)
(* The log files of logd, src/log/file.c: every log has its own file and   *)
(* archives file.0 ... file.MaxLogs; a file that is full becomes an        *)
(* archive, and archives of the largest logs are removed when there are    *)
(* too many files altogether.  new_file() is one step per system call, so  *)
(* that logd can be killed between any two of them and started again.      *)
(***************************************************************************)
EXTENDS Integers, FiniteSets, FiniteSetsExt

CONSTANTS
  Logs,       \* pairs of program and group that log
  NoLog,
  MaxLogs,    \* MAXLOGS_FOR_ONE, 99
  MaxFiles,   \* MAX_LOGFILES, 512
  CleanStep,  \* LOGFILE_CLEAN_STEP, 16
  MaxSize,    \* LOGFILE_MAXSIZE, in messages; sizes beyond it are not told apart
  Faults      \* system calls that may fail: "remove", "rename", "open", "stat"

ASSUME LogFileAssumption ==
  /\ IsFiniteSet(Logs) /\ Logs \cap {NoLog, "other", "closed"} = {}
  /\ MaxLogs \in Nat \ {0} /\ CleanStep \in Nat \ {0} /\ MaxFiles \in Nat /\ MaxSize \in Nat \ {0}
  /\ Faults \subseteq {"remove", "rename", "open", "stat"}

NoFile == -1
Slots == 0..MaxLogs
Fds == 0..Cardinality(Logs)

VARIABLES
  main,     \* on disk: the size of every log's file, or NoFile
  old,      \* on disk: the archives of every log
  up,       \* logd runs
  scan,     \* the files init_internal() has still to visit
  known,    \* the hash table: logs with a struct log_file
  num, index, size, fd,   \* the fields of that struct
  total,    \* lfctx.num
  opened,   \* every descriptor: the log whose file it is, "other" or "closed"
  cur, at, times          \* new_file(): for which log, how far, cleaned how often

disk == <<main, old>>
struct == <<known, num, index, size, fd>>
job == <<cur, at, times>>
vars == <<disk, up, scan, struct, total, opened, job>>

None == [l \in Logs |-> 0]

Init ==
  /\ main = [l \in Logs |-> NoFile] /\ old = [l \in Logs |-> {}]
  /\ up = FALSE /\ scan = {} /\ known = {} /\ total = 0
  /\ num = None /\ index = None /\ size = None /\ fd = None
  /\ opened = [f \in Fds |-> "closed"]
  /\ cur = NoLog /\ at = "idle" /\ times = 0

Smaller(a, b) == IF a < b THEN a ELSE b

-----------------------------------------------------------------------------
(* start, and death at any time *)

\* init_logfile(): logs whose file was renamed but not opened again are missed.
Start ==
  /\ ~up /\ up' = TRUE
  /\ scan' = {l \in Logs : main[l] # NoFile}
  /\ opened' = [f \in Fds |-> IF f = 0 THEN "other" ELSE "closed"]
  /\ UNCHANGED <<disk, struct, total, job>>

Crash ==
  /\ up /\ up' = FALSE /\ scan' = {} /\ known' = {} /\ total' = 0
  /\ num' = None /\ index' = None /\ size' = None /\ fd' = None
  /\ opened' = [f \in Fds |-> "closed"]
  /\ cur' = NoLog /\ at' = "idle" /\ times' = 0
  /\ UNCHANGED disk

-----------------------------------------------------------------------------
(* new_log() *)

\* get_index(): the first slot that is free; the last one is never looked at.
FirstFree(l) ==
  LET free == {i \in 0..(MaxLogs - 1) : i \notin old[l]}
  IN  IF free = {} THEN MaxLogs ELSE Min(free)

Files(l) == (IF main[l] = NoFile THEN 0 ELSE 1) + Cardinality(old[l] \ {MaxLogs})

NewLog(l) ==
  /\ known' = known \cup {l}
  /\ num' = [num EXCEPT ![l] = Files(l)]
  /\ index' = [index EXCEPT ![l] = FirstFree(l)]
  /\ total' = total + Files(l)
  /\ UNCHANGED <<size, fd>>
  /\ cur' = l /\ at' = "clean" /\ times' = 0
  /\ UNCHANGED <<disk, up, opened>>

\* scan_subdir(); the order is readdir()'s.
Scan == /\ up /\ at = "idle"
        /\ \E l \in scan : NewLog(l) /\ scan' = scan \ {l}

\* open_logfile() for a log that is not in the table
Open == /\ up /\ at = "idle" /\ scan = {}
        /\ \E l \in Logs \ known : NewLog(l) /\ UNCHANGED scan

-----------------------------------------------------------------------------
(* new_file() *)

\* The inner loop of the clean-up starts two behind the slot to be used next.
Archives(l) == old[l] \cap 1..MaxLogs

Victim(l) ==
  LET start == IF index[l] + 2 > MaxLogs THEN 1 ELSE index[l] + 2
  IN  CHOOSE i \in Archives(l) :
        \A j \in Archives(l) : (i - start) % MaxLogs <= (j - start) % MaxLogs

Cleaning == at = "clean" /\ (times > 0 \/ total >= MaxFiles)

\* Mutant: the smallest logs are cleaned.
LargestNot == {l \in known : num[l] > 0 /\ \A k \in known : num[k] > 0 => num[k] >= num[l]}

\* The logs that have the most files; which one is a matter of hash order.
Largest == {l \in known : num[l] > 0 /\ \A k \in known : num[k] <= num[l]}

\* One turn of the clean-up; without an archive to remove it never ends.
Clean ==
  /\ Cleaning
  /\ \E l \in Largest :
       /\ Archives(l) # {}
       /\ \/ old' = [old EXCEPT ![l] = @ \ {Victim(l)}]
          \/ "remove" \in Faults /\ UNCHANGED old
       /\ num' = [num EXCEPT ![l] = @ - 1]
  /\ total' = total - 1
  /\ times' = (times + 1) % CleanStep
  /\ UNCHANGED <<main, up, scan, known, index, size, fd, opened, cur, at>>

Cleaned ==
  /\ at = "clean" /\ ~Cleaning /\ at' = "replace"
  /\ UNCHANGED <<disk, up, scan, struct, total, opened, cur, times>>

\* Mutant: the archive is removed and still counted.
ReplaceStillCounted ==
  /\ at = "replace" /\ at' = "rename"
  /\ IF index[cur] \in old[cur]
     THEN /\ \/ old' = [old EXCEPT ![cur] = @ \ {index[cur]}]
             \/ "remove" \in Faults /\ UNCHANGED old
          /\ UNCHANGED <<num, total>>
     ELSE UNCHANGED <<old, num, total>>
  /\ UNCHANGED <<main, up, scan, known, index, size, fd, opened, cur, times>>

\* The archive that has the next name makes room.
Replace ==
  /\ at = "replace" /\ at' = "rename"
  /\ IF index[cur] \in old[cur]
     THEN /\ \/ old' = [old EXCEPT ![cur] = @ \ {index[cur]}]
             \/ "remove" \in Faults /\ UNCHANGED old
          /\ num' = [num EXCEPT ![cur] = @ - 1]
          /\ total' = total - 1
     ELSE UNCHANGED <<old, num, total>>
  /\ UNCHANGED <<main, up, scan, known, index, size, fd, opened, cur, times>>

Failed == at' = "idle" /\ cur' = NoLog /\ UNCHANGED <<disk, struct, total, opened>>

\* A file that is full becomes an archive.
Rename ==
  /\ at = "rename"
  /\ \/ size[cur] < MaxSize /\ at' = "open" /\ UNCHANGED <<disk, num, total, cur>>
     \/ /\ size[cur] >= MaxSize /\ main[cur] # NoFile
        /\ main' = [main EXCEPT ![cur] = NoFile]
        /\ old' = [old EXCEPT ![cur] = @ \cup {index[cur]}]
        /\ num' = [num EXCEPT ![cur] = @ + 1]
        /\ total' = total + 1
        /\ at' = "open" /\ UNCHANGED cur
     \/ /\ size[cur] >= MaxSize
        /\ main[cur] = NoFile \/ "rename" \in Faults
        /\ Failed
  /\ UNCHANGED <<up, scan, known, index, size, fd, opened, times>>

\* open(), which returns the lowest descriptor, and fstat()
Reopen ==
  /\ at = "open" /\ at' = "idle" /\ cur' = NoLog
  /\ \/ "open" \in Faults /\ UNCHANGED <<main, index, size, fd, opened>>
     \/ LET f == Min({g \in Fds : opened[g] = "closed"})
            s == IF main[cur] = NoFile THEN 0 ELSE main[cur]
        IN  /\ main' = [main EXCEPT ![cur] = s]
            /\ opened' = [opened EXCEPT ![f] = cur]
            /\ fd' = [fd EXCEPT ![cur] = f]
            /\ index' = [index EXCEPT ![cur] = (@ + 1) % (MaxLogs + 1)]
            /\ \/ size' = [size EXCEPT ![cur] = s]
               \/ "stat" \in Faults /\ UNCHANGED size
  /\ UNCHANGED <<old, up, scan, known, num, total, times>>

-----------------------------------------------------------------------------
(* write_log(): a message of one unit; a closed descriptor refuses it. *)

Write ==
  /\ up /\ at = "idle" /\ scan = {}
  /\ \E l \in known :
       LET o == opened[fd[l]]
           s == Smaller(size[l] + 1, MaxSize)
       IN  /\ o # "closed"
           /\ main' = IF o = "other" THEN main
                      ELSE [main EXCEPT ![o] = Smaller(@ + 1, MaxSize)]
           /\ size' = [size EXCEPT ![l] = s]
           /\ IF s >= MaxSize
              THEN /\ opened' = [opened EXCEPT ![fd[l]] = "closed"]
                   /\ cur' = l /\ at' = "clean" /\ times' = 0
              ELSE UNCHANGED <<opened, job>>
  /\ UNCHANGED <<old, up, scan, known, num, index, fd, total>>

NewFile == Clean \/ Cleaned \/ Replace \/ Rename \/ Reopen

Next == Start \/ Crash \/ Scan \/ Open \/ Write \/ NewFile

Spec == Init /\ [][Next]_vars

-----------------------------------------------------------------------------
(* properties *)

\* The sum of what the logs count, as a number of pairs of a log and one of its
\* files; a count below 0, which a failed remove() leads to, takes pairs away.
Pairs(count) == UNION {{l} \X (1..count[l]) : l \in known}
Sum == Cardinality(Pairs(num)) - Cardinality(Pairs([l \in Logs |-> -num[l]]))

\* No log counts more files than it has, its own file included.
CountedExist == \A l \in known : num[l] <= Cardinality(old[l]) + 1

\* Every descriptor that is open is the one its log writes to.
NoFdLost == \A f \in Fds : opened[f] \in Logs => opened[f] \in known /\ fd[opened[f]] = f

(***************************************************************************)
(* After every call that failed and in the middle of every rotation, the   *)
(* total the clean-up goes by is the sum of what the logs count, no log    *)
(* counts a file that is not on disk - a count that runs ahead sends the   *)
(* clean-up after archives that do not exist -, and no descriptor is lost. *)
(***************************************************************************)
BooksRight ==
  /\ total = Sum
  /\ CountedExist
  /\ NoFdLost

(***************************************************************************)
(* Once a log is opened or rotated the total is within MAX_LOGFILES again, *)
(* whatever a start has found on disk and whichever call has failed; and   *)
(* the inner loop of the clean-up always finds an archive of the log it    *)
(* has chosen.  It looks for file.1 ... file.MaxLogs only, while the log's *)
(* own file and file.0 are counted too, so this needs                      *)
(* 2 * Cardinality(Logs) <= MaxFiles - CleanStep (248 logs).               *)
(***************************************************************************)
CleanupWorks ==
  /\ at = "idle" => total <= MaxFiles
  /\ Cleaning => Largest # {} /\ \A l \in Largest : Archives(l) # {}
=============================================================================
