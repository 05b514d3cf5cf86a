------------------------------ MODULE LogFile ------------------------------
(***************************************************************************)
(* The files of src/common/log/log.c: the current log, named after the     *)
(* second of its process's start, and the old ones, moved to old/ when     *)
(* the current one has grown too long (under a name made of that second)   *)
(* or when a later process starts (under their own names), and removed     *)
(* there a week after they were last written to.                           *)
(*                                                                         *)
(* Client rules: the clock does not go back; in one second at most one     *)
(* process starts and the log is rotated at most once, for the names have  *)
(* a resolution of one second.                                             *)
(***************************************************************************)
EXTENDS Integers, Sequences, FiniteSets

CONSTANTS MaxTime,   \* bound: seconds
          MaxLines,  \* bound: lines written
          MaxSize,   \* MAX_LOG_FILE_SIZE_2MB, in lines
          Keep       \* MAX_LOG_FILE_TIME_7DAYS

ASSUME LogFileAssumption ==
    MaxTime \in Nat /\ MaxLines \in Nat /\ MaxSize \in Nat /\ Keep \in Nat

Times == 0 .. MaxTime
Current == {"dir"} \X {"start"} \X Times
Old == {"old"} \X {"start", "rotated"} \X Times
Absent == [lines |-> <<>>, mtime |-> -1]

VARIABLES now,
          files,             \* what each name names
          current_log_path,
          log_file,          \* whether the current log is open
          running,           \* whether the process is up
          stamp              \* when each line that went to a file was written

fileVars == <<now, files, current_log_path, log_file, running, stamp>>

FilesTypeOK ==
    /\ now \in Times
    /\ files \in [Current \cup Old -> [lines : Seq(1 .. MaxLines), mtime : Times \cup {-1}]]
    /\ current_log_path \in Current /\ log_file \in BOOLEAN /\ running \in BOOLEAN
    /\ stamp \in Seq(Times)

FilesInit ==
    /\ now = 0 /\ files = [n \in Current \cup Old |-> Absent]
    /\ current_log_path = <<"dir", "start", 0>>
    /\ log_file = FALSE /\ running = FALSE /\ stamp = <<>>

Exists(n) == files[n] # Absent

(* rename, which replaces what had the new name.                           *)
Moved(f, from, to) == [f EXCEPT ![to] = f[from], ![from] = Absent]

OpenedNew(f, n) == [f EXCEPT ![n] = [lines |-> <<>>, mtime |-> now]]   \* fault: opened with "w"

(* fopen(n, "a") *)
Opened(f, n) == IF f[n] = Absent THEN [f EXCEPT ![n].mtime = now] ELSE f

(* log_cleanup_old_files, which may fail to remove some.                   *)
Cleaned(f) ==
    {[n \in DOMAIN f |-> IF n \in gone THEN Absent ELSE f[n]] :
        gone \in SUBSET {n \in Old : f[n] # Absent /\ f[n].mtime < now - Keep}}

(* The move of the current logs of earlier processes, some of which fail.  *)
Migrated(f) ==
    {[n \in DOMAIN f |->
        IF n \in from THEN Absent
        ELSE IF n[2] = "start" /\ <<"dir", "start", n[3]>> \in from THEN f[<<"dir", "start", n[3]>>]
        ELSE f[n]] : from \in SUBSET {n \in Current : f[n] # Absent}}

log_init ==
    /\ ~running /\ ~Exists(<<"dir", "start", now>>) /\ ~Exists(<<"old", "start", now>>)
    /\ running' = TRUE
    /\ \E f \in Cleaned(files) :
        \/ /\ files' = f   \* no directory
           /\ UNCHANGED <<current_log_path, log_file>>
        \/ \E g \in Migrated(f) :
            /\ current_log_path' = <<"dir", "start", now>>
            /\ log_file' \in BOOLEAN
            /\ files' = IF log_file' THEN Opened(g, current_log_path') ELSE g
    /\ UNCHANGED <<now, stamp>>

Appended == [files EXCEPT ![current_log_path] =
                [lines |-> Append(@.lines, Len(stamp) + 1), mtime |-> now]]
TooLong == Len(files[current_log_path].lines) >= MaxSize

(* log_write of a line that does not make the log too long.                *)
log_write ==
    /\ running /\ log_file /\ Len(stamp) < MaxLines /\ ~TooLong
    /\ files' = Appended /\ stamp' = Append(stamp, now)
    /\ UNCHANGED <<now, current_log_path, log_file, running>>

(* log_write and check_rotate_log, with and without the rename.            *)
check_rotate_log ==
    LET to == <<"old", "rotated", now>> IN
    /\ running /\ log_file /\ Len(stamp) < MaxLines /\ TooLong
    /\ ~Exists(to)
    /\ stamp' = Append(stamp, now)
    /\ log_file' \in BOOLEAN
    /\ \E f \in {Appended, Moved(Appended, current_log_path, to)} :
        files' = IF log_file' THEN Opened(f, current_log_path) ELSE f
    /\ UNCHANGED <<now, current_log_path, running>>

Crash ==
    /\ running
    /\ running' = FALSE /\ log_file' = FALSE
    /\ UNCHANGED <<now, files, current_log_path, stamp>>

ClockTicks == now < MaxTime /\ now' = now + 1 /\ UNCHANGED <<files, current_log_path, log_file, running, stamp>>

FilesNext == log_init \/ log_write \/ check_rotate_log \/ Crash \/ ClockTicks
FilesSpec == FilesInit /\ [][FilesNext]_fileVars
-----------------------------------------------------------------------------
(* A line that went to a file is in exactly one file, once and in its      *)
(* order, until it is older than a week: through rotations, restarts,      *)
(* renames that fail and the cleanup.                                      *)
LogKeepsLines ==
    /\ \A l \in DOMAIN stamp : stamp[l] >= now - Keep =>
           Cardinality({n \in DOMAIN files : l \in {files[n].lines[k] : k \in DOMAIN files[n].lines}}) = 1
    /\ \A n \in DOMAIN files : \A j, k \in DOMAIN files[n].lines :
           j < k => files[n].lines[j] < files[n].lines[k]
=============================================================================
