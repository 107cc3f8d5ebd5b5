------------------------------ MODULE LogTail ------------------------------
(***************************************************************************)
(* internal/caddylog's Tailer as a reader of a file that others write,     *)
(* rotate and truncate: Run, followOnce and the bufio.Reader in between.   *)
(* Caddy appends a line in one write, of which a reader may see the first  *)
(* part alone; it rolls the log by renaming the file and creating a new    *)
(* one; logrotate's copytruncate cuts it to nothing in place.              *)
(* A line is two units of the file, its head and its tail, the tail with   *)
(* the newline; positions count units.  Lines are numbered as written.     *)
(***************************************************************************)
EXTENDS Integers, Sequences, FiniteSets, FiniteSetsExt

CONSTANTS
    MaxLines,       \* bound: lines written
    MaxFiles,       \* bound: files created, the first one included
    MaxTruncations, \* bound: truncations
    MaxFaults       \* bound: read errors, panics and failing stats

ASSUME TailBoundAssumption ==
    /\ MaxLines \in Nat /\ MaxTruncations \in Nat /\ MaxFaults \in Nat
    /\ MaxFiles \in Nat \ {0}

Lines == 1 .. MaxLines
Inodes == 1 .. MaxFiles
NoFile == 0
Units == Lines \X {"head", "tail"}

VARIABLES
    files,     \* what each inode holds
    newest,    \* the inode created last
    path,      \* the inode the log path names: the newest or none
    nextLine,  \* the line Caddy writes next
    half,      \* only the head of it is visible yet
    phase,     \* followOnce: "closed", "read", "poll"
    fd,        \* the open inode
    pos,       \* how far the file has been read into the buffer
    ahead,     \* what bufio.Reader holds
    offset,    \* followOnce's own count of what it consumed
    started,   \* Tailer.started
    epoch,     \* history: how often each inode was truncated
    home,      \* history: the inode and the epoch each line was written to
    view,      \* history: the epoch of the open inode when it was opened
    skipped,   \* history: lines in the file before the first open
    seen,      \* history: the lines processed, in order
    torn,      \* history: lines whose head was thrown away at the end of file
    blind,     \* history: the reader went on with a truncated file
    faults     \* history: errors that made Run open the file again

disk == <<files, newest, path, nextLine, half, epoch, home>>
reader == <<phase, fd, pos, ahead, offset, started, view>>
record == <<skipped, seen, torn, blind, faults>>
tailVars == <<disk, reader, record>>

TypeOK ==
    /\ files \in [Inodes -> Seq(Units)]
    /\ newest \in Inodes
    /\ path \in {newest, NoFile}
    /\ nextLine \in 1 .. MaxLines + 1
    /\ half \in BOOLEAN
    /\ phase \in {"closed", "read", "poll"}
    /\ fd \in Inodes
    /\ pos \in Nat
    /\ ahead \in Seq(Units)
    /\ offset \in 0 .. pos
    /\ started \in BOOLEAN
    /\ epoch \in [Inodes -> 0 .. MaxTruncations]
    /\ home \in Seq(Inodes \X Nat)
    /\ view \in Nat
    /\ skipped \subseteq Lines
    /\ seen \in Seq(Lines)
    /\ torn \subseteq Lines
    /\ blind \in BOOLEAN
    /\ faults \in 0 .. MaxFaults

Init ==
    /\ files = [i \in Inodes |-> <<>>]
    /\ newest = 1
    /\ path = 1
    /\ nextLine = 1
    /\ half = FALSE
    /\ phase = "closed"
    /\ fd = 1
    /\ pos = 0
    /\ ahead = <<>>
    /\ offset = 0
    /\ started = FALSE
    /\ epoch = [i \in Inodes |-> 0]
    /\ home = <<>>
    /\ view = 0
    /\ skipped = {}
    /\ seen = <<>>
    /\ torn = {}
    /\ blind = FALSE
    /\ faults = 0

Size(i) == Len(files[i])

-----------------------------------------------------------------------------
(* The world outside: Caddy and logrotate. *)

WriteHead ==
    /\ path # NoFile
    /\ ~half
    /\ nextLine =< MaxLines
    /\ files' = [files EXCEPT ![path] = Append(@, <<nextLine, "head">>)]
    /\ home' = Append(home, <<path, epoch[path]>>)
    /\ half' = TRUE
    /\ UNCHANGED <<newest, path, nextLine, epoch, reader, record>>

WriteTail ==
    /\ half
    /\ files' = [files EXCEPT ![path] = Append(@, <<nextLine, "tail">>)]
    /\ nextLine' = nextLine + 1
    /\ half' = FALSE
    /\ UNCHANGED <<newest, path, epoch, home, reader, record>>

(* Caddy rolls its log: the path names nothing for a moment. *)
RollAway ==
    /\ ~half
    /\ path # NoFile
    /\ newest < MaxFiles
    /\ path' = NoFile
    /\ UNCHANGED <<newest, files, nextLine, half, epoch, home, reader, record>>

RollCreate ==
    /\ path = NoFile
    /\ newest' = newest + 1
    /\ path' = newest + 1
    /\ UNCHANGED <<files, nextLine, half, epoch, home, reader, record>>

(* logrotate with copytruncate; Caddy goes on appending at the new end. *)
Truncate ==
    /\ ~half
    /\ path # NoFile
    /\ Size(path) > 0
    /\ epoch[path] < MaxTruncations
    /\ files' = [files EXCEPT ![path] = <<>>]
    /\ epoch' = [epoch EXCEPT ![path] = @ + 1]
    /\ UNCHANGED <<newest, path, nextLine, half, home, reader, record>>

World == WriteHead \/ WriteTail \/ RollAway \/ RollCreate \/ Truncate

-----------------------------------------------------------------------------
(* followOnce, up to the loop. *)

(* Mutant: the error of os.Open is ignored. *)
OpenMissing ==
    /\ phase = "closed"
    /\ fd' = path
    /\ view' = 0
    /\ offset' = 0
    /\ ahead' = <<>>
    /\ phase' = "read"
    /\ pos' = 0
    /\ UNCHANGED <<started, disk, record>>

(* Mutant: every open seeks to the end. *)
OpenAtEnd ==
    /\ phase = "closed"
    /\ path # NoFile
    /\ fd' = path
    /\ view' = epoch[path]
    /\ offset' = 0
    /\ ahead' = <<>>
    /\ phase' = "read"
    /\ pos' = Size(path)
    /\ skipped' = skipped \cup (IF started THEN {} ELSE 1 .. Len(home))
    /\ started' = TRUE
    /\ UNCHANGED <<disk, seen, torn, blind, faults>>

(* While the path names no file os.Open fails, and Run tries again a second
   later.  The first open that succeeds seeks to the end, every other one
   starts at the head; either way the count of consumed bytes starts at 0. *)
OpenLog ==
    /\ phase = "closed"
    /\ path # NoFile
    /\ fd' = path
    /\ view' = epoch[path]
    /\ offset' = 0
    /\ ahead' = <<>>
    /\ phase' = "read"
    /\ pos' = IF started THEN 0 ELSE Size(path)
    /\ skipped' = skipped \cup (IF started THEN {} ELSE 1 .. Len(home))
    /\ started' = TRUE
    /\ UNCHANGED <<disk, seen, torn, blind, faults>>

-----------------------------------------------------------------------------
(* reader.ReadBytes('\n'): takes a line from the buffer, or fills it from the
   file, or reports the end of the file and hands over, for nothing, what it
   holds of an unfinished line. *)

IsTail(u) == u[2] = "tail"
HasLine == \E i \in DOMAIN ahead : IsTail(ahead[i])

Fill ==
    /\ phase = "read"
    /\ ~HasLine
    /\ \E n \in 1 .. Size(fd) - pos :
         /\ ahead' = ahead \o SubSeq(files[fd], pos + 1, pos + n)
         /\ pos' = pos + n
    /\ blind' = (blind \/ epoch[fd] # view)
    /\ UNCHANGED <<phase, fd, offset, started, view, disk, skipped, seen, torn, faults>>

(* Where the first line of the buffer ends. *)
LineEnd == Min({i \in DOMAIN ahead : IsTail(ahead[i])})

(* A whole line is processed; what starts in the middle of one is no JSON. *)
TakeLine ==
    /\ phase = "read"
    /\ HasLine
    /\ offset' = offset + LineEnd
    /\ ahead' = SubSeq(ahead, LineEnd + 1, Len(ahead))
    /\ LET n == ahead[LineEnd][1]
       IN  seen' = IF SubSeq(ahead, 1, LineEnd) = <<<<n, "head">>, <<n, "tail">>>>
                   THEN Append(seen, n) ELSE seen
    /\ UNCHANGED <<phase, fd, pos, started, view, disk, skipped, torn, blind, faults>>

(* Mutant: the reader asks for a roll before it asks for more of the file. *)
HitEofOrRoll ==
    /\ phase = "read"
    /\ ~HasLine
    /\ pos >= Size(fd) \/ path # fd
    /\ torn' = torn \cup {ahead[i][1] : i \in DOMAIN ahead}
    /\ ahead' = <<>>
    /\ phase' = "poll"
    /\ UNCHANGED <<fd, pos, offset, started, view, disk, skipped, seen, blind, faults>>

HitEof ==
    /\ phase = "read"
    /\ ~HasLine
    /\ pos >= Size(fd)
    /\ torn' = torn \cup {ahead[i][1] : i \in DOMAIN ahead}
    /\ ahead' = <<>>
    /\ phase' = "poll"
    /\ UNCHANGED <<fd, pos, offset, started, view, disk, skipped, seen, blind, faults>>

(* A read error, or a panic while a line is processed: Run reopens. *)
ReadFails ==
    /\ phase = "read"
    /\ faults < MaxFaults
    /\ faults' = faults + 1
    /\ phase' = "closed"
    /\ UNCHANGED <<fd, pos, ahead, offset, started, view, disk, skipped, seen, torn, blind>>

-----------------------------------------------------------------------------
(* The 200 ms later: os.Stat, and the three reasons to return. *)

Moved == path = NoFile \/ path # fd \/ offset > Size(path)

(* Mutant: the size is compared the wrong way round. *)
PollSwapped ==
    /\ phase = "poll"
    /\ phase' = IF path = NoFile \/ path # fd \/ offset < Size(path) THEN "closed" ELSE "read"
    /\ blind' = (blind \/ (phase' = "read" /\ epoch[fd] # view))
    /\ UNCHANGED <<fd, pos, ahead, offset, started, view, disk, skipped, seen, torn, faults>>

Poll ==
    /\ phase = "poll"
    /\ phase' = IF Moved THEN "closed" ELSE "read"
    /\ blind' = (blind \/ (~Moved /\ epoch[fd] # view))
    /\ UNCHANGED <<fd, pos, ahead, offset, started, view, disk, skipped, seen, torn, faults>>

(* os.Stat fails although the file is there. *)
StatFails ==
    /\ phase = "poll"
    /\ faults < MaxFaults
    /\ faults' = faults + 1
    /\ phase' = "closed"
    /\ UNCHANGED <<fd, pos, ahead, offset, started, view, disk, skipped, seen, torn, blind>>

Follow == OpenLog \/ Fill \/ TakeLine \/ HitEof \/ Poll
Fail == ReadFails \/ StatFails

Next == World \/ Follow \/ Fail

(* The tailer's goroutine runs, and a write that began is completed. *)
Spec ==
    /\ Init /\ [][Next]_tailVars
    /\ WF_tailVars(Follow) /\ WF_tailVars(WriteTail) /\ WF_tailVars(RollCreate)

-----------------------------------------------------------------------------
(* Properties. *)

Seen(n) == \E i \in DOMAIN seen : seen[i] = n
Written(n) == n < nextLine
Gone(n) == n \in DOMAIN home /\ home[n] # <<path, epoch[newest]>>
Owed(n) == Written(n) /\ n \notin skipped

(* Lines are processed in the order they were written, none twice and none of
   those that were there before the start: across polls, rolls and truncations,
   noticed or not, as long as no error made Run start the file over. *)
SeenInOrder ==
    /\ faults = 0 => \A i, j \in DOMAIN seen : i < j => seen[i] < seen[j]
    /\ faults = 0 => \A i \in DOMAIN seen : seen[i] \notin skipped

(* An error costs one more reading of a line, never more. *)
ReadAgainOncePerFault ==
    \A n \in Lines : Cardinality({i \in DOMAIN seen : seen[i] = n}) =< 1 + faults

(* No holes: when a line has been processed, so have those before it in the
   same file, unless a line was torn at the end of the file or a truncation
   went unnoticed.  What a roll costs is the end of a file, not the middle. *)
HolesHaveAReason ==
    ~blind => \A n \in Lines : Seen(n) =>
        \A m \in 1 .. n - 1 :
            Owed(m) /\ home[m] = home[n] => Seen(m) \/ m \in torn

(* The line is in the open file, and the reader does not wait at its end. *)
InHand(n) ==
    Written(n) /\ n \notin skipped /\ phase = "read" /\ home[n] = <<fd, view>>

Truncated(n) == n \in DOMAIN home /\ epoch[home[n][1]] # home[n][2]

(* A line is processed in the end, unless it was torn, its file was rolled away
   or truncated before it could be read, or the reader is blind.  A roll alone is
   no excuse while the reader is reading: it finishes the old file first, and
   only what is written while it waits at the end of file (tail.go:122-129) or has
   no file open, or what an error makes it leave, goes with the file. *)
FollowsFile ==
    \A n \in Lines :
        /\ Written(n) ~> \/ Seen(n) \/ n \in skipped \/ n \in torn
                         \/ blind \/ Gone(n)
        /\ InHand(n) /\ faults = 0 ~>
               Seen(n) \/ n \in torn \/ blind \/ faults > 0 \/ Truncated(n)

(* README.md, "after a rotation or truncation the file is read from its head":
   no reader goes on with
   a file that was truncated under it. *)
TruncationNoticed == ~blind
====
