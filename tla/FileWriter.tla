----------------------------- MODULE FileWriter -----------------------------
(***************************************************************************)
(* internal/output/file_writer.go: the writer that appends lines to a file *)
(* and rotates it when it is full.                                         *)
(*                                                                         *)
(* A rotated file is named after the second of its rotation.  It is        *)
(* compressed by a goroutine of its own, and a further goroutine per       *)
(* rotation removes the rotated files that have become too old; neither    *)
(* is waited for by Close.                                                 *)
(***************************************************************************)
EXTENDS Integers, Sequences, FiniteSets

CONSTANTS MaxWrites,    \* bound on the lines explored
          MaxTime,      \* bound on the clock, in seconds
          Parts         \* lengths of the parts explored of a line written in part

ASSUME FileWriterAssumption ==
    /\ MaxWrites \in Nat
    /\ MaxTime \in Nat
    /\ Parts \subseteq Nat

VARIABLES
    now,        \* the clock
    maxSize,    \* fw.maxSize; 0 is no limit
    maxAge,     \* fw.maxAge; 0 keeps every file
    compress,   \* fw.compress
    disk,       \* the files in the directory, by name
    handle,     \* fw.file: none, open, or closed
    size,       \* fw.size
    gzips,      \* the running compressFile goroutines
    cleaners,   \* the running cleanupOldFiles goroutines
    wrote,      \* history: when each line was written, for those written
    rotatedAt   \* history: the lines of the files rotated in each second

fileVars == <<now, maxSize, maxAge, compress, disk, handle, size, gzips, cleaners,
              wrote, rotatedAt>>
fileConfig == <<maxSize, maxAge, compress>>

Times == 0..MaxTime

\* Names: the path itself, the rotated files and their compressed forms.
path == <<"log">>
Rotated(t) == <<"rotated", t>>
Gz(t) == <<"gz", t>>
Names == {path} \cup {Rotated(t) : t \in Times} \cup {Gz(t) : t \in Times}

\* whole: the file can be read back; a compressed one only when it is finished.
File == [lines : SUBSET (1..MaxWrites), bytes : Nat, mtime : Times, whole : BOOLEAN]

FileTypeOK ==
    /\ now \in Times
    /\ maxSize \in Nat /\ maxAge \in Nat /\ compress \in BOOLEAN
    /\ DOMAIN disk \subseteq Names
    /\ \A n \in DOMAIN disk : disk[n] \in File
    /\ handle \in {"none", "open", "closed"}
    /\ handle = "open" => path \in DOMAIN disk
    /\ size \in Nat
    /\ gzips \subseteq [at : Times, nr : Nat, step : {"start", "copy", "remove"},
                      lines : SUBSET (1..MaxWrites)]
    /\ cleaners \subseteq [at : Times, nr : Nat, step : {"scan", "remove"}, old : SUBSET (Names \ {path})]
    /\ DOMAIN wrote \subseteq 1..MaxWrites
    /\ \A id \in DOMAIN wrote : wrote[id] \in Times
    /\ rotatedAt \in [Times -> Seq(SUBSET (1..MaxWrites))]

\* The directory may hold the file of an earlier run, of some size.
FileInit(bytes, cfg) ==
    /\ now = 0
    /\ maxSize = cfg.maxSize /\ maxAge = cfg.maxAge /\ compress = cfg.compress
    /\ disk = [n \in {path} |-> [lines |-> {}, bytes |-> bytes, mtime |-> 0, whole |-> TRUE]]
    /\ handle = "none"
    /\ size = 0
    /\ gzips = {}
    /\ cleaners = {}
    /\ wrote = <<>>
    /\ rotatedAt = [t \in Times |-> <<>>]

Tick ==
    /\ now < MaxTime
    /\ now' = now + 1
    /\ UNCHANGED <<fileConfig, disk, handle, size, gzips, cleaners, wrote, rotatedAt>>

-----------------------------------------------------------------------------
\* Mutant: the size of an existing file is not asked for.
NewFileWriterFromZero ==
    /\ handle' = "open"
    /\ size' = 0
    /\ UNCHANGED <<now, fileConfig, disk, gzips, cleaners, wrote, rotatedAt>>

NewFileWriter ==
    /\ handle' = "open"
    /\ size' = disk[path].bytes
    /\ UNCHANGED <<now, fileConfig, disk, gzips, cleaners, wrote, rotatedAt>>

NeedsRotation(len) == maxSize > 0 /\ size + len > maxSize

\* The map f with v at x, new or not.
Updated(f, x, v) == [y \in DOMAIN f \cup {x} |-> IF y = x THEN v ELSE f[y]]

\* The file f with n bytes of line id appended; all of the line or only a part.
Appended(f, id, n, all) ==
    [lines |-> IF all THEN f.lines \cup {id} ELSE f.lines, bytes |-> f.bytes + n,
     mtime |-> now, whole |-> f.whole]

\* fw.file.WriteString: the whole line is written, or an error is returned
\* after a part of it.
Written(len) == {len} \cup {n \in Parts : n < len}

WriteString(id, len, f, start, ok) ==
    \E n \in Written(len) :
        /\ ok = (n = len)
        /\ disk' = Updated(disk, path, Appended(f, id, n, ok))
        /\ size' = start + n
        /\ wrote' = IF ok THEN Updated(wrote, id, now) ELSE wrote
        /\ UNCHANGED <<now, fileConfig, handle, gzips, cleaners, rotatedAt>>

\* Close or Rename fails: the file stays where it is, closed.
RenameFails ==
    /\ handle' = "closed"
    /\ UNCHANGED <<now, fileConfig, disk, size, gzips, cleaners, wrote, rotatedAt>>

\* The directory after the rename, which replaces a file of that name.
Renamed == [n \in (DOMAIN disk \ {path}) \cup {Rotated(now)} |->
               IF n = Rotated(now) THEN disk[path] ELSE disk[n]]

\* The goroutines of a rotation, told apart by the rotation that started them.
Compressor == [at |-> now, nr |-> Len(rotatedAt[now]), step |-> "start", lines |-> {}]
Cleaner == [at |-> now, nr |-> Len(rotatedAt[now]), step |-> "scan", old |-> {}]

Rotates ==
    /\ rotatedAt' = [rotatedAt EXCEPT ![now] = Append(@, disk[path].lines)]
    /\ gzips' = IF compress THEN gzips \cup {Compressor} ELSE gzips

\* The new file cannot be opened: there is none, and fw.file is the closed one.
ReopenFails ==
    /\ Rotates
    /\ disk' = Renamed
    /\ handle' = "closed"
    /\ UNCHANGED <<now, fileConfig, size, cleaners, wrote>>

\* rotate succeeds, and the line is written to the new file or is not.
RotateAndWrite(id, len, ok) ==
    \E n \in Written(len) :
        /\ ok = (n = len)
        /\ Rotates
        /\ disk' = Updated(Renamed, path, Appended([lines |-> {}, bytes |-> 0, mtime |-> now,
                                                whole |-> TRUE], id, n, ok))
        /\ size' = n
        /\ wrote' = IF ok THEN Updated(wrote, id, now) ELSE wrote
        /\ cleaners' = IF maxAge > 0 THEN cleaners \cup {Cleaner} ELSE cleaners
        /\ UNCHANGED <<now, fileConfig, handle>>

\* FileWriter.Write, under fw.mu; ok is its result.  Once a rotation has failed
\* fw.file is closed, and every later rotation and write fails.
Write(id, len, ok) ==
    \/ /\ handle = "closed"
       /\ ~ok
       /\ UNCHANGED fileVars
    \/ /\ handle = "open" /\ ~NeedsRotation(len)
       /\ WriteString(id, len, disk[path], size, ok)
    \/ /\ handle = "open" /\ NeedsRotation(len)
       /\ \/ ~ok /\ RenameFails
          \/ ~ok /\ ReopenFails
          \/ RotateAndWrite(id, len, ok)

\* Close; an error if the file was closed before.
CloseFile ==
    /\ handle' = "closed"
    /\ UNCHANGED <<now, fileConfig, disk, size, gzips, cleaners, wrote, rotatedAt>>

-----------------------------------------------------------------------------
(* compressFile.                                                           *)

Step(set, g, h) == (set \ {g}) \cup {h}

\* The source cannot be opened or the .gz file not created: the rotated file may
\* be gone, since another goroutine for the same name removed it.
OpenFailed(g) == gzips' = gzips \ {g} /\ UNCHANGED disk

OpenSource(g) ==
    /\ g.step = "start"
    /\ \/ OpenFailed(g)
       \/ /\ Rotated(g.at) \in DOMAIN disk
          /\ gzips' = Step(gzips, g, [g EXCEPT !.step = "copy", !.lines = disk[Rotated(g.at)].lines])
          /\ disk' = Updated(disk, Gz(g.at), [lines |-> {}, bytes |-> 0, mtime |-> now, whole |-> FALSE])
    /\ UNCHANGED <<now, fileConfig, handle, size, cleaners, wrote, rotatedAt>>

\* Mutant: the source is removed although it could not be copied.
CopyFailedRemoves(g) == Step(gzips, g, [g EXCEPT !.step = "remove"])

\* The goroutine gives up; the unfinished .gz file stays.
CopyFailed(g) == gzips \ {g}

\* io.Copy and gz.Close, to a file that may have been removed in the meantime.
Copy(g) ==
    /\ g.step = "copy"
    /\ \/ /\ disk' = IF Gz(g.at) \notin DOMAIN disk THEN disk
                     ELSE [disk EXCEPT ![Gz(g.at)] =
                              [@ EXCEPT !.lines = g.lines, !.mtime = now, !.whole = TRUE]]
          /\ gzips' = Step(gzips, g, [g EXCEPT !.step = "remove"])
       \/ UNCHANGED disk /\ gzips' = CopyFailed(g)
    /\ UNCHANGED <<now, fileConfig, handle, size, cleaners, wrote, rotatedAt>>

Without(names) == [n \in DOMAIN disk \ names |-> disk[n]]

\* An error of os.Remove is ignored.
Remove(g) ==
    /\ g.step = "remove"
    /\ disk' \in {disk, Without({Rotated(g.at)})}
    /\ gzips' = gzips \ {g}
    /\ UNCHANGED <<now, fileConfig, handle, size, cleaners, wrote, rotatedAt>>

compressFile == \E g \in gzips : OpenSource(g) \/ Copy(g) \/ Remove(g)

-----------------------------------------------------------------------------
(* cleanupOldFiles: the directory is read first, and the files that were   *)
(* too old then are removed.                                               *)

TooOld(f) == f.mtime < now - maxAge

\* The directory cannot be read, or the candidates are found.
Scan(c) ==
    /\ c.step = "scan"
    /\ \/ cleaners' = cleaners \ {c}
       \/ cleaners' = Step(cleaners, c, [c EXCEPT !.step = "remove",
                               !.old = {n \in DOMAIN disk \ {path} : TooOld(disk[n])}])
    /\ UNCHANGED <<now, fileConfig, disk, handle, size, gzips, wrote, rotatedAt>>

RemoveOld(c) ==
    /\ c.step = "remove"
    /\ disk' = Without(c.old)
    /\ cleaners' = cleaners \ {c}
    /\ UNCHANGED <<now, fileConfig, handle, size, gzips, wrote, rotatedAt>>

cleanupOldFiles == \E c \in cleaners : Scan(c) \/ RemoveOld(c)

=============================================================================
