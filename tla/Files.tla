-------------------------------- MODULE Files --------------------------------
(***************************************************************************)
(* pkg/handlers file.go and file_io.go: requests that read and write one   *)
(* path at the same time, on a disk of inodes.  Overwriting and editing go *)
(* through a temporary file and a rename; appending and uploading go       *)
(* through the file the path names when they open it; a reader keeps the   *)
(* file it opened.  Every system call is a step, and the runtime may crash *)
(* between two of them.                                                    *)
(***************************************************************************)
EXTENDS Naturals, FiniteSets, Sequences, FileAnswers

CONSTANTS
    FileReq,        \* bound: requests
    MaxInode,       \* bound: files ever created
    Payload,        \* bound: contents a client sends, sequences of symbols
    Patch,          \* bound: edit lists a client sends
    Hole,           \* what a file holds where nobody wrote
    NoFile

ASSUME FileConstants ==
    /\ MaxInode \in Nat \ {0} /\ NoFile \notin Nat
    /\ \A c \in Payload : c \in Seq({c[k] : k \in 1..Len(c)})
    /\ \A p \in Patch : /\ p \in Seq({p[k] : k \in 1..Len(p)})
                        /\ \A k \in 1..Len(p) : p[k].new \in Seq({p[k].new[j] : j \in 1..Len(p[k].new)})

VARIABLES
    disk,           \* of an inode: its content
    name,           \* the inode the path names, or NoFile
    temps, leaked,  \* inodes a temporary name leads to; those a crash left behind
    req,            \* of a request: see FilesTypeOK
    how,            \* of an inode: "free", "whole", "uploading", or "mixed": written
                    \* by two, or made from something that was not whole
    intended,       \* contents some request meant the file to have
    fcrashed

fileVars == <<disk, name, temps, leaked, req, how, intended, fcrashed>>
Inode == 1..MaxInode
Pcs == {"new", "temp", "tmpwrite", "rename", "unlink", "append", "reading", "read", "chunk", "over"}

FilesTypeOK ==
    /\ name \in Inode \cup {NoFile} /\ temps \subseteq Inode /\ leaked \subseteq temps
    /\ how \in [Inode -> {"free", "whole", "uploading", "mixed"}]
    /\ \A f \in FileReq : /\ req[f].pc \in Pcs /\ req[f].ino \in Inode \cup {NoFile}
                          /\ req[f].op \in {"none", "read", "write", "append", "edit", "upload"}
                          /\ req[f].pos \in Nat /\ req[f].clean \in BOOLEAN
    /\ fcrashed \in BOOLEAN

\* data: what to write, or what was read so far; clean: the content it started
\* from was whole all the time it was read.
Blank == [op |-> "none", pc |-> "new", ino |-> NoFile, data |-> <<>>, pos |-> 0, clean |-> TRUE, patch |-> <<>>]

FilesInit ==
    /\ \/ name = NoFile /\ intended = {} /\ how = [i \in Inode |-> "free"] /\ disk = [i \in Inode |-> <<>>]
       \/ /\ name = 1
          /\ \E c \in Payload : intended = {c} /\ disk = [i \in Inode |-> IF i = 1 THEN c ELSE <<>>]
          /\ how = [i \in Inode |-> IF i = 1 THEN "whole" ELSE "free"]
    /\ temps = {} /\ leaked = {} /\ req = [f \in FileReq |-> Blank] /\ fcrashed = FALSE

Free == {i \in Inode : how[i] = "free"}
Become(f, r) == req' = [req EXCEPT ![f] = r]
Doing(f, op, pc) == req[f].op = op /\ req[f].pc = pc
Over(f) == Become(f, [req[f] EXCEPT !.pc = "over"])

------------------------------------------------------------------------------
(* Reading: /v1/file/read, search, grep, download, and the first half of an  *)
(* edit.  The file is opened by name and then read piece by piece.           *)
OpenRead(f) ==
    /\ req[f].pc = "new"
    /\ \E op \in {"read", "edit"}, p \in Patch :
        /\ op = "read" => p = CHOOSE q \in Patch : TRUE
        /\ IF name = NoFile THEN Become(f, [Blank EXCEPT !.op = "none", !.pc = "over"])
           ELSE Become(f, [Blank EXCEPT !.op = op, !.pc = "reading", !.ino = name,
                                        !.clean = (how[name] = "whole"), !.patch = p])
    /\ UNCHANGED <<disk, name, temps, leaked, how, intended, fcrashed>>

ReadPiece(f) ==
    /\ req[f].pc = "reading"
    /\ LET r == req[f]
           c == disk[r.ino]
       IN Become(f, IF r.pos < Len(c) THEN [r EXCEPT !.data = Append(@, c[r.pos + 1]), !.pos = @ + 1]
                    ELSE [r EXCEPT !.pc = IF r.op = "read" THEN "over" ELSE "read"])
    /\ UNCHANGED <<disk, name, temps, leaked, how, intended, fcrashed>>

\* FileReplaceHandler and FileMultiEditHandler: every step is checked on the
\* content in memory, and nothing is written unless all of them succeed.
Edit(f) ==
    /\ Doing(f, "edit", "read")
    /\ LET done == MultiEdit(req[f].data, req[f].patch)
       IN IF done.ok THEN Become(f, [req[f] EXCEPT !.pc = "temp", !.data = done.content]) ELSE Over(f)
    /\ UNCHANGED <<disk, name, temps, leaked, how, intended, fcrashed>>

------------------------------------------------------------------------------
(* atomicWriteFile: a temporary file in the same directory, renamed over.    *)
ArriveWrite(f) ==
    /\ req[f].pc = "new"
    /\ \E c \in Payload : Become(f, [Blank EXCEPT !.op = "write", !.pc = "temp", !.data = c])
    /\ UNCHANGED <<disk, name, temps, leaked, how, intended, fcrashed>>

CreateTemp_InPlace(f) ==
    /\ req[f].pc = "temp" /\ name # NoFile
    /\ disk' = [disk EXCEPT ![name] = <<>>]
    /\ Become(f, [req[f] EXCEPT !.pc = "tmpwrite", !.ino = name])
    /\ UNCHANGED <<name, temps, leaked, how, intended, fcrashed>>

CreateTemp(f) ==
    /\ req[f].pc = "temp" /\ Free # {}
    /\ LET i == CHOOSE j \in Free : TRUE
       IN /\ temps' = temps \cup {i} /\ how' = [how EXCEPT ![i] = IF req[f].clean THEN "whole" ELSE "mixed"]
          /\ Become(f, [req[f] EXCEPT !.pc = "tmpwrite", !.ino = i])
    /\ UNCHANGED <<disk, name, leaked, intended, fcrashed>>

TmpWrite(f) ==
    /\ req[f].pc = "tmpwrite"
    /\ disk' = [disk EXCEPT ![req[f].ino] = req[f].data]
    /\ Become(f, [req[f] EXCEPT !.pc = "rename"])
    /\ intended' = IF req[f].clean THEN intended \cup {req[f].data} ELSE intended
    /\ UNCHANGED <<name, temps, leaked, how, fcrashed>>

Rename(f) ==
    /\ req[f].pc = "rename" /\ name' = req[f].ino /\ temps' = temps \ {req[f].ino}
    /\ Over(f) /\ UNCHANGED <<disk, leaked, how, intended, fcrashed>>

\* A write, the mode, the close or the rename fails: the deferred removal.
TmpFails(f) ==
    /\ \/ req[f].pc = "tmpwrite" /\ \E k \in 0..Len(req[f].data) :
            disk' = [disk EXCEPT ![req[f].ino] = SubSeq(req[f].data, 1, k)]
       \/ req[f].pc = "rename" /\ UNCHANGED disk
    /\ Become(f, [req[f] EXCEPT !.pc = "unlink"])
    /\ UNCHANGED <<name, temps, leaked, how, intended, fcrashed>>

RemoveTemp(f) ==
    /\ req[f].pc = "unlink" /\ temps' = temps \ {req[f].ino} /\ Over(f)
    /\ UNCHANGED <<disk, name, leaked, how, intended, fcrashed>>

\* Every write can start by failing (CreateTemp, MkdirAll, OpenFile).
GiveUp(f) ==
    /\ req[f].pc = "temp" /\ Over(f)
    /\ UNCHANGED <<disk, name, temps, leaked, how, intended, fcrashed>>

------------------------------------------------------------------------------
(* Append: O_APPEND|O_CREATE, one write.                                     *)
OpenAppend(f) ==
    /\ req[f].pc = "new"
    /\ name = NoFile => Free # {}
    /\ LET i == IF name = NoFile THEN CHOOSE j \in Free : TRUE ELSE name
       IN /\ \E c \in Payload : Become(f, [Blank EXCEPT !.op = "append", !.pc = "append", !.ino = i, !.data = c])
          /\ name' = i
          /\ IF name = NoFile THEN how' = [how EXCEPT ![i] = "whole"] /\ intended' = intended \cup {<<>>}
             ELSE UNCHANGED <<how, intended>>
    /\ UNCHANGED <<disk, temps, leaked, fcrashed>>

\* k < Len(data): the disk is full, and what was written stays.
AppendWrite(f) ==
    /\ req[f].pc = "append"
    /\ LET i == req[f].ino
       IN \E k \in {0, Len(req[f].data)} \cup {Len(req[f].data) - 1} :
            LET c == disk[i] \o SubSeq(req[f].data, 1, k)
                good == how[i] = "whole" /\ k \in {0, Len(req[f].data)}
            IN /\ disk' = [disk EXCEPT ![i] = c]
               /\ intended' = IF good THEN intended \cup {c} ELSE intended
               /\ how' = [how EXCEPT ![i] = IF good \/ k = 0 THEN @ ELSE "mixed"]
               /\ req' = [g \in FileReq |->
                            IF g = f THEN [req[f] EXCEPT !.pc = "over"]
                            ELSE IF ~good /\ k # 0 /\ req[g].pc = "reading" /\ req[g].ino = i
                                 THEN [req[g] EXCEPT !.clean = FALSE]
                            ELSE req[g]]
    /\ UNCHANGED <<name, temps, leaked, fcrashed>>

------------------------------------------------------------------------------
(* streamUploadToDisk: in place, as the client sends.                        *)
Uploaders(i) == {f \in FileReq : req[f].pc = "chunk" /\ req[f].ino = i}

\* O_TRUNC cuts the file the name leads to; without overwrite, O_EXCL refuses it.
OpenUpload(f) ==
    /\ req[f].pc = "new" /\ UNCHANGED <<temps, leaked, intended, fcrashed>>
    /\ \E c \in Payload, overwrite \in BOOLEAN :
        IF name # NoFile /\ ~overwrite
        THEN Become(f, [Blank EXCEPT !.op = "upload", !.pc = "over"]) /\ UNCHANGED <<disk, name, how>>
        ELSE /\ name = NoFile => Free # {}
             /\ LET i == IF name = NoFile THEN CHOOSE j \in Free : TRUE ELSE name
                IN /\ name' = i /\ disk' = [disk EXCEPT ![i] = <<>>]
                   /\ how' = [how EXCEPT ![i] = IF Uploaders(i) = {} THEN "uploading" ELSE "mixed"]
                   /\ req' = [g \in FileReq |->
                                IF g = f THEN [Blank EXCEPT !.op = "upload", !.pc = "chunk", !.ino = i, !.data = c]
                                ELSE IF req[g].pc = "reading" /\ req[g].ino = i THEN [req[g] EXCEPT !.clean = FALSE]
                                ELSE req[g]]

\* A chunk lands at this upload's own offset; what another cut away before it is a hole.
UploadChunk(f) ==
    /\ req[f].pc = "chunk" /\ req[f].pos < Len(req[f].data)
    /\ LET i == req[f].ino
           at == req[f].pos + 1
       IN disk' = [disk EXCEPT ![i] =
                     [k \in 1..(IF Len(@) > at THEN Len(@) ELSE at) |->
                        IF k = at THEN req[f].data[at] ELSE IF k <= Len(@) THEN @[k] ELSE Hole]]
    /\ Become(f, [req[f] EXCEPT !.pos = @ + 1])
    /\ UNCHANGED <<name, temps, leaked, how, intended, fcrashed>>

UploadDone(f) ==
    /\ req[f].pc = "chunk" /\ req[f].pos = Len(req[f].data) /\ Over(f)
    /\ IF how[req[f].ino] = "uploading"
       THEN how' = [how EXCEPT ![req[f].ino] = "whole"] /\ intended' = intended \cup {req[f].data}
       ELSE UNCHANGED <<how, intended>>
    /\ UNCHANGED <<disk, name, temps, leaked, fcrashed>>

\* The client goes, the size limit is reached or the disk is full: os.Remove of
\* the path, whichever file it names by now.
UploadFails(f) ==
    /\ req[f].pc = "chunk" /\ name' = NoFile /\ Over(f)
    /\ UNCHANGED <<disk, temps, leaked, how, intended, fcrashed>>

------------------------------------------------------------------------------
\* The runtime dies: no deferred removal runs.  Clients may come back afterwards.
FilesCrash ==
    /\ ~fcrashed /\ fcrashed' = TRUE /\ leaked' = temps
    /\ req' = [f \in FileReq |-> IF req[f].pc = "new" THEN req[f] ELSE [req[f] EXCEPT !.pc = "over", !.op = "none"]]
    /\ UNCHANGED <<disk, name, temps, how, intended>>

FilesNext ==
    \/ FilesCrash
    \/ \E f \in FileReq :
        \/ OpenRead(f) \/ ReadPiece(f) \/ Edit(f)
        \/ ArriveWrite(f) \/ CreateTemp(f) \/ TmpWrite(f) \/ Rename(f) \/ TmpFails(f) \/ RemoveTemp(f) \/ GiveUp(f)
        \/ OpenAppend(f) \/ AppendWrite(f)
        \/ OpenUpload(f) \/ UploadChunk(f) \/ UploadDone(f) \/ UploadFails(f)

------------------------------------------------------------------------------
\* What file.go:132 promises ("a crash mid-write doesn't leave a half-written
\* source file"), for every interleaving of writes, edits, appends and uploads
\* and a crash anywhere: a file that is not of an upload broken off or mixed with
\* another writer holds a content some request meant it to have, and so does what
\* a reader was given of such a file, which was replaced or extended while it
\* read; and no temporary file outlives its request unless the runtime died.
NameIsWhole == name # NoFile /\ how[name] = "whole" => disk[name] \in intended
ReadIsWhole == \A f \in FileReq : Doing(f, "read", "over") /\ req[f].clean => req[f].data \in intended
TempsAreOwned == temps \ leaked = {req[f].ino : f \in {g \in FileReq : req[g].pc \in {"tmpwrite", "rename", "unlink"}}}
FilesWhole == NameIsWhole /\ ReadIsWhole /\ TempsAreOwned

------------------------------------------------------------------------------
(* Statements a reader may expect and the code does not keep.                *)

\* "On any error the partial file is removed so we don't leave half-written state
\* behind" (file_io.go:215): the removal is by name, and takes another's file too.
UploadFailsAlone ==
    [][\A f \in FileReq : UploadFails(f) /\ name # NoFile => name = req[f].ino]_fileVars

\* An edit replaces the version it was computed from: two edits, or an edit and an
\* append, both succeed and the first is lost (file.go:657 and 693).
NoLostEdit ==
    [][\A f \in FileReq : req[f].op = "edit" /\ Rename(f) /\ name # NoFile =>
           \E k \in 0..Len(disk[name]) : MultiEdit(disk[name], req[f].patch) = [ok |-> TRUE, content |-> req[f].data]]_fileVars
==============================================================================
