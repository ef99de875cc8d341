------------------------------ MODULE FileTools -----------------------------
(***************************************************************************)
(* read_file, write_file and apply_patch (tool_runtime/builtins.py), as    *)
(* the conversations of one process call them, each in its thread, on the  *)
(* files of one root that others change, too.                              *)
(*                                                                         *)
(* What a reading returned is kept for the whole process under the path    *)
(* and range, with the modification time of the file; while that time      *)
(* stands a later reading is told so instead.  Every change of a file is   *)
(* given a time of its own, which also names the text it leaves; the time  *)
(* stamps of a real file system are coarser.  All readings are of whole    *)
(* files.                                                                  *)
(***************************************************************************)
EXTENDS Naturals

CONSTANTS
    TextFiles,
    Talks,        \* conversations
    MaxReads,     \* calls of read_file
    MaxChanges    \* what write_file, apply_patch and others do to files

ASSUME FileAssumption == {MaxReads, MaxChanges} \subseteq Nat

VARIABLES
    disk,      \* per file: text, modification time and inode
    readDedup, \* _READ_DEDUP
    toolCall,  \* per conversation: the call it is in the middle of
    lastRead,  \* per conversation: what read_file last returned
    known,     \* history: per conversation, the texts it has read
    ticks,     \* the time
    readCalls, changes

fileVars == <<disk, readDedup, toolCall, lastRead, known, ticks, readCalls, changes>>

Gone  == [there |-> FALSE, text |-> 0, mtime |-> 0, inode |-> 0]
Empty == 0                                  \* the text of a file cut to nothing
NoCall == [op |-> "none"]
NoRead == [text |-> 0, mtime |-> 0]         \* no entry: no file has this time

FileInit ==
    /\ disk = [f \in TextFiles |-> [there |-> TRUE, text |-> 1, mtime |-> 1, inode |-> 1]]
    /\ readDedup = [f \in TextFiles |-> NoRead]
    /\ toolCall = [t \in Talks |-> NoCall]
    /\ lastRead = [t \in Talks |-> [st |-> "none"]]
    /\ known = [t \in Talks |-> {}]
    /\ ticks = 1 /\ readCalls = 0 /\ changes = 0

-----------------------------------------------------------------------------
(* read_file.                                                               *)

(* The time stamp is taken first. *)
StatFile(t, f) ==
    /\ toolCall[t] = NoCall /\ readCalls < MaxReads
    /\ readCalls' = readCalls + 1
    /\ disk[f].there
    /\ IF readDedup[f].mtime = disk[f].mtime
       THEN /\ lastRead' = [lastRead EXCEPT ![t] = [st |-> "unchanged", file |-> f,
                                                    text |-> readDedup[f].text]]
            /\ UNCHANGED toolCall
       ELSE /\ toolCall' = [toolCall EXCEPT ![t] = [op |-> "read", file |-> f, mtime |-> disk[f].mtime]]
            /\ UNCHANGED lastRead
    /\ UNCHANGED <<disk, readDedup, known, ticks, changes>>

(* read_file_slice; a file that is gone by now is an error.                *)
ReadBody(t) ==
    /\ toolCall[t].op = "read"
    /\ LET c == toolCall[t]
       IN  toolCall' = [toolCall EXCEPT ![t] =
                          IF disk[c.file].there
                          THEN [op |-> "keep", file |-> c.file, mtime |-> c.mtime,
                                text |-> disk[c.file].text]
                          ELSE NoCall]
    /\ UNCHANGED <<disk, readDedup, lastRead, known, ticks, readCalls, changes>>

Return(t, f, text) ==
    /\ lastRead' = [lastRead EXCEPT ![t] = [st |-> "text", file |-> f, text |-> text]]
    /\ known' = [known EXCEPT ![t] = @ \cup {<<f, text>>}]
    /\ toolCall' = [toolCall EXCEPT ![t] = NoCall]

(* Mutant of KeepRead: with the time stamp the file has by then.           *)
KeepRead_StatAfter(t) ==
    /\ toolCall[t].op = "keep"
    /\ LET c == toolCall[t]
       IN  /\ readDedup' = [readDedup EXCEPT ![c.file] = [text |-> c.text, mtime |-> disk[c.file].mtime]]
           /\ Return(t, c.file, c.text)
    /\ UNCHANGED <<disk, ticks, readCalls, changes>>

KeepRead(t) ==
    /\ toolCall[t].op = "keep"
    /\ LET c == toolCall[t]
       IN  /\ readDedup' = [readDedup EXCEPT ![c.file] = [text |-> c.text, mtime |-> c.mtime]]
           /\ Return(t, c.file, c.text)
    /\ UNCHANGED <<disk, ticks, readCalls, changes>>

-----------------------------------------------------------------------------
(* Changes.                                                                 *)

Tick == ticks' = ticks + 1
Change == changes < MaxChanges /\ changes' = changes + 1

(* write_file: opening the file cuts it to nothing, or makes it, ...       *)
OpenToWrite(t, f) ==
    /\ toolCall[t] = NoCall /\ Change /\ Tick
    /\ disk' = [disk EXCEPT ![f] = [there |-> TRUE, text |-> Empty, mtime |-> ticks',
                                    inode |-> IF @.there THEN @.inode ELSE ticks']]
    /\ toolCall' = [toolCall EXCEPT ![t] = [op |-> "write", file |-> f, inode |-> disk'[f].inode]]
    /\ UNCHANGED <<readDedup, lastRead, known, readCalls>>

(* ... and the text goes to what was opened, be it still the file or not.  *)
WriteText(t) ==
    /\ toolCall[t].op = "write" /\ Tick
    /\ LET c == toolCall[t]
       IN  disk' = IF disk[c.file].there /\ disk[c.file].inode = c.inode
                   THEN [disk EXCEPT ![c.file] = [there |-> TRUE, text |-> ticks', mtime |-> ticks',
                                                  inode |-> c.inode]]
                   ELSE disk
    /\ toolCall' = [toolCall EXCEPT ![t] = NoCall]
    /\ UNCHANGED <<readDedup, lastRead, known, readCalls, changes>>

(* apply_patch: the text to be replaced must be in the file, unless the    *)
(* call is to replace all of it, or to make it, ...                        *)
ReadToPatch(t, f) ==
    /\ toolCall[t] = NoCall /\ Change
    /\ \E whole \in BOOLEAN : whole \/ (disk[f].there /\ disk[f].text # Empty)
    /\ toolCall' = [toolCall EXCEPT ![t] = [op |-> "patch", file |-> f]]
    /\ UNCHANGED <<disk, readDedup, lastRead, known, ticks, readCalls>>

(* ... the new text is written to a file next to it, whose time stamp it   *)
(* keeps, ...                                                              *)
WriteTemp(t) ==
    /\ toolCall[t].op = "patch" /\ Tick
    /\ toolCall' = [toolCall EXCEPT ![t] = [op |-> "replace", file |-> toolCall[t].file, mtime |-> ticks']]
    /\ UNCHANGED <<disk, readDedup, lastRead, known, readCalls, changes>>

(* ... which takes the place of whatever is there by now.                  *)
ReplaceFile(t) ==
    /\ toolCall[t].op = "replace"
    /\ LET c == toolCall[t]
       IN  disk' = [disk EXCEPT ![c.file] = [there |-> TRUE, text |-> c.mtime, mtime |-> c.mtime,
                                             inode |-> c.mtime]]
    /\ toolCall' = [toolCall EXCEPT ![t] = NoCall]
    /\ UNCHANGED <<readDedup, lastRead, known, ticks, readCalls, changes>>

(* The user, a shell command or another process.                           *)
OthersChange(f) ==
    /\ Change /\ Tick
    /\ disk' = [disk EXCEPT ![f] = [there |-> TRUE, text |-> ticks', mtime |-> ticks', inode |-> @.inode]]
    /\ UNCHANGED <<readDedup, toolCall, lastRead, known, readCalls>>

OthersRemove(f) ==
    /\ Change /\ disk[f].there
    /\ disk' = [disk EXCEPT ![f] = Gone]
    /\ UNCHANGED <<readDedup, toolCall, lastRead, known, ticks, readCalls>>

FileNext ==
    \/ \E t \in Talks, f \in TextFiles : StatFile(t, f) \/ OpenToWrite(t, f) \/ ReadToPatch(t, f)
    \/ \E t \in Talks : ReadBody(t) \/ KeepRead(t) \/ WriteText(t) \/ WriteTemp(t) \/ ReplaceFile(t)
    \/ \E f \in TextFiles : OthersChange(f) \/ OthersRemove(f)

FileSpec == FileInit /\ [][FileNext]_fileVars

-----------------------------------------------------------------------------

(* Whoever writes, patches, replaces or removes a file between the steps   *)
(* of a reading: while read_file answers that the file has not changed,    *)
(* what it returned before is the text of the file.                        *)
UnchangedIsTrue ==
    \A f \in TextFiles :
        disk[f].there /\ readDedup[f].mtime = disk[f].mtime => readDedup[f].text = disk[f].text

(* A conversation that is referred to the earlier result in this thread    *)
(* has it ("Refer to the earlier tool result in this thread.").  It does   *)
(* not hold: the earlier result may be another conversation's.             *)
EarlierResultIsThere ==
    \A t \in Talks :
        lastRead[t].st = "unchanged" => <<lastRead[t].file, lastRead[t].text>> \in known[t]

=============================================================================
