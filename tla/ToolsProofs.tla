----------------------------- MODULE ToolsProofs -----------------------------
(***************************************************************************)
(* The tools of a chat: a file that is said to be unchanged is unchanged,  *)
(* a command's output is its own, and a prompt whose checks passed had its *)
(* files checked.                                                          *)
(***************************************************************************)
EXTENDS FileTools, ShellSession, VerifyGate, FiniteSetTheorems, SequenceTheorems, TLAPS

(***************************************************************************)
(* Unchanged files.  A time stamp that a file was once seen with does not  *)
(* come back with another text: what changes the file gives it a new one,  *)
(* and the one a patch brings along, though it may be old by then, nobody  *)
(* has seen yet.                                                           *)
(***************************************************************************)
CallShape(c) ==
    /\ c.op \in {"read", "keep", "write", "patch", "replace"} => c.file \in TextFiles
    /\ c.op \in {"read", "keep", "replace"} => c.mtime \in 1..ticks
    /\ c.op = "keep" => c.text \in Nat

FileShape ==
    /\ ticks \in Nat \ {0}
    /\ disk \in [TextFiles -> [there : BOOLEAN, text : Nat, mtime : Nat, inode : Nat]]
    /\ readDedup \in [TextFiles -> [text : Nat, mtime : Nat]]
    /\ DOMAIN toolCall = Talks
    /\ \A t \in Talks : CallShape(toolCall[t])
    /\ \A f \in TextFiles : /\ disk[f].there => disk[f].mtime \in 1..ticks
                            /\ readDedup[f].mtime <= ticks

(* The time stamp of t's patch was not seen by a reading, nor is it in      *)
(* another patch.                                                           *)
UnseenBy(t) ==
    toolCall[t].op = "replace" =>
        LET c == toolCall[t]
        IN  /\ disk[c.file].there => disk[c.file].mtime # c.mtime
            /\ readDedup[c.file].mtime # c.mtime
            /\ \A u \in Talks \ {t} :
                  toolCall[u].op \in {"read", "keep", "replace"} /\ toolCall[u].file = c.file
                      => toolCall[u].mtime # c.mtime

(* What a reading has in hand is the text of the time stamp it took.        *)
InHand(t) ==
    toolCall[t].op = "keep" =>
        LET c == toolCall[t]
        IN  disk[c.file].there /\ disk[c.file].mtime = c.mtime => disk[c.file].text = c.text

FileInv ==
    /\ FileShape
    /\ \A t \in Talks : UnseenBy(t)
    /\ \A t \in Talks : InHand(t)
    /\ UnchangedIsTrue

-----------------------------------------------------------------------------

LEMMA FileInvHolds == FileSpec => []FileInv
<1> USE DEF FileInv, FileShape, CallShape, UnseenBy, InHand, UnchangedIsTrue
<1>1. FileInit => FileInv
  BY SMTT(30) DEF FileInit, NoRead, NoCall
<1>2. FileInv /\ [FileNext]_fileVars => FileInv'
  <2> SUFFICES ASSUME FileInv, [FileNext]_fileVars  PROVE FileInv'
    OBVIOUS
  <2>1. ASSUME NEW t \in Talks, NEW f \in TextFiles, StatFile(t, f)
        PROVE  FileInv'
    <3>1. CASE readDedup[f].mtime = disk[f].mtime
      BY <2>1, <3>1 DEF StatFile
    <3>2. CASE readDedup[f].mtime # disk[f].mtime
      <4>1. /\ disk[f].there /\ toolCall[t] = NoCall
            /\ toolCall' = [toolCall EXCEPT ![t] = [op |-> "read", file |-> f, mtime |-> disk[f].mtime]]
            /\ UNCHANGED <<disk, readDedup, ticks>>
        BY <2>1, <3>2 DEF StatFile
      <4>2. FileShape'
        BY <4>1
      <4>3. ASSUME NEW u \in Talks  PROVE UnseenBy(u)' /\ InHand(u)'
        BY <4>1, <4>3
      <4> QED  BY <4>1, <4>2, <4>3
    <3> QED  BY <3>1, <3>2
  <2>2. ASSUME NEW t \in Talks, NEW f \in TextFiles, OpenToWrite(t, f)
        PROVE  FileInv'
    BY <2>2 DEF OpenToWrite, NoCall, Change, Tick, Empty
  <2>3. ASSUME NEW t \in Talks, NEW f \in TextFiles, ReadToPatch(t, f)
        PROVE  FileInv'
    BY <2>3, SMTT(30) DEF ReadToPatch, NoCall, Change
  <2>4. ASSUME NEW t \in Talks, ReadBody(t)
        PROVE  FileInv'
    BY <2>4 DEF ReadBody, NoCall
  <2>5. ASSUME NEW t \in Talks, KeepRead(t)
        PROVE  FileInv'
    BY <2>5 DEF KeepRead, NoCall, Return
  <2>6. ASSUME NEW t \in Talks, WriteText(t)
        PROVE  FileInv'
    <3>1. CASE disk[toolCall[t].file].there /\ disk[toolCall[t].file].inode = toolCall[t].inode
      <4> DEFINE f == toolCall[t].file
      <4>1. /\ f \in TextFiles
            /\ disk' = [disk EXCEPT ![f] = [there |-> TRUE, text |-> ticks', mtime |-> ticks',
                                            inode |-> toolCall[t].inode]]
            /\ ticks' = ticks + 1
            /\ toolCall' = [toolCall EXCEPT ![t] = NoCall]
            /\ UNCHANGED readDedup
        BY <2>6, <3>1 DEF WriteText, Tick
      <4> HIDE DEF f
      <4>2. FileShape'
        <5>1. disk' \in [TextFiles -> [there : BOOLEAN, text : Nat, mtime : Nat, inode : Nat]]
          BY <3>1, <4>1 DEF f
        <5>2. \A u \in Talks : CallShape(toolCall[u])'
          BY <4>1 DEF NoCall
        <5>3. \A g \in TextFiles : disk'[g].there => disk'[g].mtime \in 1..ticks'
          BY <4>1
        <5> QED  BY <4>1, <5>1, <5>2, <5>3
      <4>3. ASSUME NEW u \in Talks  PROVE UnseenBy(u)' /\ InHand(u)'
        BY <4>1, <4>3 DEF NoCall
      <4>4. UnchangedIsTrue'
        BY <4>1, SMTT(30)
      <4> QED  BY <4>2, <4>3, <4>4
    <3>2. CASE ~(disk[toolCall[t].file].there /\ disk[toolCall[t].file].inode = toolCall[t].inode)
      BY <2>6, <3>2 DEF WriteText, NoCall, Tick
    <3> QED  BY <3>1, <3>2
  <2>7. ASSUME NEW t \in Talks, WriteTemp(t)
        PROVE  FileInv'
    BY <2>7 DEF WriteTemp, Tick
  <2>8. ASSUME NEW t \in Talks, ReplaceFile(t)
        PROVE  FileInv'
    BY <2>8 DEF ReplaceFile, NoCall
  <2>9. ASSUME NEW f \in TextFiles, OthersChange(f) \/ OthersRemove(f)
        PROVE  FileInv'
    <3>1. CASE OthersChange(f)
      BY <2>9, <3>1 DEF OthersChange, Change, Tick
    <3>2. CASE OthersRemove(f)
      BY <2>9, <3>2 DEF OthersRemove, Change, Gone
    <3> QED  BY <2>9, <3>1, <3>2
  <2>10. CASE UNCHANGED fileVars
    BY <2>10 DEF fileVars
  <2> QED
    BY <2>1, <2>2, <2>3, <2>4, <2>5, <2>6, <2>7, <2>8, <2>9, <2>10 DEF FileNext
<1> QED  BY <1>1, <1>2, PTL DEF FileSpec

(* Whoever writes, patches or removes files between the steps of a reading, *)
(* read_file calls a file unchanged only if the text it returned is the     *)
(* text of the file (_READ_DEDUP).                                          *)
THEOREM UnchangedHolds == FileSpec => []UnchangedIsTrue
<1>1. FileInv => UnchangedIsTrue
  BY DEF FileInv
<1> QED  BY <1>1, FileInvHolds, PTL

(* Whatever was kept of a reading, or referred to, some conversation has.    *)
SomebodyHas(f, text) == \E u \in Talks : <<f, text>> \in known[u]

TalkInv ==
    /\ DOMAIN lastRead = Talks /\ DOMAIN known = Talks
    /\ \A f \in TextFiles : readDedup[f].mtime # 0 => SomebodyHas(f, readDedup[f].text)
    /\ \A t \in Talks : lastRead[t].st = "unchanged" => SomebodyHas(lastRead[t].file, lastRead[t].text)

(* What was read stays known, and a step that refers to nothing new keeps    *)
(* what the invariant says.                                                  *)
LEMMA KnownGrows ==
    ASSUME TalkInv,
           DOMAIN known' = Talks, \A u \in Talks : known[u] \subseteq known'[u]
    PROVE  \A f, text : SomebodyHas(f, text) => SomebodyHas(f, text)'
BY DEF SomebodyHas

LEMMA ReadingIsRemembered == FileSpec => []TalkInv
<1>1. FileInit => TalkInv
  BY DEF FileInit, TalkInv, NoRead
<1>2. FileInv /\ TalkInv /\ [FileNext]_fileVars => TalkInv'
  <2> SUFFICES ASSUME FileInv, TalkInv, [FileNext]_fileVars  PROVE TalkInv'
    OBVIOUS
  <2>1. ASSUME UNCHANGED <<readDedup, lastRead, known>>
        PROVE  TalkInv'
    BY <2>1 DEF TalkInv, SomebodyHas
  <2>2. ASSUME NEW t \in Talks, NEW f \in TextFiles, StatFile(t, f)
        PROVE  TalkInv'
    <3>1. CASE readDedup[f].mtime = disk[f].mtime
      <4>1. /\ lastRead' = [lastRead EXCEPT ![t] = [st |-> "unchanged", file |-> f, text |-> readDedup[f].text]]
            /\ disk[f].there /\ UNCHANGED <<readDedup, known>>
        BY <2>2, <3>1 DEF StatFile
      <4>2. readDedup[f].mtime # 0
        <5>1. disk[f].mtime \in 1..ticks /\ ticks \in Nat
          BY <4>1 DEF FileInv, FileShape
        <5> QED BY <3>1, <5>1
      <4>3. SomebodyHas(f, readDedup[f].text)
        BY <4>2 DEF TalkInv
      <4>4. \A u \in Talks : lastRead'[u].st = "unchanged" => SomebodyHas(lastRead'[u].file, lastRead'[u].text)
        BY <4>1, <4>3 DEF TalkInv
      <4>5. known' = known /\ readDedup' = readDedup /\ DOMAIN lastRead' = Talks
        BY <4>1 DEF TalkInv
      <4> QED BY <4>4, <4>5 DEF TalkInv, SomebodyHas
    <3>2. CASE readDedup[f].mtime # disk[f].mtime
      BY <2>1, <2>2, <3>2 DEF StatFile
    <3> QED BY <3>1, <3>2
  <2>3. ASSUME NEW t \in Talks, KeepRead(t)
        PROVE  TalkInv'
    <3> DEFINE g == toolCall[t].file
               text == toolCall[t].text
    <3>1. /\ g \in TextFiles /\ readDedup \in [TextFiles -> [text : Nat, mtime : Nat]]
          /\ readDedup' = [readDedup EXCEPT ![g] = [text |-> text, mtime |-> toolCall[t].mtime]]
          /\ lastRead' = [lastRead EXCEPT ![t] = [st |-> "text", file |-> g, text |-> text]]
          /\ known' = [known EXCEPT ![t] = known[t] \cup {<<g, text>>}]
      BY <2>3 DEF KeepRead, Return, FileInv, FileShape, CallShape
    <3> HIDE DEF g, text
    <3>2. /\ DOMAIN known' = Talks /\ DOMAIN lastRead' = Talks
          /\ \A u \in Talks : known[u] \subseteq known'[u]
          /\ <<g, text>> \in known'[t]
      BY <3>1 DEF TalkInv
    <3>3. \A f, x : SomebodyHas(f, x) => SomebodyHas(f, x)'
      BY <3>2, KnownGrows
    <3>4. ASSUME NEW f \in TextFiles, readDedup'[f].mtime # 0
          PROVE  \E u \in Talks : <<f, readDedup'[f].text>> \in known'[u]
      <4>1. CASE f = g
        <5>1. readDedup'[f].text = text
          BY <3>1, <4>1
        <5> QED BY <3>2, <4>1, <5>1
      <4>2. CASE f # g
        <5>1. readDedup'[f] = readDedup[f]
          BY <3>1, <4>2
        <5>2. \E u \in Talks : <<f, readDedup[f].text>> \in known[u]
          BY <3>4, <5>1 DEF TalkInv, SomebodyHas
        <5> QED BY <3>2, <5>1, <5>2
      <4> QED BY <4>1, <4>2
    <3>5. ASSUME NEW u \in Talks, lastRead'[u].st = "unchanged"
          PROVE  \E v \in Talks : <<lastRead'[u].file, lastRead'[u].text>> \in known'[v]
      <4>1. u # t
        BY <3>1, <3>5 DEF TalkInv
      <4>2. lastRead'[u] = lastRead[u]
        BY <3>1, <4>1 DEF TalkInv
      <4>3. \E v \in Talks : <<lastRead[u].file, lastRead[u].text>> \in known[v]
        BY <3>5, <4>2 DEF TalkInv, SomebodyHas
      <4> QED BY <3>2, <4>2, <4>3
    <3> QED BY <3>2, <3>4, <3>5 DEF TalkInv, SomebodyHas
  <2>4. ASSUME NEW t \in Talks, ReadBody(t) \/ WriteText(t) \/ WriteTemp(t) \/ ReplaceFile(t)
        PROVE  TalkInv'
    BY <2>1, <2>4 DEF ReadBody, WriteText, WriteTemp, ReplaceFile
  <2>5. ASSUME NEW t \in Talks, NEW f \in TextFiles, OpenToWrite(t, f) \/ ReadToPatch(t, f)
        PROVE  TalkInv'
    BY <2>1, <2>5 DEF OpenToWrite, ReadToPatch
  <2>6. ASSUME NEW f \in TextFiles, OthersChange(f) \/ OthersRemove(f)
        PROVE  TalkInv'
    BY <2>1, <2>6 DEF OthersChange, OthersRemove
  <2>7. CASE UNCHANGED fileVars
    BY <2>1, <2>7 DEF fileVars
  <2> QED BY <2>2, <2>3, <2>4, <2>5, <2>6, <2>7 DEF FileNext
<1> QED BY <1>1, <1>2, FileInvHolds, PTL DEF FileSpec

(* A process that has one conversation has what read_file refers it to as    *)
(* its earlier result: only another conversation's reading is ever missing   *)
(* (builtins.py, _READ_DEDUP is kept per process, not per conversation).     *)
THEOREM OneTalkRemembers ==
    ASSUME \A t, u \in Talks : t = u
    PROVE  FileSpec => []EarlierResultIsThere
<1>1. TalkInv => EarlierResultIsThere
  BY DEF TalkInv, SomebodyHas, EarlierResultIsThere
<1> QED BY <1>1, ReadingIsRemembered, PTL

-----------------------------------------------------------------------------
(***************************************************************************)
(* The output of a command.  A live bash that no call is in has nothing    *)
(* but background output in its pipe; of the calls that are in one, the    *)
(* last to write finds it so when it has read its marker, and a call that  *)
(* has it to itself is served its own command.                             *)
(***************************************************************************)
BashRec == [st : {"none", "live", "dead"}, stdin : Seq({"cmd", "mark"} \X Runs),
            job : 0..MaxCommands, late : 0..MaxCommands, pipe : Seq(Token), partial : BOOLEAN]

CallRec == [pc : {"idle", "lookup", "spawn", "write", "readline", "late"},
            key : Keys \cup {""}, run : 0..MaxCommands, h : 0..MaxHandles,
            over : BOOLEAN, foreign : SUBSET Token]

Cmd(r)  == <<"cmd", r>>
Mark(r) == <<"mark", r>>

(* k: the kinds of the commands.                                            *)
OfBackground(t, k) == t.run \in DOMAIN k /\ k[t.run] = "background" /\ ~t.mark

OnlyLate(p, k) == \A i \in DOMAIN p.pipe : OfBackground(p.pipe[i], k)

(* A bash that waits for its next command.                                  *)
Clean(p, k) == p.stdin = <<>> /\ p.job = 0 /\ OnlyLate(p, k)

(* A bash that was given the command r: it may take its command, run it or  *)
(* echo its marker, and nothing but background output follows the marker.   *)
Serves(p, r, k) ==
    /\ \A i \in DOMAIN p.pipe : p.pipe[i].run = r \/ OfBackground(p.pipe[i], k)
    /\ p.job \in {0, r}
    /\ p.st = "live" =>
        /\ p.stdin \in {<<>>, <<Mark(r)>>, <<Cmd(r), Mark(r)>>}
        /\ p.job # 0 => p.stdin \in {<<>>, <<Mark(r)>>}
        /\ \A i \in DOMAIN p.pipe : p.pipe[i].mark =>
             /\ p.stdin = <<>> /\ p.job = 0
             /\ \A j \in DOMAIN p.pipe : i < j => OfBackground(p.pipe[j], k)

(* The marker of r is the last thing a bash will read, if it reads any more. *)
LastIs(q, r) ==
    /\ q # <<>> => q[Len(q)] = Mark(r)
    /\ \A i \in DOMAIN q : q[i] = Mark(r) => i = Len(q)

(* A bash to which the command r was given last, perhaps after others: what *)
(* follows its marker is background output.                                 *)
LastServes(p, r, k) ==
    /\ LastIs(p.stdin, r)
    /\ \A i \in DOMAIN p.pipe : p.pipe[i].mark /\ p.pipe[i].run = r =>
         /\ p.stdin = <<>> /\ p.job = 0
         /\ \A j \in DOMAIN p.pipe : i < j => OfBackground(p.pipe[j], k)

(* A bash that has not been given the marker of r.                          *)
MarkFree(p, r) ==
    /\ \A i \in DOMAIN p.stdin : p.stdin[i] # Mark(r)
    /\ \A i \in DOMAIN p.pipe : ~(p.pipe[i].mark /\ p.pipe[i].run = r)

Spawned(h)  == bash[h].st # "none"
Holds(c)    == call[c].pc \in {"write", "readline", "late"}
WillSend(c) == call[c].pc \in {"lookup", "spawn", "write"}

ShellShape ==
    /\ envKey \in Keys
    /\ sessions \in [Keys -> 0..MaxHandles]
    /\ bash \in [Handles -> BashRec]
    /\ kind \in Seq(Kinds) /\ Len(kind) <= MaxCommands
    /\ call \in [Callers -> CallRec]

SessionsAreSpawned ==
    /\ \A k \in Keys : sessions[k] # 0 => Spawned(sessions[k])
    /\ \A c \in Callers : Holds(c) => call[c].h \in Handles /\ Spawned(call[c].h)

(* Two calls that are in one bash know it.                                  *)
TogetherIsCrowded ==
    \A c, d \in Callers : (c # d /\ HasSent(c) /\ HasSent(d) /\ call[c].h = call[d].h) => c \in crowded

(* Every line is of a command that was given.                               *)
CommandsAreKnown ==
    /\ \A c \in Callers : call[c].pc # "idle" => call[c].run \in DOMAIN kind /\ call[c].key \in Keys
    /\ \A h \in Handles : \A i \in DOMAIN bash[h].stdin : bash[h].stdin[i][2] \in DOMAIN kind
    /\ \A h \in Handles : bash[h].job # 0 => bash[h].job \in DOMAIN kind
    /\ \A h \in Handles : bash[h].late # 0 => bash[h].late \in DOMAIN kind /\ kind[bash[h].late] = "background"

(* A command is one call's, and no bash has the marker of one to come.      *)
RunsDiffer ==
    \A c, d \in Callers : (c # d /\ call[c].pc # "idle" /\ call[d].pc # "idle") => call[c].run # call[d].run

NotYetWritten ==
    \A r \in Runs : (r \notin DOMAIN kind \/ \E c \in Callers : WillSend(c) /\ call[c].run = r)
                    => \A h \in Handles : MarkFree(bash[h], r)

NewIsEmpty == \A h \in Handles : ~Spawned(h) => bash[h] = NoProc

(* A live bash is clean, or the call that wrote to it last is in it.        *)
LiveIsTended ==
    \A h \in Handles : bash[h].st = "live" =>
        \/ Clean(bash[h], kind)
        \/ \E c \in Callers : HasSent(c) /\ call[c].h = h /\ LastServes(bash[h], call[c].run, kind)

ReadersAreServed ==
    \A c \in Callers \ crowded : HasSent(c) => Serves(bash[call[c].h], call[c].run, kind)

ForeignIsLate == \A c \in Callers \ crowded : \A t \in call[c].foreign : OfBackground(t, kind)

ShellInv ==
    /\ ShellShape /\ SessionsAreSpawned /\ TogetherIsCrowded /\ CommandsAreKnown
    /\ RunsDiffer /\ NotYetWritten /\ NewIsEmpty
    /\ LiveIsTended /\ ReadersAreServed /\ ForeignIsLate

-----------------------------------------------------------------------------

LEMMA FieldIsTyped ==
    ASSUME NEW b \in [Handles -> BashRec], NEW h \in Handles
    PROVE  /\ \A x \in {"none", "live", "dead"} : [b EXCEPT ![h].st = x] \in [Handles -> BashRec]
           /\ \A x \in Seq({"cmd", "mark"} \X Runs) : [b EXCEPT ![h].stdin = x] \in [Handles -> BashRec]
           /\ \A x \in 0..MaxCommands : [b EXCEPT ![h].job = x] \in [Handles -> BashRec]
           /\ \A x \in 0..MaxCommands : [b EXCEPT ![h].late = x] \in [Handles -> BashRec]
           /\ \A x \in Seq(Token) : [b EXCEPT ![h].pipe = x] \in [Handles -> BashRec]
           /\ \A x \in BOOLEAN : [b EXCEPT ![h].partial = x] \in [Handles -> BashRec]
<1>1. \A x \in {"none", "live", "dead"} : [b EXCEPT ![h].st = x] \in [Handles -> BashRec]
  BY ZenonT(30) DEF BashRec
<1>2. \A x \in Seq({"cmd", "mark"} \X Runs) : [b EXCEPT ![h].stdin = x] \in [Handles -> BashRec]
  BY ZenonT(30) DEF BashRec
<1>3. \A x \in 0..MaxCommands : [b EXCEPT ![h].job = x] \in [Handles -> BashRec]
  BY ZenonT(30) DEF BashRec
<1>4. \A x \in 0..MaxCommands : [b EXCEPT ![h].late = x] \in [Handles -> BashRec]
  BY ZenonT(30) DEF BashRec
<1>5. \A x \in Seq(Token) : [b EXCEPT ![h].pipe = x] \in [Handles -> BashRec]
  BY ZenonT(30) DEF BashRec
<1>6. \A x \in BOOLEAN : [b EXCEPT ![h].partial = x] \in [Handles -> BashRec]
  BY ZenonT(30) DEF BashRec
<1> QED BY <1>1, <1>2, <1>3, <1>4, <1>5, <1>6

(* What bash makes of itself.                                               *)
Killed(b, h, st, stdin) == [b EXCEPT ![h].st = st, ![h].stdin = stdin]
Started(b, h, job, stdin) == [b EXCEPT ![h].job = job, ![h].stdin = stdin]
Echoed(b, h, stdin, partial, pipe) == [b EXCEPT ![h].stdin = stdin, ![h].partial = partial, ![h].pipe = pipe]
Printed(b, h, pipe, partial, job) == [b EXCEPT ![h].pipe = pipe, ![h].partial = partial, ![h].job = job]
Ended(b, h, job, partial, stdin, late) == [b EXCEPT ![h].job = job, ![h].partial = partial, ![h].stdin = stdin, ![h].late = late]
Trailed(b, h, pipe, partial, late) == [b EXCEPT ![h].pipe = pipe, ![h].partial = partial, ![h].late = late]

LEMMA KilledIsTyped ==
    ASSUME NEW b \in [Handles -> BashRec], NEW h \in Handles,
           NEW st \in {"none", "live", "dead"}, NEW stdin \in Seq({"cmd", "mark"} \X Runs)
    PROVE  Killed(b, h, st, stdin) \in [Handles -> BashRec]
<1> DEFINE c == [b EXCEPT ![h].st = st]
<1>1. c \in [Handles -> BashRec]
  BY FieldIsTyped
<1> HIDE DEF c
<1>2. [c EXCEPT ![h].stdin = stdin] \in [Handles -> BashRec]
  BY <1>1, FieldIsTyped
<1>3. Killed(b, h, st, stdin) = [c EXCEPT ![h].stdin = stdin]
  BY DEF Killed, c
<1> QED BY <1>2, <1>3

LEMMA StartedIsTyped ==
    ASSUME NEW b \in [Handles -> BashRec], NEW h \in Handles,
           NEW job \in 0..MaxCommands, NEW stdin \in Seq({"cmd", "mark"} \X Runs)
    PROVE  Started(b, h, job, stdin) \in [Handles -> BashRec]
<1> DEFINE c == [b EXCEPT ![h].job = job]
<1>1. c \in [Handles -> BashRec]
  BY FieldIsTyped
<1> HIDE DEF c
<1>2. [c EXCEPT ![h].stdin = stdin] \in [Handles -> BashRec]
  BY <1>1, FieldIsTyped
<1>3. Started(b, h, job, stdin) = [c EXCEPT ![h].stdin = stdin]
  BY DEF Started, c
<1> QED BY <1>2, <1>3

LEMMA EchoedIsTyped ==
    ASSUME NEW b \in [Handles -> BashRec], NEW h \in Handles,
           NEW stdin \in Seq({"cmd", "mark"} \X Runs), NEW partial \in BOOLEAN, NEW pipe \in Seq(Token)
    PROVE  Echoed(b, h, stdin, partial, pipe) \in [Handles -> BashRec]
<1> DEFINE c == [b EXCEPT ![h].stdin = stdin]
<1>1. c \in [Handles -> BashRec]
  BY FieldIsTyped
<1> HIDE DEF c
<1> DEFINE d == [c EXCEPT ![h].partial = partial]
<1>2. d \in [Handles -> BashRec]
  BY <1>1, FieldIsTyped
<1> HIDE DEF d
<1>3. [d EXCEPT ![h].pipe = pipe] \in [Handles -> BashRec]
  BY <1>2, FieldIsTyped
<1>4. Echoed(b, h, stdin, partial, pipe) = [d EXCEPT ![h].pipe = pipe]
  BY DEF Echoed, c, d
<1> QED BY <1>3, <1>4

LEMMA PrintedIsTyped ==
    ASSUME NEW b \in [Handles -> BashRec], NEW h \in Handles,
           NEW pipe \in Seq(Token), NEW partial \in BOOLEAN, NEW job \in 0..MaxCommands
    PROVE  Printed(b, h, pipe, partial, job) \in [Handles -> BashRec]
<1> DEFINE c == [b EXCEPT ![h].pipe = pipe]
<1>1. c \in [Handles -> BashRec]
  BY FieldIsTyped
<1> HIDE DEF c
<1> DEFINE d == [c EXCEPT ![h].partial = partial]
<1>2. d \in [Handles -> BashRec]
  BY <1>1, FieldIsTyped
<1> HIDE DEF d
<1>3. [d EXCEPT ![h].job = job] \in [Handles -> BashRec]
  BY <1>2, FieldIsTyped
<1>4. Printed(b, h, pipe, partial, job) = [d EXCEPT ![h].job = job]
  BY DEF Printed, c, d
<1> QED BY <1>3, <1>4

LEMMA EndedIsTyped ==
    ASSUME NEW b \in [Handles -> BashRec], NEW h \in Handles,
           NEW job \in 0..MaxCommands, NEW partial \in BOOLEAN, NEW stdin \in Seq({"cmd", "mark"} \X Runs), NEW late \in 0..MaxCommands
    PROVE  Ended(b, h, job, partial, stdin, late) \in [Handles -> BashRec]
<1> DEFINE c == [b EXCEPT ![h].job = job]
<1>1. c \in [Handles -> BashRec]
  BY FieldIsTyped
<1> HIDE DEF c
<1> DEFINE d == [c EXCEPT ![h].partial = partial]
<1>2. d \in [Handles -> BashRec]
  BY <1>1, FieldIsTyped
<1> HIDE DEF d
<1> DEFINE e == [d EXCEPT ![h].stdin = stdin]
<1>3. e \in [Handles -> BashRec]
  BY <1>2, FieldIsTyped
<1> HIDE DEF e
<1>4. [e EXCEPT ![h].late = late] \in [Handles -> BashRec]
  BY <1>3, FieldIsTyped
<1>5. Ended(b, h, job, partial, stdin, late) = [e EXCEPT ![h].late = late]
  BY DEF Ended, c, d, e
<1> QED BY <1>4, <1>5

LEMMA TrailedIsTyped ==
    ASSUME NEW b \in [Handles -> BashRec], NEW h \in Handles,
           NEW pipe \in Seq(Token), NEW partial \in BOOLEAN, NEW late \in 0..MaxCommands
    PROVE  Trailed(b, h, pipe, partial, late) \in [Handles -> BashRec]
<1> DEFINE c == [b EXCEPT ![h].pipe = pipe]
<1>1. c \in [Handles -> BashRec]
  BY FieldIsTyped
<1> HIDE DEF c
<1> DEFINE d == [c EXCEPT ![h].partial = partial]
<1>2. d \in [Handles -> BashRec]
  BY <1>1, FieldIsTyped
<1> HIDE DEF d
<1>3. [d EXCEPT ![h].late = late] \in [Handles -> BashRec]
  BY <1>2, FieldIsTyped
<1>4. Trailed(b, h, pipe, partial, late) = [d EXCEPT ![h].late = late]
  BY DEF Trailed, c, d
<1> QED BY <1>3, <1>4

LEMMA TailOfPipe ==
    ASSUME NEW S, NEW q \in Seq(S), q # <<>>
    PROVE  /\ Head(q) \in S /\ Head(q) = q[1] /\ 1 \in DOMAIN q
           /\ Tail(q) \in Seq(S)
           /\ \A i \in DOMAIN Tail(q) : i + 1 \in DOMAIN q /\ Tail(q)[i] = q[i + 1] /\ i \in Nat \ {0}
BY HeadTailProperties

LEMMA AppendedToPipe ==
    ASSUME NEW S, NEW q \in Seq(S), NEW t \in S
    PROVE  /\ Append(q, t) \in Seq(S) /\ Append(q, t)[Len(q) + 1] = t
           /\ DOMAIN Append(q, t) = DOMAIN q \cup {Len(q) + 1}
           /\ \A i \in DOMAIN q : Append(q, t)[i] = q[i] /\ i < Len(q) + 1 /\ i # Len(q) + 1
           /\ \A i \in DOMAIN q \cup {Len(q) + 1} : ~ (Len(q) + 1 < i)
OBVIOUS

(* A line more, of the command or of the background.                        *)
LEMMA LineAdded ==
    ASSUME NEW q \in Seq(Token), NEW t \in Token, NEW r, NEW k,
           \A i \in DOMAIN q : q[i].run = r \/ OfBackground(q[i], k),
           t.run = r \/ OfBackground(t, k)
    PROVE  \A i \in DOMAIN Append(q, t) : Append(q, t)[i].run = r \/ OfBackground(Append(q, t)[i], k)
BY AppendedToPipe

(* What is written to a bash, and what it makes of it.                      *)
BashMoves(h) ==
    /\ bash' \in [Handles -> BashRec]
    /\ \A g \in Handles \ {h} : bash'[g] = bash[g]
    /\ UNCHANGED <<envKey, sessions, kind, call, crowded>>

LEMMA TakeCommandMoves ==
    ASSUME ShellShape, NEW h \in Handles, TakeCommand(h)
    PROVE  /\ BashMoves(h)
           /\ bash[h].st = "live" /\ bash[h].job = 0 /\ bash[h].stdin # <<>> /\ Head(bash[h].stdin)[1] = "cmd"
           /\ bash'[h].pipe = bash[h].pipe /\ bash'[h].late = bash[h].late
           /\ \/ bash'[h].st = "dead" /\ bash'[h].stdin = <<>> /\ bash'[h].job = 0
              \/ /\ bash'[h].st = "live" /\ bash'[h].stdin = Tail(bash[h].stdin)
                 /\ bash'[h].job = Head(bash[h].stdin)[2]
<1> DEFINE run == Head(bash[h].stdin)[2]
<1>1. /\ bash[h].st = "live" /\ bash[h].job = 0 /\ bash[h].stdin # <<>> /\ Head(bash[h].stdin)[1] = "cmd"
      /\ UNCHANGED <<envKey, sessions, kind, call, crowded>>
      /\ bash' = IF kind[run] = "exit" THEN [bash EXCEPT ![h].st = "dead", ![h].stdin = <<>>]
                 ELSE [bash EXCEPT ![h].job = run, ![h].stdin = Tail(@)]
  BY DEF TakeCommand, NextLine, bashUnchanged
<1>2. bash \in [Handles -> BashRec] /\ bash[h].stdin \in Seq({"cmd", "mark"} \X Runs)
  BY DEF ShellShape, BashRec
<1>3. Tail(bash[h].stdin) \in Seq({"cmd", "mark"} \X Runs) /\ Head(bash[h].stdin) \in {"cmd", "mark"} \X Runs
  BY <1>1, <1>2, TailOfPipe
<1>4. run \in 0..MaxCommands
  BY <1>3, ShellAssumption, SMTT(30) DEF Runs
<1> HIDE DEF run
<1>5. CASE kind[run] = "exit"
  <2>1. bash' = [bash EXCEPT ![h].st = "dead", ![h].stdin = <<>>]
    BY <1>1, <1>5
  <2>2. bash' \in [Handles -> BashRec]
    <3>1. <<>> \in Seq({"cmd", "mark"} \X Runs) /\ "dead" \in {"none", "live", "dead"}
      OBVIOUS
    <3>2. bash' = Killed(bash, h, "dead", <<>>)
      BY <2>1 DEF Killed
    <3> QED BY <1>2, <3>1, <3>2, KilledIsTyped
  <2> QED BY <1>1, <1>2, <2>1, <2>2 DEF BashMoves, BashRec
<1>6. CASE kind[run] # "exit"
  <2> DEFINE rest == Tail(bash[h].stdin)
  <2>1. bash' = [bash EXCEPT ![h].job = run, ![h].stdin = rest]
    BY <1>1, <1>6
  <2> HIDE DEF rest
  <2>2. bash' \in [Handles -> BashRec]
    <3>1. rest \in Seq({"cmd", "mark"} \X Runs)
      BY <1>3 DEF rest
    <3>2. bash' = Started(bash, h, run, rest)
      BY <2>1 DEF Started
    <3> QED BY <1>2, <1>4, <3>1, <3>2, StartedIsTyped
  <2>3. bash'[h].st = bash[h].st /\ bash'[h].stdin = rest /\ bash'[h].job = run /\ bash'[h].pipe = bash[h].pipe
        /\ bash'[h].late = bash[h].late /\ \A g \in Handles \ {h} : bash'[g] = bash[g]
    BY <1>2, <2>1 DEF BashRec
  <2> QED BY <1>1, <2>2, <2>3 DEF BashMoves, rest, run
<1> QED BY <1>5, <1>6

LEMMA EchoMarkerMoves ==
    ASSUME ShellShape, NEW h \in Handles, EchoMarker(h)
    PROVE  /\ BashMoves(h)
           /\ bash[h].st = "live" /\ bash[h].job = 0 /\ bash[h].stdin # <<>> /\ Head(bash[h].stdin)[1] = "mark"
           /\ bash'[h].st = "live" /\ bash'[h].job = 0 /\ bash'[h].late = bash[h].late
           /\ bash'[h].stdin = Tail(bash[h].stdin)
           /\ \E t \in Token : /\ t.run = Head(bash[h].stdin)[2] /\ t.mark
                               /\ bash'[h].pipe = Append(bash[h].pipe, t)
<1> DEFINE t == [run |-> Head(bash[h].stdin)[2], mark |-> TRUE, glued |-> bash[h].partial]
           rest == Tail(bash[h].stdin)
           pipe == Append(bash[h].pipe, t)
<1>1. /\ bash[h].st = "live" /\ bash[h].job = 0 /\ bash[h].stdin # <<>> /\ Head(bash[h].stdin)[1] = "mark"
      /\ UNCHANGED <<envKey, sessions, kind, call, crowded>>
      /\ bash' = [bash EXCEPT ![h].stdin = rest, ![h].partial = FALSE, ![h].pipe = pipe]
  BY DEF EchoMarker, NextLine, bashUnchanged
<1>2. /\ bash \in [Handles -> BashRec] /\ bash[h].stdin \in Seq({"cmd", "mark"} \X Runs)
      /\ bash[h].pipe \in Seq(Token) /\ bash[h].partial \in BOOLEAN
  BY DEF ShellShape, BashRec
<1>3. rest \in Seq({"cmd", "mark"} \X Runs) /\ Head(bash[h].stdin) \in {"cmd", "mark"} \X Runs
  BY <1>1, <1>2, TailOfPipe
<1>4. t \in Token /\ t.run = Head(bash[h].stdin)[2] /\ t.mark
  BY <1>2, <1>3 DEF Token
<1> HIDE DEF t, rest
<1>5. pipe \in Seq(Token)
  BY <1>2, <1>4
<1> HIDE DEF pipe
<1>6. bash' \in [Handles -> BashRec]
  <2>1. bash' = Echoed(bash, h, rest, FALSE, pipe)
    BY <1>1 DEF Echoed
  <2> QED BY <1>2, <1>3, <1>5, <2>1, EchoedIsTyped
<1>7. bash'[h].st = bash[h].st /\ bash'[h].stdin = rest /\ bash'[h].job = bash[h].job /\ bash'[h].pipe = pipe
      /\ bash'[h].late = bash[h].late /\ \A g \in Handles \ {h} : bash'[g] = bash[g]
  BY <1>1, <1>2 DEF BashRec
<1> QED BY <1>1, <1>4, <1>6, <1>7 DEF BashMoves, pipe, rest

LEMMA LineIsToken ==
    ASSUME ShellShape, NEW h \in Handles, NEW run \in Runs
    PROVE  \E t \in Token : t.run = run /\ ~t.mark /\ Line(run, h) = Append(bash[h].pipe, t)
<1>1. bash[h].partial \in BOOLEAN
  BY DEF ShellShape, BashRec
<1>2. [run |-> run, mark |-> FALSE, glued |-> bash[h].partial] \in Token
  BY <1>1 DEF Token
<1> QED BY <1>2 DEF Line

LEMMA PrintLineMoves ==
    ASSUME ShellShape, NEW h \in Handles, PrintLine(h)
    PROVE  /\ BashMoves(h)
           /\ bash[h].job # 0 /\ bash'[h].job \in {0, bash[h].job}
           /\ bash'[h].st = bash[h].st /\ bash'[h].stdin = bash[h].stdin /\ bash'[h].late = bash[h].late
           /\ \E t \in Token : t.run = bash[h].job /\ ~t.mark /\ bash'[h].pipe = Append(bash[h].pipe, t)
<1> DEFINE job == bash[h].job
           pipe == Line(job, h)
           next == IF kind[job] = "chatty" THEN job ELSE 0
<1>1. /\ job # 0 /\ UNCHANGED <<envKey, sessions, kind, call, crowded>>
      /\ bash' = [bash EXCEPT ![h].pipe = pipe, ![h].partial = FALSE, ![h].job = next]
  BY DEF PrintLine, bashUnchanged
<1>2. /\ bash \in [Handles -> BashRec] /\ bash[h].pipe \in Seq(Token) /\ job \in 0..MaxCommands
  BY DEF ShellShape, BashRec
<1>3. job \in Runs
  BY <1>1, <1>2, ShellAssumption DEF Runs
<1>4. \E t \in Token : t.run = job /\ ~t.mark /\ pipe = Append(bash[h].pipe, t)
  BY <1>3, LineIsToken
<1>5. pipe \in Seq(Token) /\ next \in {0, job} /\ next \in 0..MaxCommands
  BY <1>2, <1>4, ShellAssumption
<1> HIDE DEF pipe, next
<1>6. bash' \in [Handles -> BashRec]
  <2>1. bash' = Printed(bash, h, pipe, FALSE, next)
    BY <1>1 DEF Printed
  <2> QED BY <1>2, <1>5, <2>1, PrintedIsTyped
<1>7. bash'[h].st = bash[h].st /\ bash'[h].stdin = bash[h].stdin /\ bash'[h].job = next /\ bash'[h].pipe = pipe
      /\ bash'[h].late = bash[h].late /\ \A g \in Handles \ {h} : bash'[g] = bash[g]
  BY <1>1, <1>2 DEF BashRec
<1> QED BY <1>1, <1>4, <1>5, <1>6, <1>7 DEF BashMoves

LEMMA EndJobMoves ==
    ASSUME ShellShape, NEW h \in Handles, EndJob(h)
    PROVE  /\ BashMoves(h)
           /\ bash[h].job # 0 /\ bash'[h].job = 0
           /\ bash'[h].st = bash[h].st /\ bash'[h].pipe = bash[h].pipe
           /\ \/ bash'[h].stdin = bash[h].stdin
              \/ bash[h].stdin # <<>> /\ bash'[h].stdin = Tail(bash[h].stdin)
           /\ \/ bash'[h].late = bash[h].late
              \/ bash'[h].late = bash[h].job /\ kind[bash[h].job] = "background"
<1> DEFINE job   == bash[h].job
           part  == bash[h].partial \/ kind[job] = "bare"
           stdin == IF kind[job] = "eater" /\ bash[h].stdin # <<>> THEN Tail(bash[h].stdin) ELSE bash[h].stdin
           late  == IF kind[job] = "background" THEN job ELSE bash[h].late
<1>1. /\ job # 0 /\ UNCHANGED <<envKey, sessions, kind, call, crowded>>
      /\ bash' = [bash EXCEPT ![h].job = 0, ![h].partial = part, ![h].stdin = stdin, ![h].late = late]
  BY DEF EndJob, bashUnchanged
<1>2. /\ bash \in [Handles -> BashRec] /\ job \in 0..MaxCommands /\ bash[h].late \in 0..MaxCommands
      /\ bash[h].stdin \in Seq({"cmd", "mark"} \X Runs) /\ 0 \in 0..MaxCommands
  BY ShellAssumption, SMTT(30) DEF ShellShape, BashRec
<1>3. stdin \in Seq({"cmd", "mark"} \X Runs) /\ late \in 0..MaxCommands /\ part \in BOOLEAN
  BY <1>2, TailOfPipe
<1>4. /\ stdin = bash[h].stdin \/ (bash[h].stdin # <<>> /\ stdin = Tail(bash[h].stdin))
      /\ late = bash[h].late \/ (late = job /\ kind[job] = "background")
  OBVIOUS
<1> HIDE DEF stdin, late, part
<1>5. bash' \in [Handles -> BashRec]
  <2>1. bash' = Ended(bash, h, 0, part, stdin, late)
    BY <1>1 DEF Ended
  <2> QED BY <1>2, <1>3, <2>1, EndedIsTyped
<1>6. bash'[h].st = bash[h].st /\ bash'[h].stdin = stdin /\ bash'[h].job = 0 /\ bash'[h].pipe = bash[h].pipe
      /\ bash'[h].late = late /\ \A g \in Handles \ {h} : bash'[g] = bash[g]
  BY <1>1, <1>2 DEF BashRec
<1> QED BY <1>1, <1>4, <1>5, <1>6 DEF BashMoves

LEMMA LateLineMoves ==
    ASSUME ShellShape, NEW h \in Handles, LateLine(h)
    PROVE  /\ BashMoves(h)
           /\ bash[h].late # 0 /\ bash'[h].late = 0
           /\ bash'[h].st = bash[h].st /\ bash'[h].stdin = bash[h].stdin /\ bash'[h].job = bash[h].job
           /\ \E t \in Token : t.run = bash[h].late /\ ~t.mark /\ bash'[h].pipe = Append(bash[h].pipe, t)
<1> DEFINE late == bash[h].late
           pipe == Line(late, h)
<1>1. /\ late # 0 /\ UNCHANGED <<envKey, sessions, kind, call, crowded>>
      /\ bash' = [bash EXCEPT ![h].pipe = pipe, ![h].partial = FALSE, ![h].late = 0]
  BY DEF LateLine, bashUnchanged
<1>2. bash \in [Handles -> BashRec] /\ bash[h].pipe \in Seq(Token) /\ late \in 0..MaxCommands /\ 0 \in 0..MaxCommands
  BY ShellAssumption, SMTT(30) DEF ShellShape, BashRec
<1>3. late \in Runs
  BY <1>1, <1>2, ShellAssumption DEF Runs
<1>4. \E t \in Token : t.run = late /\ ~t.mark /\ pipe = Append(bash[h].pipe, t)
  BY <1>3, LineIsToken
<1>5. pipe \in Seq(Token)
  BY <1>2, <1>4
<1> HIDE DEF pipe
<1>6. bash' \in [Handles -> BashRec]
  <2>1. bash' = Trailed(bash, h, pipe, FALSE, 0)
    BY <1>1 DEF Trailed
  <2> QED BY <1>2, <1>5, <2>1, TrailedIsTyped
<1>7. bash'[h].st = bash[h].st /\ bash'[h].stdin = bash[h].stdin /\ bash'[h].job = bash[h].job /\ bash'[h].pipe = pipe
      /\ bash'[h].late = 0 /\ \A g \in Handles \ {h} : bash'[g] = bash[g]
  BY <1>1, <1>2 DEF BashRec
<1> QED BY <1>1, <1>4, <1>6, <1>7 DEF BashMoves

-----------------------------------------------------------------------------
(* Steps of a bash.                                                         *)

Scripts(r) == {<<>>, <<Mark(r)>>, <<Cmd(r), Mark(r)>>}

LEMMA ScriptLines ==
    ASSUME NEW r, NEW q \in Scripts(r), q # <<>>
    PROVE  /\ Head(q) \in {Cmd(r), Mark(r)}
           /\ Head(q) = Cmd(r) => q = <<Cmd(r), Mark(r)>> /\ Tail(q) = <<Mark(r)>>
           /\ Head(q) = Mark(r) => q = <<Mark(r)>> /\ Tail(q) = <<>>
           /\ Cmd(r)[1] = "cmd" /\ Mark(r)[1] = "mark" /\ Cmd(r)[2] = r /\ Mark(r)[2] = r
<1>1. Cmd(r)[1] = "cmd" /\ Mark(r)[1] = "mark" /\ Cmd(r)[2] = r /\ Mark(r)[2] = r
  BY DEF Cmd, Mark
<1>2. \A x, y : /\ Head(<<x, y>>) = x /\ Tail(<<x, y>>) = <<y>> /\ Head(<<x>>) = x /\ Tail(<<x>>) = <<>>
  OBVIOUS
<1>3. q = <<Mark(r)>> \/ q = <<Cmd(r), Mark(r)>>
  BY DEF Scripts
<1>4. Cmd(r) # Mark(r)
  BY <1>1
<1>5. CASE q = <<Mark(r)>>
  <2>1. Head(q) = Mark(r) /\ Tail(q) = <<>>
    BY <1>2, <1>5
  <2> QED BY <1>1, <1>4, <1>5, <2>1
<1>6. CASE q = <<Cmd(r), Mark(r)>>
  <2>1. Head(q) = Cmd(r) /\ Tail(q) = <<Mark(r)>>
    BY <1>2, <1>6
  <2> QED BY <1>1, <1>4, <1>6, <2>1
<1> QED BY <1>3, <1>5, <1>6

(* A bash that has read a line has the same last one, or none.              *)
LEMMA LastOfTail ==
    ASSUME NEW q \in Seq({"cmd", "mark"} \X Runs), q # <<>>, NEW r, LastIs(q, r)
    PROVE  /\ LastIs(Tail(q), r)
           /\ Head(q)[1] = "cmd" => Head(q) # Mark(r)
           /\ Head(q) = Mark(r) => Tail(q) = <<>>
<1>1. /\ Tail(q) \in Seq({"cmd", "mark"} \X Runs) /\ Len(Tail(q)) = Len(q) - 1 /\ Len(q) \in Nat \ {0}
      /\ \A i \in 1..Len(q) - 1 : Tail(q)[i] = q[i + 1]
      /\ Head(q) = q[1]
  BY HeadTailProperties
<1>2. q[Len(q)] = Mark(r) /\ \A i \in 1..Len(q) : q[i] = Mark(r) => i = Len(q)
  BY DEF LastIs
<1>3. DOMAIN Tail(q) = 1..Len(q) - 1
  BY <1>1
<1>4. Tail(q) # <<>> => Tail(q)[Len(Tail(q))] = Mark(r)
  <2> SUFFICES ASSUME Tail(q) # <<>> PROVE Tail(q)[Len(Tail(q))] = Mark(r)
    OBVIOUS
  <2>1. Len(q) - 1 \in 1..Len(q) - 1
    <3>1. Len(Tail(q)) # 0
      BY <1>1
    <3> QED BY <1>1, <3>1
  <2>2. Tail(q)[Len(q) - 1] = q[(Len(q) - 1) + 1] /\ (Len(q) - 1) + 1 = Len(q)
    BY <1>1, <2>1
  <2> QED BY <1>1, <1>2, <2>2
<1>5. \A i \in DOMAIN Tail(q) : Tail(q)[i] = Mark(r) => i = Len(Tail(q))
  <2> SUFFICES ASSUME NEW i \in 1..Len(q) - 1, Tail(q)[i] = Mark(r) PROVE i = Len(q) - 1
    BY <1>1, <1>3
  <2>1. q[i + 1] = Mark(r) /\ i + 1 \in 1..Len(q)
    BY <1>1
  <2>2. i + 1 = Len(q)
    BY <1>2, <2>1
  <2>3. Len(q) \in Nat
    BY <1>1
  <2> QED BY <2>2, <2>3
<1>6. Head(q) = Mark(r) => Tail(q) = <<>>
  <2> SUFFICES ASSUME Head(q) = Mark(r) PROVE Tail(q) = <<>>
    OBVIOUS
  <2>1. 1 \in 1..Len(q) /\ q[1] = Mark(r)
    BY <1>1
  <2>2. 1 = Len(q)
    BY <1>2, <2>1
  <2>3. Tail(q) \in Seq({"cmd", "mark"} \X Runs) /\ Len(Tail(q)) = 0
    BY <1>1, <2>2
  <2> QED BY <2>3, EmptySeq
<1>7. Mark(r)[1] = "mark"
  BY DEF Mark
<1> QED BY <1>4, <1>5, <1>6, <1>7 DEF LastIs

(* What is read, or read and echoed, was there before.                      *)
StdinShrinks(h) ==
    \/ bash'[h].stdin = bash[h].stdin \/ bash'[h].stdin = <<>>
    \/ bash[h].stdin # <<>> /\ bash'[h].stdin = Tail(bash[h].stdin)

LEMMA ShrunkStdin ==
    ASSUME ShellShape, NEW h \in Handles, StdinShrinks(h)
    PROVE  /\ \A i \in DOMAIN bash'[h].stdin : \E j \in DOMAIN bash[h].stdin : bash'[h].stdin[i] = bash[h].stdin[j]
           /\ \A r : LastIs(bash[h].stdin, r) => LastIs(bash'[h].stdin, r)
<1>1. bash[h].stdin \in Seq({"cmd", "mark"} \X Runs)
  BY DEF ShellShape, BashRec
<1>2. CASE bash'[h].stdin = bash[h].stdin
  BY <1>2
<1>3. CASE bash'[h].stdin = <<>>
  BY <1>3 DEF LastIs
<1>4. CASE bash[h].stdin # <<>> /\ bash'[h].stdin = Tail(bash[h].stdin)
  <2>1. \A i \in DOMAIN Tail(bash[h].stdin) :
           i + 1 \in DOMAIN bash[h].stdin /\ Tail(bash[h].stdin)[i] = bash[h].stdin[i + 1]
    BY <1>1, <1>4, TailOfPipe
  <2>2. \A r : LastIs(bash[h].stdin, r) => LastIs(Tail(bash[h].stdin), r)
    BY <1>1, <1>4, LastOfTail
  <2> QED BY <1>4, <2>1, <2>2
<1> QED BY <1>2, <1>3, <1>4 DEF StdinShrinks

(* A line that is not the marker of r.                                      *)
LEMMA OtherLineAdded ==
    ASSUME NEW q \in Seq(Token), NEW t \in Token, NEW r, ~(t.mark /\ t.run = r)
    PROVE  /\ (\A i \in DOMAIN q : ~(q[i].mark /\ q[i].run = r))
                 => \A i \in DOMAIN Append(q, t) : ~(Append(q, t)[i].mark /\ Append(q, t)[i].run = r)
           /\ \A i \in DOMAIN Append(q, t) : Append(q, t)[i].mark /\ Append(q, t)[i].run = r
                 => i \in DOMAIN q /\ Append(q, t)[i] = q[i]
BY AppendedToPipe

(* What a step of bash h must do for the invariant.                         *)
GoodMove(h) ==
    /\ BashMoves(h) /\ StdinShrinks(h)
    /\ bash[h].st # "none" /\ bash'[h].st # "none"
    /\ bash'[h].st = "live" => bash[h].st = "live"
    /\ \A r \in Runs : bash'[h].st = "live" /\ LastServes(bash[h], r, kind) => LastServes(bash'[h], r, kind)
    /\ \A r \in Runs : MarkFree(bash[h], r) => MarkFree(bash'[h], r)
    /\ bash'[h].job # 0 => bash'[h].job \in DOMAIN kind
    /\ bash'[h].late # 0 => bash'[h].late \in DOMAIN kind /\ kind[bash'[h].late] = "background"
    /\ bash'[h].st = "live" /\ Clean(bash[h], kind) => Clean(bash'[h], kind)
    /\ \A r \in Runs : Serves(bash[h], r, kind) => Serves(bash'[h], r, kind)

(* What a bash and its call have after a step that begins no command.       *)
LEMMA PrimedFacts ==
    ASSUME kind' = kind
    PROVE  /\ \A h : Clean(bash'[h], kind) => Clean(bash[h], kind)'
           /\ \A c : Serves(bash'[call'[c].h], call'[c].run, kind) => Serves(bash[call[c].h], call[c].run, kind)'
           /\ \A h, c : LastServes(bash'[h], call'[c].run, kind) => LastServes(bash[h], call[c].run, kind)'
           /\ \A h, r : MarkFree(bash'[h], r) => MarkFree(bash[h], r)'
<1>1. \A h : Clean(bash'[h], kind) => Clean(bash[h], kind)'
  <2>1. ASSUME NEW h, OnlyLate(bash'[h], kind) PROVE OnlyLate(bash[h], kind)'
    <3>1. \A i \in DOMAIN bash'[h].pipe : OfBackground(bash'[h].pipe[i], kind)
      BY <2>1, ZenonT(30) DEF OnlyLate
    <3> QED BY <3>1 DEF OnlyLate, OfBackground
  <2> QED BY <2>1 DEF Clean
<1>2. \A c : Serves(bash'[call'[c].h], call'[c].run, kind) => Serves(bash[call[c].h], call[c].run, kind)'
  BY DEF Serves, OfBackground
<1>3. \A h, c : LastServes(bash'[h], call'[c].run, kind) => LastServes(bash[h], call[c].run, kind)'
  BY DEF LastServes, LastIs, OfBackground
<1>4. \A h, r : MarkFree(bash'[h], r) => MarkFree(bash[h], r)'
  BY DEF MarkFree
<1> QED BY <1>1, <1>2, <1>3, <1>4

LEMMA RunsOfCalls ==
    ASSUME ShellInv, NEW c \in Callers, call[c].pc # "idle"
    PROVE  call[c].run \in Runs
<1>1. call[c].run \in DOMAIN kind
  BY DEF ShellInv, CommandsAreKnown
<1>2. kind \in Seq(Kinds) /\ Len(kind) <= MaxCommands
  BY DEF ShellInv, ShellShape
<1> QED BY <1>1, <1>2, ShellAssumption DEF Runs

LEMMA HandlesOfSessions ==
    ASSUME ShellShape, NEW k \in Keys, sessions[k] # 0
    PROVE  sessions[k] \in Handles
<1>1. sessions[k] \in 0..MaxHandles
  BY DEF ShellShape
<1> QED BY <1>1, ShellAssumption DEF Handles

LEMMA GoodMoveKeeps ==
    ASSUME ShellInv, NEW h \in Handles, GoodMove(h)
    PROVE  ShellInv'
<1>1. /\ UNCHANGED <<envKey, sessions, kind, call, crowded>>
      /\ bash' \in [Handles -> BashRec]
      /\ \A g \in Handles \ {h} : bash'[g] = bash[g]
  BY DEF GoodMove, BashMoves
<1>2. ShellShape'
  BY <1>1 DEF ShellInv, ShellShape
<1>3. \A g \in Handles : Spawned(g)' <=> Spawned(g)
  BY <1>1 DEF GoodMove, Spawned
<1>4. SessionsAreSpawned'
  <2>1. \A k \in Keys : sessions[k] # 0 => sessions[k] \in Handles
    BY HandlesOfSessions DEF ShellInv
  <2>2. \A k \in Keys : sessions'[k] # 0 => Spawned(sessions[k])'
    BY <1>1, <1>3, <2>1 DEF ShellInv, SessionsAreSpawned
  <2>3. \A c \in Callers : Holds(c)' => call'[c].h \in Handles /\ Spawned(call[c].h)'
    BY <1>1, <1>3 DEF ShellInv, SessionsAreSpawned, Holds
  <2> QED BY <2>2, <2>3 DEF SessionsAreSpawned
<1>5. TogetherIsCrowded' /\ RunsDiffer'
  BY <1>1 DEF ShellInv, TogetherIsCrowded, RunsDiffer, HasSent
<1>6. CommandsAreKnown'
  <2>1. \A i \in DOMAIN bash'[h].stdin : bash'[h].stdin[i][2] \in DOMAIN kind
    <3>1. \A i \in DOMAIN bash[h].stdin : bash[h].stdin[i][2] \in DOMAIN kind
      BY DEF ShellInv, CommandsAreKnown
    <3>2. \A i \in DOMAIN bash'[h].stdin : \E j \in DOMAIN bash[h].stdin : bash'[h].stdin[i] = bash[h].stdin[j]
      BY ShrunkStdin DEF ShellInv, GoodMove
    <3> QED BY <3>1, <3>2
  <2>2. \A g \in Handles : \A i \in DOMAIN bash'[g].stdin : bash'[g].stdin[i][2] \in DOMAIN kind
    BY <1>1, <2>1 DEF ShellInv, CommandsAreKnown
  <2>3. /\ \A g \in Handles : bash'[g].job # 0 => bash'[g].job \in DOMAIN kind
        /\ \A g \in Handles : bash'[g].late # 0 => bash'[g].late \in DOMAIN kind /\ kind[bash'[g].late] = "background"
    BY <1>1 DEF ShellInv, CommandsAreKnown, GoodMove
  <2>4. \A c \in Callers : call[c].pc # "idle" => call[c].run \in DOMAIN kind /\ call[c].key \in Keys
    BY DEF ShellInv, CommandsAreKnown
  <2> QED BY <1>1, <2>2, <2>3, <2>4 DEF CommandsAreKnown
<1>7. NewIsEmpty'
  BY <1>1, <1>3 DEF ShellInv, NewIsEmpty, GoodMove, Spawned
<1>8. NotYetWritten'
  <2> SUFFICES ASSUME NEW r \in Runs, r \notin DOMAIN kind \/ \E c \in Callers : WillSend(c) /\ call[c].run = r,
                      NEW g \in Handles
               PROVE  MarkFree(bash'[g], r)
    BY <1>1, PrimedFacts DEF NotYetWritten, WillSend
  <2>1. MarkFree(bash[g], r)
    BY DEF ShellInv, NotYetWritten
  <2> QED BY <1>1, <2>1 DEF GoodMove
<1>9. LiveIsTended'
  <2> SUFFICES ASSUME NEW g \in Handles, bash'[g].st = "live"
               PROVE  \/ Clean(bash'[g], kind)
                      \/ \E c \in Callers : HasSent(c) /\ call[c].h = g /\ LastServes(bash'[g], call'[c].run, kind)
    BY <1>1, PrimedFacts DEF LiveIsTended, HasSent
  <2>1. bash[g].st = "live"
    BY <1>1 DEF GoodMove
  <2>2. CASE Clean(bash[g], kind)
    BY <1>1, <2>2 DEF GoodMove
  <2>3. CASE ~Clean(bash[g], kind)
    <3>1. PICK c \in Callers : HasSent(c) /\ call[c].h = g /\ LastServes(bash[g], call[c].run, kind)
      BY <2>1, <2>3 DEF ShellInv, LiveIsTended
    <3>2. call[c].run \in Runs
      BY <3>1, RunsOfCalls DEF HasSent
    <3>3. LastServes(bash'[g], call[c].run, kind)
      BY <1>1, <3>1, <3>2 DEF GoodMove
    <3> QED BY <1>1, <3>1, <3>3
  <2> QED BY <2>2, <2>3
<1>10. ReadersAreServed'
  <2> SUFFICES ASSUME NEW c \in Callers \ crowded, HasSent(c)' PROVE Serves(bash[call[c].h], call[c].run, kind)'
    BY <1>1 DEF ReadersAreServed
  <2>1. HasSent(c) /\ Serves(bash[call[c].h], call[c].run, kind) /\ call[c].h \in Handles
        /\ call'[c].h = call[c].h /\ call'[c].run = call[c].run
    BY <1>1 DEF ShellInv, ReadersAreServed, SessionsAreSpawned, HasSent, Holds
  <2>2. call[c].run \in Runs
    BY <2>1, RunsOfCalls DEF HasSent
  <2>3. Serves(bash'[call[c].h], call[c].run, kind)
    BY <1>1, <2>1, <2>2 DEF GoodMove
  <2>4. bash'[call'[c].h] = bash'[call[c].h] /\ call'[c].run = call[c].run /\ kind' = kind
    BY <1>1, <2>1
  <2> QED BY <1>1, <2>3, <2>4, PrimedFacts
<1>11. ForeignIsLate'
  BY <1>1 DEF ShellInv, ForeignIsLate, OfBackground
<1> QED BY <1>2, <1>4, <1>5, <1>6, <1>7, <1>8, <1>9, <1>10, <1>11 DEF ShellInv

LEMMA JobIsRun ==
    ASSUME ShellInv, NEW n, n \in DOMAIN kind
    PROVE  n \in Runs /\ n # 0
<1>1. kind \in Seq(Kinds) /\ Len(kind) <= MaxCommands
  BY DEF ShellInv, ShellShape
<1> QED BY <1>1, ShellAssumption DEF Runs

LEMMA TakeCommandIsGood ==
    ASSUME ShellInv, NEW h \in Handles, TakeCommand(h)
    PROVE  GoodMove(h)
<1>1. /\ BashMoves(h)
      /\ bash[h].st = "live" /\ bash[h].job = 0 /\ bash[h].stdin # <<>> /\ Head(bash[h].stdin)[1] = "cmd"
      /\ bash'[h].pipe = bash[h].pipe /\ bash'[h].late = bash[h].late
      /\ \/ bash'[h].st = "dead" /\ bash'[h].stdin = <<>> /\ bash'[h].job = 0
         \/ /\ bash'[h].st = "live" /\ bash'[h].stdin = Tail(bash[h].stdin)
            /\ bash'[h].job = Head(bash[h].stdin)[2]
  BY TakeCommandMoves DEF ShellInv
<1>2. ~Clean(bash[h], kind)
  BY <1>1 DEF Clean
<1>3. ASSUME NEW r \in Runs, Serves(bash[h], r, kind) PROVE Serves(bash'[h], r, kind)
  <2>1. bash[h].stdin \in Scripts(r) /\ \A i \in DOMAIN bash[h].pipe : ~ bash[h].pipe[i].mark
    BY <1>1, <1>3 DEF Serves, Scripts
  <2>2. Tail(bash[h].stdin) = <<Mark(r)>> /\ Head(bash[h].stdin)[2] = r
    BY <1>1, <2>1, ScriptLines
  <2> QED BY <1>1, <1>3, <2>1, <2>2 DEF Serves
<1>t. bash[h].stdin \in Seq({"cmd", "mark"} \X Runs)
  BY DEF ShellInv, ShellShape, BashRec
<1>4. bash'[h].job # 0 => bash'[h].job \in DOMAIN kind
  <2>1. Head(bash[h].stdin) = bash[h].stdin[1] /\ 1 \in DOMAIN bash[h].stdin
    BY <1>1, <1>t, TailOfPipe
  <2>2. bash[h].stdin[1][2] \in DOMAIN kind
    BY <2>1 DEF ShellInv, CommandsAreKnown
  <2> QED BY <1>1, <2>1, <2>2
<1>5. bash'[h].late # 0 => bash'[h].late \in DOMAIN kind /\ kind[bash'[h].late] = "background"
  BY <1>1 DEF ShellInv, CommandsAreKnown
<1>6. StdinShrinks(h)
  BY <1>1 DEF StdinShrinks
<1>7. ASSUME NEW r \in Runs, LastServes(bash[h], r, kind) PROVE LastServes(bash'[h], r, kind)
  <2>1. LastIs(bash'[h].stdin, r)
    BY <1>6, <1>7, ShrunkStdin DEF ShellInv, LastServes
  <2>2. \A i \in DOMAIN bash[h].pipe : ~(bash[h].pipe[i].mark /\ bash[h].pipe[i].run = r)
    BY <1>1, <1>7 DEF LastServes
  <2> QED BY <1>1, <2>1, <2>2 DEF LastServes
<1>8. ASSUME NEW r \in Runs, MarkFree(bash[h], r) PROVE MarkFree(bash'[h], r)
  <2>1. \A i \in DOMAIN bash'[h].stdin : \E j \in DOMAIN bash[h].stdin : bash'[h].stdin[i] = bash[h].stdin[j]
    BY <1>6, ShrunkStdin DEF ShellInv
  <2> QED BY <1>1, <1>8, <2>1 DEF MarkFree
<1> QED BY <1>1, <1>2, <1>3, <1>4, <1>5, <1>6, <1>7, <1>8 DEF GoodMove

LEMMA EchoMarkerIsGood ==
    ASSUME ShellInv, NEW h \in Handles, EchoMarker(h)
    PROVE  GoodMove(h)
<1>1. /\ BashMoves(h)
      /\ bash[h].st = "live" /\ bash[h].job = 0 /\ bash[h].stdin # <<>> /\ Head(bash[h].stdin)[1] = "mark"
      /\ bash'[h].st = "live" /\ bash'[h].job = 0 /\ bash'[h].late = bash[h].late
      /\ bash'[h].stdin = Tail(bash[h].stdin)
      /\ \E t \in Token : /\ t.run = Head(bash[h].stdin)[2] /\ t.mark
                          /\ bash'[h].pipe = Append(bash[h].pipe, t)
  BY EchoMarkerMoves DEF ShellInv
<1>2. ~Clean(bash[h], kind)
  BY <1>1 DEF Clean
<1>3. ASSUME NEW r \in Runs, Serves(bash[h], r, kind) PROVE Serves(bash'[h], r, kind)
  <2>1. bash[h].stdin \in Scripts(r) /\ \A i \in DOMAIN bash[h].pipe : ~ bash[h].pipe[i].mark
    BY <1>1, <1>3 DEF Serves, Scripts
  <2>2. Tail(bash[h].stdin) = <<>> /\ Head(bash[h].stdin)[2] = r
    BY <1>1, <2>1, ScriptLines
  <2>3. PICK t \in Token : t.run = r /\ bash'[h].pipe = Append(bash[h].pipe, t)
    BY <1>1, <2>2
  <2> DEFINE old == bash[h].pipe
             new == bash'[h].pipe
  <2>4. old \in Seq(Token)
    BY DEF ShellInv, ShellShape, BashRec
  <2>5. /\ DOMAIN new = DOMAIN old \cup {Len(old) + 1}
        /\ \A i \in DOMAIN old : new[i] = old[i]
        /\ \A i \in DOMAIN old \cup {Len(old) + 1} : ~ (Len(old) + 1 < i)
    BY <2>3, <2>4, AppendedToPipe
  <2>6. \A i \in DOMAIN new : new[i].run = r \/ OfBackground(new[i], kind)
    <3>1. \A i \in DOMAIN old : old[i].run = r \/ OfBackground(old[i], kind)
      BY <1>3 DEF Serves
    <3> QED BY <2>3, <2>4, <3>1, LineAdded
  <2>7. ASSUME NEW i \in DOMAIN new, new[i].mark, NEW j \in DOMAIN new, i < j PROVE FALSE
    <3>1. i = Len(old) + 1
      BY <2>1, <2>5, <2>7
    <3> QED BY <2>5, <2>7, <3>1
  <2> HIDE DEF old, new
  <2> QED BY <1>1, <2>2, <2>6, <2>7 DEF Serves, new
<1>4. bash'[h].late # 0 => bash'[h].late \in DOMAIN kind /\ kind[bash'[h].late] = "background"
  BY <1>1 DEF ShellInv, CommandsAreKnown
<1>6. StdinShrinks(h)
  BY <1>1 DEF StdinShrinks
<1> DEFINE old == bash[h].pipe
           new == bash'[h].pipe
<1>t. bash[h].stdin \in Seq({"cmd", "mark"} \X Runs) /\ old \in Seq(Token)
  BY DEF ShellInv, ShellShape, BashRec
<1>5. /\ Head(bash[h].stdin) = bash[h].stdin[1] /\ 1 \in DOMAIN bash[h].stdin
      /\ Head(bash[h].stdin) = Mark(Head(bash[h].stdin)[2])
  <2>1. /\ Head(bash[h].stdin) \in {"cmd", "mark"} \X Runs
        /\ Head(bash[h].stdin) = bash[h].stdin[1] /\ 1 \in DOMAIN bash[h].stdin
    BY <1>1, <1>t, TailOfPipe
  <2>2. \A x \in {"cmd", "mark"} \X Runs : x[1] = "mark" => x = Mark(x[2])
    BY DEF Mark
  <2> QED BY <1>1, <2>1, <2>2
<1>9. PICK t \in Token : t.run = Head(bash[h].stdin)[2] /\ t.mark /\ new = Append(old, t)
  BY <1>1
<1> HIDE DEF old, new
<1>7. ASSUME NEW r \in Runs, LastServes(bash[h], r, kind) PROVE LastServes(bash'[h], r, kind)
  <2>1. LastIs(bash'[h].stdin, r)
    BY <1>6, <1>7, ShrunkStdin DEF ShellInv, LastServes
  <2>2. \A i \in DOMAIN old : ~(old[i].mark /\ old[i].run = r)
    BY <1>1, <1>7 DEF LastServes, old
  <2>3. ASSUME NEW i \in DOMAIN new, new[i].mark, new[i].run = r
        PROVE  /\ bash'[h].stdin = <<>> /\ bash'[h].job = 0
               /\ \A j \in DOMAIN new : ~(i < j)
    <3>1. i = Len(old) + 1 /\ \A j \in DOMAIN new : ~(i < j)
      BY <1>9, <1>t, <2>2, <2>3, AppendedToPipe
    <3>2. t.run = r
      BY <1>9, <1>t, <2>3, <3>1, AppendedToPipe
    <3>3. Tail(bash[h].stdin) = <<>>
      BY <1>1, <1>5, <1>7, <1>9, <1>t, <3>2, LastOfTail DEF LastServes
    <3> QED BY <1>1, <3>1, <3>3
  <2> QED BY <2>1, <2>3 DEF LastServes, new
<1>8. ASSUME NEW r \in Runs, MarkFree(bash[h], r) PROVE MarkFree(bash'[h], r)
  <2>1. \A i \in DOMAIN bash'[h].stdin : \E j \in DOMAIN bash[h].stdin : bash'[h].stdin[i] = bash[h].stdin[j]
    BY <1>6, ShrunkStdin DEF ShellInv
  <2>2. Head(bash[h].stdin)[2] # r
    BY <1>5, <1>8 DEF MarkFree
  <2>3. \A i \in DOMAIN new : ~(new[i].mark /\ new[i].run = r)
    <3>1. \A i \in DOMAIN old : ~(old[i].mark /\ old[i].run = r)
      BY <1>8 DEF MarkFree, old
    <3> QED BY <1>9, <1>t, <2>2, <3>1, OtherLineAdded
  <2> QED BY <1>8, <2>1, <2>3 DEF MarkFree, new
<1> QED BY <1>1, <1>2, <1>3, <1>4, <1>6, <1>7, <1>8 DEF GoodMove

(* Where a line is added nothing else is.                                   *)
LEMMA MarksStay ==
    ASSUME NEW q \in Seq(Token), NEW t \in Token, NEW i \in DOMAIN Append(q, t), Append(q, t)[i].mark, ~t.mark
    PROVE  i \in DOMAIN q /\ Append(q, t)[i] = q[i]
BY AppendedToPipe

(* A line that is no marker follows a marker only from the background.      *)
LEMMA LineIsNoMark ==
    ASSUME ShellInv, NEW h \in Handles, NEW t \in Token, ~t.mark,
           bash'[h].pipe = Append(bash[h].pipe, t), bash'[h].stdin = bash[h].stdin,
           bash'[h].job \in {0, bash[h].job},
           bash[h].job # 0 \/ OfBackground(t, kind)
    PROVE  /\ \A r \in Runs : LastServes(bash[h], r, kind) => LastServes(bash'[h], r, kind)
           /\ \A r \in Runs : MarkFree(bash[h], r) => MarkFree(bash'[h], r)
<1> DEFINE old == bash[h].pipe
           new == bash'[h].pipe
<1>1. old \in Seq(Token) /\ new = Append(old, t)
  BY DEF ShellInv, ShellShape, BashRec
<1>2. /\ DOMAIN new = DOMAIN old \cup {Len(old) + 1} /\ new[Len(old) + 1] = t
      /\ \A i \in DOMAIN old : new[i] = old[i]
  BY <1>1, AppendedToPipe
<1> HIDE DEF old, new
<1>3. ASSUME NEW r \in Runs, LastServes(bash[h], r, kind) PROVE LastServes(bash'[h], r, kind)
  <2>1. LastIs(bash'[h].stdin, r)
    BY <1>3 DEF LastServes
  <2>2. ASSUME NEW i \in DOMAIN new, new[i].mark, new[i].run = r
        PROVE  /\ bash'[h].stdin = <<>> /\ bash'[h].job = 0
               /\ \A j \in DOMAIN new : i < j => OfBackground(new[j], kind)
    <3>1. i \in DOMAIN old /\ old[i].mark /\ old[i].run = r
      BY <1>2, <2>2
    <3>2. /\ bash[h].stdin = <<>> /\ bash[h].job = 0
          /\ \A j \in DOMAIN old : i < j => OfBackground(old[j], kind)
      BY <1>3, <3>1 DEF LastServes, old
    <3> QED BY <1>2, <3>2
  <2> QED BY <2>1, <2>2 DEF LastServes, new
<1>4. ASSUME NEW r \in Runs, MarkFree(bash[h], r) PROVE MarkFree(bash'[h], r)
  <2>1. \A i \in DOMAIN new : ~(new[i].mark /\ new[i].run = r)
    BY <1>2, <1>4 DEF MarkFree, old
  <2> QED BY <1>4, <2>1 DEF MarkFree, new
<1> QED BY <1>3, <1>4

LEMMA PrintLineIsGood ==
    ASSUME ShellInv, NEW h \in Handles, PrintLine(h)
    PROVE  GoodMove(h)
<1>1. /\ BashMoves(h)
      /\ bash[h].job # 0 /\ bash'[h].job \in {0, bash[h].job}
      /\ bash'[h].st = bash[h].st /\ bash'[h].stdin = bash[h].stdin /\ bash'[h].late = bash[h].late
      /\ \E t \in Token : t.run = bash[h].job /\ ~t.mark /\ bash'[h].pipe = Append(bash[h].pipe, t)
  BY PrintLineMoves DEF ShellInv
<1>2. ~Clean(bash[h], kind)
  BY <1>1 DEF Clean
<1>3. ASSUME NEW r \in Runs, Serves(bash[h], r, kind) PROVE Serves(bash'[h], r, kind)
  <2>1. bash[h].job = r
    BY <1>1, <1>3 DEF Serves
  <2>2. bash[h].st = "live" =>
           bash[h].stdin \in {<<>>, <<Mark(r)>>} /\ \A i \in DOMAIN bash[h].pipe : ~ bash[h].pipe[i].mark
    BY <1>1, <1>3 DEF Serves
  <2>3. PICK t \in Token : t.run = r /\ ~t.mark /\ bash'[h].pipe = Append(bash[h].pipe, t)
    BY <1>1, <2>1
  <2>4. bash[h].pipe \in Seq(Token)
    BY DEF ShellInv, ShellShape, BashRec
  <2>5. \A i \in DOMAIN bash'[h].pipe : bash'[h].pipe[i].run = r \/ OfBackground(bash'[h].pipe[i], kind)
    <3>1. \A i \in DOMAIN bash[h].pipe : bash[h].pipe[i].run = r \/ OfBackground(bash[h].pipe[i], kind)
      BY <1>3 DEF Serves
    <3> QED BY <2>3, <2>4, <3>1, LineAdded
  <2>6. bash[h].st = "live" => \A i \in DOMAIN bash'[h].pipe : ~ bash'[h].pipe[i].mark
    BY <2>2, <2>3, <2>4, MarksStay
  <2>7. bash'[h].st = "live" =>
           bash'[h].stdin \in {<<>>, <<Mark(r)>>} /\ \A i \in DOMAIN bash'[h].pipe : ~ bash'[h].pipe[i].mark
    BY <1>1, <2>2, <2>6
  <2> QED BY <1>1, <2>1, <2>5, <2>7 DEF Serves
<1>4. /\ bash'[h].late # 0 => bash'[h].late \in DOMAIN kind /\ kind[bash'[h].late] = "background"
      /\ bash'[h].job # 0 => bash'[h].job \in DOMAIN kind
  BY <1>1 DEF ShellInv, CommandsAreKnown
<1>5. bash[h].st # "none"
  BY <1>1 DEF ShellInv, NewIsEmpty, Spawned, NoProc
<1>6. StdinShrinks(h)
  BY <1>1 DEF StdinShrinks
<1>7. /\ \A r \in Runs : LastServes(bash[h], r, kind) => LastServes(bash'[h], r, kind)
      /\ \A r \in Runs : MarkFree(bash[h], r) => MarkFree(bash'[h], r)
  BY <1>1, LineIsNoMark
<1> QED BY <1>1, <1>2, <1>3, <1>4, <1>5, <1>6, <1>7 DEF GoodMove

LEMMA EndJobIsGood ==
    ASSUME ShellInv, NEW h \in Handles, EndJob(h)
    PROVE  GoodMove(h)
<1>1. /\ BashMoves(h)
      /\ bash[h].job # 0 /\ bash'[h].job = 0
      /\ bash'[h].st = bash[h].st /\ bash'[h].pipe = bash[h].pipe
      /\ \/ bash'[h].stdin = bash[h].stdin
         \/ bash[h].stdin # <<>> /\ bash'[h].stdin = Tail(bash[h].stdin)
      /\ \/ bash'[h].late = bash[h].late
         \/ bash'[h].late = bash[h].job /\ kind[bash[h].job] = "background"
  BY EndJobMoves DEF ShellInv
<1>2. ~Clean(bash[h], kind)
  BY <1>1 DEF Clean
<1>3. ASSUME NEW r \in Runs, Serves(bash[h], r, kind) PROVE Serves(bash'[h], r, kind)
  <2>1. bash[h].st = "live" =>
           /\ bash[h].stdin \in {<<>>, <<Mark(r)>>}
           /\ \A i \in DOMAIN bash[h].pipe : ~ bash[h].pipe[i].mark
    BY <1>1, <1>3 DEF Serves
  <2>2. Tail(<<Mark(r)>>) = <<>>
    OBVIOUS
  <2>3. bash[h].st = "live" => bash'[h].stdin \in {<<>>, <<Mark(r)>>}
    BY <1>1, <2>1, <2>2
  <2> QED BY <1>1, <1>3, <2>1, <2>3 DEF Serves
<1>4. bash'[h].late # 0 => bash'[h].late \in DOMAIN kind /\ kind[bash'[h].late] = "background"
  BY <1>1 DEF ShellInv, CommandsAreKnown
<1>5. bash[h].st # "none"
  BY <1>1 DEF ShellInv, NewIsEmpty, Spawned, NoProc
<1>6. StdinShrinks(h)
  BY <1>1 DEF StdinShrinks
<1>7. ASSUME NEW r \in Runs, LastServes(bash[h], r, kind) PROVE LastServes(bash'[h], r, kind)
  <2>1. LastIs(bash'[h].stdin, r)
    BY <1>6, <1>7, ShrunkStdin DEF ShellInv, LastServes
  <2>2. \A i \in DOMAIN bash[h].pipe : ~(bash[h].pipe[i].mark /\ bash[h].pipe[i].run = r)
    BY <1>1, <1>7 DEF LastServes
  <2> QED BY <1>1, <2>1, <2>2 DEF LastServes
<1>8. ASSUME NEW r \in Runs, MarkFree(bash[h], r) PROVE MarkFree(bash'[h], r)
  <2>1. \A i \in DOMAIN bash'[h].stdin : \E j \in DOMAIN bash[h].stdin : bash'[h].stdin[i] = bash[h].stdin[j]
    BY <1>6, ShrunkStdin DEF ShellInv
  <2> QED BY <1>1, <1>8, <2>1 DEF MarkFree
<1> QED BY <1>1, <1>2, <1>3, <1>4, <1>5, <1>6, <1>7, <1>8 DEF GoodMove

LEMMA LateLineIsGood ==
    ASSUME ShellInv, NEW h \in Handles, LateLine(h)
    PROVE  GoodMove(h)
<1>1. /\ BashMoves(h)
      /\ bash[h].late # 0 /\ bash'[h].late = 0
      /\ bash'[h].st = bash[h].st /\ bash'[h].stdin = bash[h].stdin /\ bash'[h].job = bash[h].job
      /\ \E t \in Token : t.run = bash[h].late /\ ~t.mark /\ bash'[h].pipe = Append(bash[h].pipe, t)
  BY LateLineMoves DEF ShellInv
<1>2. PICK t \in Token : t.run = bash[h].late /\ ~t.mark /\ bash'[h].pipe = Append(bash[h].pipe, t)
  BY <1>1
<1>3. OfBackground(t, kind)
  BY <1>1, <1>2 DEF ShellInv, CommandsAreKnown, OfBackground
<1> DEFINE old == bash[h].pipe
           new == bash'[h].pipe
<1>4. old \in Seq(Token) /\ new = Append(old, t)
  BY <1>2 DEF ShellInv, ShellShape, BashRec
<1>5. /\ DOMAIN new = DOMAIN old \cup {Len(old) + 1} /\ new[Len(old) + 1] = t
      /\ \A i \in DOMAIN old : new[i] = old[i]
  BY <1>4, AppendedToPipe
<1> HIDE DEF old, new
<1>6. Clean(bash[h], kind) => Clean(bash'[h], kind)
  BY <1>1, <1>3, <1>5 DEF Clean, OnlyLate, old, new
<1>7. ASSUME NEW r \in Runs, Serves(bash[h], r, kind) PROVE Serves(bash'[h], r, kind)
  <2>1. \A i \in DOMAIN old : old[i].run = r \/ OfBackground(old[i], kind)
    BY <1>7 DEF Serves, old
  <2>2. \A i \in DOMAIN new : new[i].run = r \/ OfBackground(new[i], kind)
    BY <1>3, <1>4, <2>1, LineAdded
  <2>3. ASSUME bash[h].st = "live", NEW i \in DOMAIN new, new[i].mark
        PROVE  /\ bash[h].stdin = <<>> /\ bash[h].job = 0
               /\ \A j \in DOMAIN new : i < j => OfBackground(new[j], kind)
    <3>1. i \in DOMAIN old /\ old[i].mark
      BY <1>2, <1>4, <2>3, MarksStay
    <3>2. /\ bash[h].stdin = <<>> /\ bash[h].job = 0
          /\ \A j \in DOMAIN old : i < j => OfBackground(old[j], kind)
      BY <1>7, <2>3, <3>1 DEF Serves, old
    <3> QED BY <1>3, <1>5, <3>2
  <2>4. /\ bash'[h].job \in {0, r}
        /\ bash'[h].st = "live" =>
             /\ bash'[h].stdin \in {<<>>, <<Mark(r)>>, <<Cmd(r), Mark(r)>>}
             /\ bash'[h].job # 0 => bash'[h].stdin \in {<<>>, <<Mark(r)>>}
    BY <1>1, <1>7 DEF Serves
  <2> QED BY <1>1, <2>2, <2>3, <2>4 DEF Serves, new
<1>8. bash'[h].job # 0 => bash'[h].job \in DOMAIN kind
  BY <1>1 DEF ShellInv, CommandsAreKnown
<1>9. bash[h].st # "none"
  BY <1>1 DEF ShellInv, NewIsEmpty, Spawned, NoProc
<1>10. StdinShrinks(h)
  BY <1>1 DEF StdinShrinks
<1>11. /\ \A r \in Runs : LastServes(bash[h], r, kind) => LastServes(bash'[h], r, kind)
       /\ \A r \in Runs : MarkFree(bash[h], r) => MarkFree(bash'[h], r)
  BY <1>1, <1>2, <1>3, LineIsNoMark
<1> QED BY <1>1, <1>6, <1>7, <1>8, <1>9, <1>10, <1>11 DEF GoodMove

LEMMA BashKeepsInv ==
    ASSUME ShellInv, NEW h \in Handles, Bash(h)
    PROVE  ShellInv'
<1>1. GoodMove(h)
  BY TakeCommandIsGood, EchoMarkerIsGood, PrintLineIsGood, EndJobIsGood, LateLineIsGood DEF Bash
<1> QED BY <1>1, GoodMoveKeeps

-----------------------------------------------------------------------------
(* Steps of a caller.                                                       *)

LEMMA RecordOfBash ==
    ASSUME NEW p \in BashRec
    PROVE  LET q == [p EXCEPT !.st = "dead", !.stdin = <<>>]
           IN  /\ q \in BashRec /\ q.st = "dead"
               /\ q.job = p.job /\ q.late = p.late /\ q.pipe = p.pipe /\ q.stdin = <<>>
<1> DEFINE d == [p EXCEPT !.st = "dead"]
<1>1. d \in BashRec /\ d.st = "dead" /\ d.job = p.job /\ d.late = p.late /\ d.pipe = p.pipe
  BY DEF BashRec
<1> HIDE DEF d
<1>2. LET q == [d EXCEPT !.stdin = <<>>]
      IN  /\ q \in BashRec /\ q.st = d.st /\ q.job = d.job /\ q.late = d.late /\ q.pipe = d.pipe
          /\ q.stdin = <<>>
  <2>1. <<>> \in Seq({"cmd", "mark"} \X Runs)
    OBVIOUS
  <2> DEFINE none == <<>>
  <2>3. none \in Seq({"cmd", "mark"} \X Runs)
    BY <2>1
  <2> HIDE DEF none
  <2>2. LET q == [d EXCEPT !.stdin = none]
        IN  /\ q \in BashRec /\ q.st = d.st /\ q.job = d.job /\ q.late = d.late /\ q.pipe = d.pipe
            /\ q.stdin = none
    BY <1>1, <2>3 DEF BashRec
  <2> QED BY <2>2 DEF none
<1>3. [p EXCEPT !.st = "dead", !.stdin = <<>>] = [d EXCEPT !.stdin = <<>>]
  BY DEF d
<1> QED BY <1>1, <1>2, <1>3

(* Bash h is as it was, or it was ended.                                    *)
Fades(h) ==
    /\ bash'[h].st = "live" \/ bash[h].st = "none" => bash'[h] = bash[h]
    /\ bash'[h].st = "none" => bash[h].st = "none"
    /\ bash'[h].job = bash[h].job /\ bash'[h].late = bash[h].late /\ bash'[h].pipe = bash[h].pipe
    /\ bash'[h].stdin \in {<<>>, bash[h].stdin}

LEMMA DisposedFade ==
    ASSUME ShellShape, NEW S, bash' = Disposed(bash, S)
    PROVE  /\ bash' \in [Handles -> BashRec]
           /\ \A h \in Handles : Fades(h)
           /\ \A h \in Handles \cap S : bash'[h].st # "live"
<1>1. bash \in [Handles -> BashRec]
  BY DEF ShellShape
<1>2. ASSUME NEW h \in Handles
      PROVE  bash'[h] \in BashRec /\ Fades(h) /\ (h \in S => bash'[h].st # "live")
  <2>1. bash[h] \in BashRec
    BY <1>1
  <2>2. CASE h \in S /\ bash[h].st = "live"
    <3> DEFINE q == [bash[h] EXCEPT !.st = "dead", !.stdin = <<>>]
    <3>1. bash'[h] = q
      BY <2>2 DEF Disposed
    <3>2. /\ q \in BashRec /\ q.st = "dead"
          /\ q.job = bash[h].job /\ q.late = bash[h].late /\ q.pipe = bash[h].pipe /\ q.stdin = <<>>
      BY <2>1, RecordOfBash
    <3> HIDE DEF q
    <3> QED BY <2>2, <3>1, <3>2 DEF Fades
  <2>3. CASE ~ (h \in S /\ bash[h].st = "live")
    <3>1. bash'[h] = bash[h]
      BY <2>3 DEF Disposed
    <3> QED BY <2>1, <2>3, <3>1 DEF Fades
  <2> QED BY <2>2, <2>3
<1>3. bash' = [h \in Handles |-> bash'[h]]
  BY DEF Disposed
<1>4. bash' \in [Handles -> BashRec]
  BY <1>2, <1>3
<1> QED BY <1>2, <1>4

LEMMA RestFades ==
    ASSUME ShellShape, UNCHANGED bash
    PROVE  bash' \in [Handles -> BashRec] /\ \A h \in Handles : Fades(h)
BY DEF ShellShape, Fades

(* What a step of caller c must do that ends bash processes or none.        *)
GoodCall(c) ==
    /\ envKey' \in Keys /\ UNCHANGED kind
    /\ call' \in [Callers -> CallRec]
    /\ \A d \in Callers \ {c} : call'[d] = call[d]
    /\ sessions' \in [Keys -> 0..MaxHandles]
    /\ \A k \in Keys : sessions'[k] \in {0, sessions[k]}
    /\ bash' \in [Handles -> BashRec]
    /\ \A h \in Handles : Fades(h)
    /\ call'[c].pc # "idle" =>
         call[c].pc # "idle" /\ call'[c].key = call[c].key /\ call'[c].run = call[c].run
    /\ Holds(c)' => \/ Holds(c) /\ call'[c].h = call[c].h
                    \/ ~HasSent(c)' /\ call'[c].h # 0 /\ call'[c].h = sessions[call[c].key]
    /\ HasSent(c)' => HasSent(c)
    /\ HasSent(c) => \/ HasSent(c)' /\ call'[c].h = call[c].h
                   \/ bash'[call[c].h].st # "live"
    /\ WillSend(c)' => WillSend(c)
    /\ call'[c].foreign \subseteq call[c].foreign
    /\ \A d \in Callers \ {c} : d \in crowded' <=> d \in crowded
    /\ c \in crowded => c \in crowded' \/ (~HasSent(c)' /\ call'[c].foreign = {})

LEMMA GoodCallKeepsOwners ==
    ASSUME ShellInv, NEW c \in Callers, GoodCall(c)
    PROVE  SessionsAreSpawned' /\ TogetherIsCrowded' /\ RunsDiffer'
<1>1. /\ \A d \in Callers \ {c} : call'[d] = call[d] /\ (Holds(d)' <=> Holds(d)) /\ (HasSent(d)' <=> HasSent(d))
      /\ \A k \in Keys : sessions'[k] \in {0, sessions[k]}
  BY DEF GoodCall, Holds, HasSent
<1>2. \A h \in Handles : Spawned(h) => bash'[h].st # "none"
  BY DEF GoodCall, Fades, Spawned
<1>3. \A k \in Keys : sessions[k] # 0 => sessions[k] \in Handles /\ Spawned(sessions[k])
  BY HandlesOfSessions DEF ShellInv, SessionsAreSpawned
<1>4. \A d \in Callers : call'[d].pc # "idle" =>
         call[d].pc # "idle" /\ call'[d].key = call[d].key /\ call'[d].run = call[d].run
  BY <1>1 DEF GoodCall
<1>5. \A d \in Callers : Holds(d)' =>
         \/ Holds(d) /\ call'[d].h = call[d].h
         \/ d = c /\ call'[d].h # 0 /\ call'[d].h = sessions[call[d].key]
  BY <1>1 DEF GoodCall
<1>6. \A d \in Callers : Holds(d)' => call[d].pc # "idle" /\ call[d].key \in Keys
  <2>1. \A d \in Callers : Holds(d)' => call[d].pc # "idle"
    BY <1>4 DEF Holds
  <2> QED BY <2>1 DEF ShellInv, CommandsAreKnown
<1>7. \A d \in Callers : Holds(d) => call[d].h \in Handles /\ Spawned(call[d].h)
  BY DEF ShellInv, SessionsAreSpawned
<1>8. (\A k \in Keys : sessions[k] # 0 => Spawned(sessions[k]))'
  BY <1>1, <1>2, <1>3 DEF Spawned
<1>9. (\A d \in Callers : Holds(d) => call[d].h \in Handles /\ Spawned(call[d].h))'
  <2> SUFFICES ASSUME NEW d \in Callers, Holds(d)' PROVE call'[d].h \in Handles /\ bash'[call'[d].h].st # "none"
    BY DEF Spawned
  <2>1. call'[d].h \in Handles /\ Spawned(call'[d].h)
    BY <1>3, <1>5, <1>6, <1>7
  <2> QED BY <1>2, <2>1
<1>10. TogetherIsCrowded'
  <2> SUFFICES ASSUME NEW d \in Callers, NEW e \in Callers, d # e, HasSent(d)', HasSent(e)', call'[d].h = call'[e].h
               PROVE  d \in crowded'
    BY DEF TogetherIsCrowded
  <2>1. \A x \in Callers : HasSent(x)' => HasSent(x) /\ call'[x].h = call[x].h
    <3>1. HasSent(c)' => HasSent(c) /\ call'[c].h = call[c].h
      BY DEF GoodCall, Holds, HasSent
    <3> QED BY <1>1, <3>1
  <2>2. d \in crowded
    BY <2>1 DEF ShellInv, TogetherIsCrowded
  <2> QED BY <2>2 DEF GoodCall
<1>11. RunsDiffer'
  <2> SUFFICES ASSUME NEW d \in Callers, NEW e \in Callers, d # e, call'[d].pc # "idle", call'[e].pc # "idle"
               PROVE  call'[d].run # call'[e].run
    BY DEF RunsDiffer
  <2> QED BY <1>4 DEF ShellInv, RunsDiffer
<1> QED BY <1>8, <1>9, <1>10, <1>11 DEF SessionsAreSpawned

LEMMA FadedServes ==
    ASSUME NEW h \in Handles, Fades(h), NEW r, NEW k, Serves(bash[h], r, k)
    PROVE  Serves(bash'[h], r, k)
BY DEF Fades, Serves

LEMMA FadedIsFree ==
    ASSUME NEW h \in Handles, Fades(h), NEW r, MarkFree(bash[h], r)
    PROVE  MarkFree(bash'[h], r)
BY DEF Fades, MarkFree

LEMMA GoodCallKeeps ==
    ASSUME ShellInv, NEW c \in Callers, GoodCall(c)
    PROVE  ShellInv'
<1>1. ShellShape'
  BY DEF ShellInv, ShellShape, GoodCall
<1>2. SessionsAreSpawned' /\ TogetherIsCrowded' /\ RunsDiffer'
  BY GoodCallKeepsOwners
<1>3. /\ \A d \in Callers \ {c} : call'[d] = call[d] /\ (HasSent(d)' <=> HasSent(d)) /\ (WillSend(d)' <=> WillSend(d))
      /\ \A h \in Handles : Fades(h)
      /\ kind' = kind
  BY DEF GoodCall, HasSent, WillSend
<1>4. CommandsAreKnown'
  <2>1. \A h \in Handles : \A i \in DOMAIN bash'[h].stdin : bash'[h].stdin[i][2] \in DOMAIN kind
    BY <1>3 DEF ShellInv, CommandsAreKnown, Fades
  <2>2. /\ \A h \in Handles : bash'[h].job # 0 => bash'[h].job \in DOMAIN kind
        /\ \A h \in Handles : bash'[h].late # 0 => bash'[h].late \in DOMAIN kind /\ kind[bash'[h].late] = "background"
    BY <1>3 DEF ShellInv, CommandsAreKnown, Fades
  <2>3. \A d \in Callers : call'[d].pc # "idle" => call'[d].run \in DOMAIN kind /\ call'[d].key \in Keys
    BY <1>3 DEF ShellInv, CommandsAreKnown, GoodCall
  <2> QED BY <1>3, <2>1, <2>2, <2>3 DEF CommandsAreKnown
<1>5. NewIsEmpty'
  BY <1>3 DEF ShellInv, NewIsEmpty, Spawned, Fades
<1>6. LiveIsTended'
  <2> SUFFICES ASSUME NEW h \in Handles, bash'[h].st = "live"
               PROVE  \/ Clean(bash'[h], kind)
                      \/ \E d \in Callers : HasSent(d)' /\ call'[d].h = h /\ LastServes(bash'[h], call'[d].run, kind)
    BY <1>3, PrimedFacts DEF LiveIsTended
  <2>1. bash'[h] = bash[h]
    BY <1>3 DEF Fades
  <2>2. CASE Clean(bash[h], kind)
    BY <2>1, <2>2
  <2>3. CASE ~Clean(bash[h], kind)
    <3>1. PICK d \in Callers : HasSent(d) /\ call[d].h = h /\ LastServes(bash[h], call[d].run, kind)
      BY <2>1, <2>3 DEF ShellInv, LiveIsTended
    <3>2. HasSent(d)' /\ call'[d].h = h /\ call'[d].run = call[d].run
      <4>1. CASE d = c
        <5>1. HasSent(c)' /\ call'[c].h = call[c].h
          BY <3>1, <4>1 DEF GoodCall
        <5>2. call'[c].pc # "idle"
          BY <5>1 DEF HasSent
        <5> QED BY <3>1, <4>1, <5>1, <5>2 DEF GoodCall
      <4>2. CASE d # c
        BY <1>3, <3>1, <4>2
      <4> QED BY <4>1, <4>2
    <3> QED BY <2>1, <3>1, <3>2
  <2> QED BY <2>2, <2>3
<1>7. ReadersAreServed'
  <2> SUFFICES ASSUME NEW d \in Callers \ crowded', HasSent(d)' PROVE Serves(bash[call[d].h], call[d].run, kind)'
    BY DEF ReadersAreServed
  <2>1. HasSent(d) /\ call'[d].h = call[d].h /\ call'[d].run = call[d].run /\ d \notin crowded
    BY <1>3 DEF GoodCall, HasSent, Holds
  <2>2. call[d].h \in Handles /\ Serves(bash[call[d].h], call[d].run, kind)
    BY <2>1 DEF ShellInv, ReadersAreServed, SessionsAreSpawned, HasSent, Holds
  <2>3. Serves(bash'[call[d].h], call[d].run, kind)
    BY <1>3, <2>2, FadedServes
  <2> QED BY <1>3, <2>1, <2>3, PrimedFacts
<1>8. ForeignIsLate'
  <2>1. ASSUME NEW d \in Callers, d \notin crowded', NEW t \in call'[d].foreign PROVE OfBackground(t, kind)
    BY <1>3, <2>1 DEF ShellInv, ForeignIsLate, GoodCall
  <2> QED BY ONLY <1>3, <2>1 DEF ForeignIsLate, OfBackground
<1>9. NotYetWritten'
  <2> SUFFICES ASSUME NEW r \in Runs,
                      r \notin DOMAIN kind \/ \E d \in Callers : WillSend(d)' /\ call'[d].run = r,
                      NEW h \in Handles
               PROVE  MarkFree(bash'[h], r)
    BY <1>3, PrimedFacts DEF NotYetWritten
  <2>1. \A d \in Callers : WillSend(d)' => WillSend(d) /\ call'[d].run = call[d].run
    <3>1. WillSend(c)' => WillSend(c) /\ call'[c].run = call[c].run
      BY DEF GoodCall, WillSend
    <3> QED BY <1>3, <3>1
  <2>2. MarkFree(bash[h], r)
    BY <2>1 DEF ShellInv, NotYetWritten
  <2> QED BY <1>3, <2>2, FadedIsFree
<1> QED BY <1>1, <1>2, <1>4, <1>5, <1>6, <1>7, <1>8, <1>9 DEF ShellInv

LEMMA CallIsTyped ==
    ASSUME ShellShape, NEW c \in Callers
    PROVE  /\ call[c] \in CallRec
           /\ NoShellCall \in CallRec /\ NoShellCall.pc = "idle" /\ NoShellCall.foreign = {}
           /\ [call EXCEPT ![c] = NoShellCall] \in [Callers -> CallRec]
           /\ [call EXCEPT ![c].over = TRUE] \in [Callers -> CallRec]
           /\ \A pc \in {"idle", "lookup", "spawn", "write", "readline", "late"} :
                [call EXCEPT ![c].pc = pc] \in [Callers -> CallRec]
<1>1. call \in [Callers -> CallRec]
  BY DEF ShellShape
<1>2. NoShellCall \in CallRec /\ NoShellCall.pc = "idle" /\ NoShellCall.foreign = {}
  BY ShellAssumption DEF NoShellCall, CallRec
<1>3. [call EXCEPT ![c].over = TRUE] \in [Callers -> CallRec]
  BY <1>1, ZenonT(30) DEF CallRec
<1>4. \A pc \in {"idle", "lookup", "spawn", "write", "readline", "late"} :
                [call EXCEPT ![c].pc = pc] \in [Callers -> CallRec]
  BY <1>1, ZenonT(30) DEF CallRec
<1> QED BY <1>1, <1>2, <1>3, <1>4

(* The call is over, and what it wrote to is dead by then.                  *)
LEMMA ReturnKeeps ==
    ASSUME ShellInv, NEW c \in Callers, ReturnCall(c), UNCHANGED <<envKey, sessions, kind>>,
           bash' \in [Handles -> BashRec], \A h \in Handles : Fades(h),
           HasSent(c) => bash'[call[c].h].st # "live"
    PROVE  ShellInv'
<1>1. call' = [call EXCEPT ![c] = NoShellCall] /\ call \in [Callers -> CallRec] /\ call' \in [Callers -> CallRec]
      /\ crowded' = crowded \ {c}
  BY CallIsTyped DEF ReturnCall, ShellInv, ShellShape
<1>2. call'[c] = NoShellCall /\ \A d \in Callers \ {c} : call'[d] = call[d]
  BY <1>1
<1>3. ~Holds(c)' /\ ~HasSent(c)' /\ ~WillSend(c)' /\ call'[c].pc = "idle" /\ call'[c].foreign = {}
  BY <1>2, CallIsTyped DEF Holds, HasSent, WillSend, ShellInv
<1>4. envKey \in Keys /\ sessions \in [Keys -> 0..MaxHandles]
  BY DEF ShellInv, ShellShape
<1> QED BY <1>1, <1>2, <1>3, <1>4, GoodCallKeeps DEF GoodCall

LEMMA RefuseCallKeeps ==
    ASSUME ShellInv, NEW c \in Callers, RefuseCall(c)
    PROVE  ShellInv'
<1>1. ~HasSent(c)
  BY DEF RefuseCall, HasSent
<1> QED BY <1>1, ReturnKeeps, RestFades DEF RefuseCall, ShellInv

LEMMA ReadEndKeeps ==
    ASSUME ShellInv, NEW c \in Callers, ReadEnd(c)
    PROVE  ShellInv'
<1>1. bash'[call[c].h].st # "live"
  BY DEF ReadEnd
<1> QED BY <1>1, ReturnKeeps, RestFades DEF ReadEnd, ShellInv

LEMMA GiveUpKeeps ==
    ASSUME ShellInv, NEW c \in Callers, GiveUp(c)
    PROVE  ShellInv'
<1>1. call[c].h \in Handles
  BY DEF GiveUp, ShellInv, SessionsAreSpawned, Holds
<1>2. /\ bash' \in [Handles -> BashRec] /\ \A h \in Handles : Fades(h)
      /\ bash'[call[c].h].st # "live"
  BY <1>1, DisposedFade DEF GiveUp, ShellInv
<1> QED BY <1>2, ReturnKeeps DEF GiveUp

LEMMA BeginTurnKeeps ==
    ASSUME ShellInv, NEW c \in Callers, BeginTurn(c)
    PROVE  ShellInv'
<1>1. envKey' \in Keys /\ UNCHANGED <<sessions, bash, kind, call, crowded>>
  BY DEF BeginTurn, Keys
<1>2. sessions \in [Keys -> 0..MaxHandles] /\ call \in [Callers -> CallRec]
  BY DEF ShellInv, ShellShape
<1>3. bash' \in [Handles -> BashRec] /\ \A h \in Handles : Fades(h)
  BY <1>1, RestFades DEF ShellInv
<1>4. /\ ~Holds(c)' /\ ~HasSent(c) /\ ~WillSend(c)' /\ call'[c].pc = "idle"
      /\ call'[c].foreign = call[c].foreign
  BY <1>1 DEF BeginTurn, Holds, HasSent, WillSend
<1> QED BY <1>1, <1>2, <1>3, <1>4, GoodCallKeeps DEF GoodCall, HasSent

LEMMA ResetShellKeeps ==
    ASSUME ShellInv, NEW c \in Callers, ResetShell(c)
    PROVE  ShellInv'
<1>1. /\ UNCHANGED <<envKey, kind, call, crowded>> /\ sessions' = [sessions EXCEPT ![envKey] = 0]
      /\ bash' = Disposed(bash, {sessions[envKey]}) /\ call[c].pc = "idle"
  BY DEF ResetShell
<1>2. envKey \in Keys /\ sessions \in [Keys -> 0..MaxHandles] /\ call \in [Callers -> CallRec]
  BY DEF ShellInv, ShellShape
<1>3. bash' \in [Handles -> BashRec] /\ \A h \in Handles : Fades(h)
  BY <1>1, DisposedFade DEF ShellInv
<1>4. sessions' \in [Keys -> 0..MaxHandles] /\ \A k \in Keys : sessions'[k] \in {0, sessions[k]}
  BY <1>1, <1>2, ShellAssumption
<1>5. /\ ~Holds(c)' /\ ~HasSent(c) /\ ~WillSend(c)' /\ call'[c].pc = "idle"
      /\ call'[c].foreign = call[c].foreign
  BY <1>1 DEF Holds, HasSent, WillSend
<1> QED BY <1>1, <1>2, <1>3, <1>4, <1>5, GoodCallKeeps DEF GoodCall, HasSent

LEMMA ExpireKeeps ==
    ASSUME ShellInv, NEW c \in Callers, Expire(c)
    PROVE  ShellInv'
<1>1. /\ UNCHANGED <<envKey, sessions, bash, kind, crowded>> /\ call' = [call EXCEPT ![c].over = TRUE]
      /\ call[c].pc = "readline"
  BY DEF Expire
<1>2. envKey \in Keys /\ sessions \in [Keys -> 0..MaxHandles] /\ call \in [Callers -> CallRec]
  BY DEF ShellInv, ShellShape
<1>3. call' \in [Callers -> CallRec]
  BY <1>1, CallIsTyped DEF ShellInv
<1>4. bash' \in [Handles -> BashRec] /\ \A h \in Handles : Fades(h)
  BY <1>1, RestFades DEF ShellInv
<1>5. /\ call'[c].pc = call[c].pc /\ call'[c].key = call[c].key /\ call'[c].run = call[c].run
      /\ call'[c].h = call[c].h /\ call'[c].foreign = call[c].foreign
      /\ \A d \in Callers \ {c} : call'[d] = call[d]
  BY <1>1, <1>2 DEF CallRec
<1>6. Holds(c) /\ HasSent(c) /\ HasSent(c)' /\ ~WillSend(c)'
  BY <1>1, <1>5 DEF Holds, HasSent, WillSend
<1> QED BY <1>1, <1>2, <1>3, <1>4, <1>5, <1>6, GoodCallKeeps DEF GoodCall

LEMMA LookupKeeps ==
    ASSUME ShellInv, NEW c \in Callers, Lookup(c)
    PROVE  ShellInv'
<1>1. PICK n \in 0..Len(ByAge) :
        LET idle   == {ByAge[i] : i \in 1..n} \cup {h \in Mapped : ~Lives(h)}
            kept   == Mapped \ idle
            own    == sessions[call[c].key]
            oldest == SelectSeq(ByAge, LAMBDA h : h \in kept)
            evict  == IF own \notin kept /\ Cardinality(kept) >= MaxSessions /\ oldest # <<>>
                      THEN {Head(oldest)} ELSE {}
        IN  /\ bash' = Disposed(bash, idle \cup evict)
            /\ sessions' = Without(idle \cup evict)
            /\ call' = [call EXCEPT ![c].pc = IF own \in kept THEN "write" ELSE "spawn",
                                    ![c].h = IF own \in kept THEN own ELSE 0]
  BY DEF Lookup
<1> DEFINE own    == sessions[call[c].key]
           idle   == {ByAge[i] : i \in 1..n} \cup {h \in Mapped : ~Lives(h)}
           kept   == Mapped \ idle
           oldest == SelectSeq(ByAge, LAMBDA h : h \in kept)
           evict  == IF own \notin kept /\ Cardinality(kept) >= MaxSessions /\ oldest # <<>>
                     THEN {Head(oldest)} ELSE {}
           gone   == idle \cup evict
           pc     == IF own \in kept THEN "write" ELSE "spawn"
           mine   == IF own \in kept THEN own ELSE 0
<1>2. /\ bash' = Disposed(bash, gone) /\ sessions' = Without(gone)
      /\ call' = [call EXCEPT ![c].pc = pc, ![c].h = mine]
  BY <1>1
<1>3. kept \subseteq Mapped
  OBVIOUS
<1> HIDE DEF idle, kept, evict, gone
<1>4. /\ call[c].pc = "lookup" /\ UNCHANGED <<envKey, kind, crowded>>
      /\ envKey \in Keys /\ sessions \in [Keys -> 0..MaxHandles] /\ call \in [Callers -> CallRec]
      /\ call[c].key \in Keys /\ ShellShape
  BY DEF Lookup, ShellInv, ShellShape, CommandsAreKnown
<1>5. pc \in {"write", "spawn"} /\ (pc = "write" => mine = own /\ mine # 0) /\ mine \in 0..MaxHandles
  BY <1>3, <1>4, ShellAssumption DEF Mapped
<1> HIDE DEF pc, mine
<1>6. call' \in [Callers -> CallRec]
  <2> DEFINE head == [call EXCEPT ![c].pc = pc]
  <2>1. head \in [Callers -> CallRec]
    BY <1>4, <1>5, CallIsTyped
  <2>2. call' = [head EXCEPT ![c].h = mine]
    BY <1>2
  <2> HIDE DEF head
  <2>3. \A x \in 0..MaxHandles : [head EXCEPT ![c].h = x] \in [Callers -> CallRec]
    BY <2>1, ZenonT(30) DEF CallRec
  <2> QED BY <1>5, <2>2, <2>3
<1>7. /\ call'[c].pc = pc /\ call'[c].key = call[c].key /\ call'[c].run = call[c].run
      /\ call'[c].h = mine /\ call'[c].foreign = call[c].foreign
      /\ \A d \in Callers \ {c} : call'[d] = call[d]
  BY <1>2, <1>4 DEF CallRec
<1>8. bash' \in [Handles -> BashRec] /\ \A h \in Handles : Fades(h)
  BY <1>2, <1>4, DisposedFade
<1>9. sessions' \in [Keys -> 0..MaxHandles] /\ \A k \in Keys : sessions'[k] \in {0, sessions[k]}
  BY <1>2, <1>4, ShellAssumption DEF Without
<1>10. ~HasSent(c) /\ ~HasSent(c)' /\ (Holds(c)' => pc = "write") /\ WillSend(c)
  BY <1>4, <1>5, <1>7 DEF HasSent, Holds, WillSend
<1> QED BY <1>4, <1>5, <1>6, <1>7, <1>8, <1>9, <1>10, GoodCallKeeps DEF GoodCall

-----------------------------------------------------------------------------
(* A command more: what is known of the others stays.                       *)

LEMMA KindGrows ==
    ASSUME NEW k \in Seq(Kinds), NEW x \in Kinds
    PROVE  /\ Append(k, x) \in Seq(Kinds) /\ Len(Append(k, x)) = Len(k) + 1
           /\ Len(k) + 1 \in DOMAIN Append(k, x)
           /\ \A i \in DOMAIN k : i \in DOMAIN Append(k, x) /\ Append(k, x)[i] = k[i]
OBVIOUS

LEMMA CallShellKeeps ==
    ASSUME ShellInv, NEW c \in Callers, CallShell(c)
    PROVE  ShellInv'
<1> DEFINE run == Len(kind) + 1
<1>1. /\ call[c].pc = "idle" /\ UNCHANGED <<envKey, sessions, bash, crowded>>
      /\ Len(kind) < MaxCommands
  BY DEF CallShell
<1>2. /\ envKey \in Keys /\ kind \in Seq(Kinds) /\ call \in [Callers -> CallRec]
      /\ sessions \in [Keys -> 0..MaxHandles] /\ bash \in [Handles -> BashRec]
  BY DEF ShellInv, ShellShape
<1>3. /\ kind' \in Seq(Kinds) /\ Len(kind') = run /\ run \in DOMAIN kind'
      /\ \A i \in DOMAIN kind : i \in DOMAIN kind' /\ kind'[i] = kind[i]
      /\ run \notin DOMAIN kind
  BY <1>2, KindGrows DEF CallShell
<1>4. run \in Runs /\ run \in 0..MaxCommands
  BY <1>1, <1>2, ShellAssumption DEF Runs
<1> HIDE DEF run
<1> DEFINE new == [NoShellCall EXCEPT !.pc = "lookup", !.key = envKey, !.run = run]
<1>5. call' = [call EXCEPT ![c] = new]
  BY <1>3 DEF CallShell
<1> HIDE DEF new
<1>6. /\ new \in CallRec /\ new.pc = "lookup" /\ new.key = envKey /\ new.run = run /\ new.foreign = {}
  <2> DEFINE pcSet  == [NoShellCall EXCEPT !.pc = "lookup"]
             keySet == [pcSet EXCEPT !.key = envKey]
  <2>1. pcSet \in CallRec /\ pcSet.pc = "lookup" /\ pcSet.foreign = {}
    BY CallIsTyped DEF CallRec, ShellInv
  <2>2. new = [keySet EXCEPT !.run = run]
    BY DEF new
  <2> HIDE DEF pcSet
  <2>3. keySet \in CallRec /\ keySet.pc = "lookup" /\ keySet.key = envKey /\ keySet.foreign = {}
    BY <1>2, <2>1 DEF CallRec
  <2> HIDE DEF keySet
  <2> QED BY <1>4, <2>2, <2>3 DEF CallRec
<1>7. /\ call' \in [Callers -> CallRec] /\ call'[c] = new /\ \A d \in Callers \ {c} : call'[d] = call[d]
  BY <1>2, <1>5, <1>6
<1>8. /\ ~Holds(c)' /\ ~HasSent(c)' /\ ~Holds(c) /\ ~HasSent(c)
      /\ \A d \in Callers \ {c} : /\ (Holds(d)' <=> Holds(d)) /\ (HasSent(d)' <=> HasSent(d))
                                 /\ (WillSend(d)' <=> WillSend(d))
  BY <1>1, <1>6, <1>7 DEF Holds, HasSent, WillSend
<1>9. \A t : OfBackground(t, kind) => OfBackground(t, kind')
  BY <1>3 DEF OfBackground
<1>10. ShellShape'
  BY <1>1, <1>2, <1>3, <1>4, <1>7, ShellAssumption DEF ShellShape, Runs
<1>11. SessionsAreSpawned' /\ TogetherIsCrowded' /\ RunsDiffer'
  <2>1. SessionsAreSpawned'
    BY <1>1, <1>7, <1>8 DEF ShellInv, SessionsAreSpawned, Spawned
  <2>2. TogetherIsCrowded'
    BY <1>1, <1>7, <1>8 DEF ShellInv, TogetherIsCrowded
  <2>3. \A d \in Callers \ {c} : call[d].pc # "idle" => call[d].run # run
    BY <1>3 DEF ShellInv, CommandsAreKnown
  <2>4. RunsDiffer'
    <3> SUFFICES ASSUME NEW d \in Callers, NEW e \in Callers, d # e, call'[d].pc # "idle", call'[e].pc # "idle"
                 PROVE  call'[d].run # call'[e].run
      BY DEF RunsDiffer
    <3>1. CASE d = c
      BY <1>6, <1>7, <2>3, <3>1
    <3>2. CASE e = c
      BY <1>6, <1>7, <2>3, <3>2
    <3>3. CASE d # c /\ e # c
      BY <1>7, <3>3 DEF ShellInv, RunsDiffer
    <3> QED BY <3>1, <3>2, <3>3
  <2> QED BY <2>1, <2>2, <2>4
<1>12. CommandsAreKnown'
  BY <1>1, <1>2, <1>3, <1>6, <1>7 DEF ShellInv, CommandsAreKnown
<1>13. NewIsEmpty'
  BY <1>1 DEF ShellInv, NewIsEmpty, Spawned
<1>14. LiveIsTended'
  <2> SUFFICES ASSUME NEW h \in Handles, bash[h].st = "live"
               PROVE  \/ Clean(bash[h], kind')
                      \/ \E d \in Callers : HasSent(d)' /\ call'[d].h = h /\ LastServes(bash[h], call'[d].run, kind')
    BY <1>1 DEF LiveIsTended
  <2>1. CASE Clean(bash[h], kind)
    BY <1>9, <2>1 DEF Clean, OnlyLate
  <2>2. CASE ~Clean(bash[h], kind)
    <3>1. PICK d \in Callers : HasSent(d) /\ call[d].h = h /\ LastServes(bash[h], call[d].run, kind)
      BY <2>2 DEF ShellInv, LiveIsTended
    <3>2. LastServes(bash[h], call[d].run, kind')
      BY <1>9, <3>1 DEF LastServes
    <3> QED BY <1>7, <1>8, <3>1, <3>2
  <2> QED BY <2>1, <2>2
<1>15. ReadersAreServed'
  <2> SUFFICES ASSUME NEW d \in Callers \ crowded, HasSent(d)' PROVE Serves(bash[call'[d].h], call'[d].run, kind')
    BY <1>1 DEF ReadersAreServed
  <2>1. Serves(bash[call'[d].h], call'[d].run, kind)
    BY <1>7, <1>8 DEF ShellInv, ReadersAreServed
  <2> QED BY <1>9, <2>1 DEF Serves
<1>16. ForeignIsLate'
  BY <1>1, <1>6, <1>7, <1>9 DEF ShellInv, ForeignIsLate
<1>17. NotYetWritten'
  <2> SUFFICES ASSUME NEW r \in Runs,
                      r \notin DOMAIN kind' \/ \E d \in Callers : WillSend(d)' /\ call'[d].run = r,
                      NEW h \in Handles
               PROVE  MarkFree(bash[h], r)
    BY <1>1 DEF NotYetWritten
  <2>1. r \notin DOMAIN kind \/ \E d \in Callers : WillSend(d) /\ call[d].run = r
    <3>1. CASE r \notin DOMAIN kind'
      BY <1>3, <3>1
    <3>2. CASE \E d \in Callers : WillSend(d)' /\ call'[d].run = r
      <4>1. PICK d \in Callers : WillSend(d)' /\ call'[d].run = r
        BY <3>2
      <4>2. CASE d = c
        BY <1>3, <1>6, <1>7, <4>1, <4>2
      <4>3. CASE d # c
        BY <1>7, <1>8, <4>1, <4>3
      <4> QED BY <4>2, <4>3
    <3> QED BY <3>1, <3>2
  <2> QED BY <2>1 DEF ShellInv, NotYetWritten
<1> QED BY <1>10, <1>11, <1>12, <1>13, <1>14, <1>15, <1>16, <1>17 DEF ShellInv

LEMMA CallFieldIsTyped ==
    ASSUME NEW b \in [Callers -> CallRec], NEW c \in Callers
    PROVE  /\ \A x \in {"idle", "lookup", "spawn", "write", "readline", "late"} :
                [b EXCEPT ![c].pc = x] \in [Callers -> CallRec]
           /\ \A x \in 0..MaxHandles : [b EXCEPT ![c].h = x] \in [Callers -> CallRec]
           /\ \A x \in SUBSET Token : [b EXCEPT ![c].foreign = x] \in [Callers -> CallRec]
<1>1. \A x \in {"idle", "lookup", "spawn", "write", "readline", "late"} :
         [b EXCEPT ![c].pc = x] \in [Callers -> CallRec]
  BY ZenonT(30) DEF CallRec
<1>2. \A x \in 0..MaxHandles : [b EXCEPT ![c].h = x] \in [Callers -> CallRec]
  BY ZenonT(30) DEF CallRec
<1>3. \A x \in SUBSET Token : [b EXCEPT ![c].foreign = x] \in [Callers -> CallRec]
  BY ZenonT(30) DEF CallRec
<1> QED BY <1>1, <1>2, <1>3

LEMMA StartBashKeeps ==
    ASSUME ShellInv, NEW c \in Callers, StartBash(c)
    PROVE  ShellInv'
<1>1. PICK h \in Handles :
        /\ bash[h].st = "none"
        /\ bash' = [bash EXCEPT ![h].st = "live"]
        /\ sessions' = [sessions EXCEPT ![call[c].key] = h]
        /\ call' = [call EXCEPT ![c].pc = "write", ![c].h = h]
  BY DEF StartBash
<1>2. /\ call[c].pc = "spawn" /\ UNCHANGED <<envKey, kind, crowded>> /\ ShellShape /\ call[c].key \in Keys
      /\ sessions \in [Keys -> 0..MaxHandles] /\ bash \in [Handles -> BashRec] /\ call \in [Callers -> CallRec]
  BY DEF StartBash, ShellInv, ShellShape, CommandsAreKnown
<1>3. h \in 0..MaxHandles /\ h # 0
  BY ShellAssumption DEF Handles
<1>4. bash[h] = NoProc
  BY <1>1 DEF ShellInv, NewIsEmpty, Spawned
<1>5. /\ bash' \in [Handles -> BashRec] /\ \A g \in Handles \ {h} : bash'[g] = bash[g]
      /\ bash'[h].st = "live" /\ bash'[h].stdin = bash[h].stdin /\ bash'[h].job = bash[h].job
      /\ bash'[h].late = bash[h].late /\ bash'[h].pipe = bash[h].pipe
  <2>1. bash' \in [Handles -> BashRec]
    BY <1>1, <1>2, FieldIsTyped
  <2> QED BY <1>1, <1>2, <2>1, SMTT(30) DEF BashRec
<1>6. bash'[h].stdin = <<>> /\ bash'[h].job = 0 /\ bash'[h].late = 0 /\ bash'[h].pipe = <<>>
  BY <1>4, <1>5 DEF NoProc
<1>7. call' \in [Callers -> CallRec]
  <2> DEFINE head == [call EXCEPT ![c].pc = "write"]
  <2>1. head \in [Callers -> CallRec]
    BY <1>2, CallFieldIsTyped
  <2>2. call' = [head EXCEPT ![c].h = h]
    BY <1>1
  <2> HIDE DEF head
  <2> QED BY <1>3, <2>1, <2>2, CallFieldIsTyped
<1>8. /\ call'[c].pc = "write" /\ call'[c].key = call[c].key /\ call'[c].run = call[c].run
      /\ call'[c].h = h /\ call'[c].foreign = call[c].foreign
      /\ \A d \in Callers \ {c} : call'[d] = call[d]
  BY <1>1, <1>2 DEF CallRec
<1>9. /\ Holds(c)' /\ ~HasSent(c)' /\ ~Holds(c) /\ ~HasSent(c) /\ WillSend(c)
      /\ \A d \in Callers \ {c} : /\ (Holds(d)' <=> Holds(d)) /\ (HasSent(d)' <=> HasSent(d))
                                 /\ (WillSend(d)' <=> WillSend(d))
  BY <1>2, <1>8 DEF Holds, HasSent, WillSend
<1>10. /\ sessions' \in [Keys -> 0..MaxHandles] /\ sessions'[call[c].key] = h
       /\ \A k \in Keys \ {call[c].key} : sessions'[k] = sessions[k]
  BY <1>1, <1>2, <1>3
<1>11. \A d \in Callers : Holds(d) => call[d].h # h
  BY <1>1 DEF ShellInv, SessionsAreSpawned, Spawned
<1>12. ShellShape'
  BY <1>2, <1>5, <1>7, <1>10 DEF ShellShape
<1>13. SessionsAreSpawned' /\ TogetherIsCrowded' /\ RunsDiffer'
  <2>1. \A g \in Handles : Spawned(g) => bash'[g].st # "none"
    BY <1>5 DEF Spawned
  <2>2. (\A k \in Keys : sessions[k] # 0 => Spawned(sessions[k]))'
    <3> SUFFICES ASSUME NEW k \in Keys, sessions'[k] # 0 PROVE bash'[sessions'[k]].st # "none"
      BY DEF Spawned
    <3>1. CASE k = call[c].key
      BY <1>5, <1>10, <3>1
    <3>2. CASE k # call[c].key
      <4>1. sessions'[k] = sessions[k] /\ sessions[k] \in Handles /\ Spawned(sessions[k])
        BY <1>2, <1>10, <3>2, HandlesOfSessions DEF ShellInv, SessionsAreSpawned
      <4> QED BY <2>1, <4>1
    <3> QED BY <3>1, <3>2
  <2>4. (\A d \in Callers : Holds(d) => call[d].h \in Handles /\ Spawned(call[d].h))'
    <3> SUFFICES ASSUME NEW d \in Callers, Holds(d)'
                 PROVE  call'[d].h \in Handles /\ bash'[call'[d].h].st # "none"
      BY DEF Spawned
    <3>1. CASE d = c
      BY <1>5, <1>8, <3>1
    <3>2. CASE d # c
      <4>1. call'[d] = call[d] /\ call[d].h \in Handles /\ Spawned(call[d].h)
        BY <1>8, <1>9, <3>2 DEF ShellInv, SessionsAreSpawned
      <4> QED BY <2>1, <4>1
    <3> QED BY <3>1, <3>2
  <2>5. TogetherIsCrowded'
    BY <1>2, <1>8, <1>9 DEF ShellInv, TogetherIsCrowded
  <2>6. RunsDiffer'
    <3>1. \A d \in Callers : call'[d].run = call[d].run /\ (call'[d].pc # "idle" => call[d].pc # "idle")
      BY <1>2, <1>8
    <3> QED BY <3>1 DEF ShellInv, RunsDiffer
  <2> QED BY <2>2, <2>4, <2>5, <2>6 DEF SessionsAreSpawned
<1>14. CommandsAreKnown'
  <2>1. \A g \in Handles : /\ bash'[g].stdin = bash[g].stdin
                            /\ bash'[g].job = bash[g].job /\ bash'[g].late = bash[g].late
    BY <1>5
  <2>2. \A d \in Callers : call'[d].pc # "idle" =>
          call[d].pc # "idle" /\ call'[d].run = call[d].run /\ call'[d].key = call[d].key
    BY <1>2, <1>8
  <2> QED BY <1>2, <2>1, <2>2 DEF ShellInv, CommandsAreKnown
<1>15. NewIsEmpty'
  BY <1>5 DEF ShellInv, NewIsEmpty, Spawned
<1>16. LiveIsTended'
  <2> SUFFICES ASSUME NEW g \in Handles, bash'[g].st = "live"
               PROVE  \/ Clean(bash'[g], kind)
                      \/ \E d \in Callers : HasSent(d)' /\ call'[d].h = g /\ LastServes(bash'[g], call'[d].run, kind)
    BY <1>2, PrimedFacts DEF LiveIsTended
  <2>1. CASE g = h
    BY <1>6, <2>1 DEF Clean, OnlyLate
  <2>2. CASE g # h
    <3>1. bash'[g] = bash[g]
      BY <1>5, <2>2
    <3>2. \/ Clean(bash[g], kind)
          \/ \E d \in Callers : HasSent(d) /\ call[d].h = g /\ LastServes(bash[g], call[d].run, kind)
      BY <3>1 DEF ShellInv, LiveIsTended
    <3>3. \A d \in Callers : HasSent(d) => HasSent(d)' /\ call'[d] = call[d]
      BY <1>8, <1>9
    <3> QED BY <3>1, <3>2, <3>3
  <2> QED BY <2>1, <2>2
<1>17. ReadersAreServed'
  <2> SUFFICES ASSUME NEW d \in Callers \ crowded, HasSent(d)' PROVE Serves(bash'[call'[d].h], call'[d].run, kind)
    BY <1>2, PrimedFacts DEF ReadersAreServed
  <2>1. call'[d] = call[d] /\ HasSent(d) /\ Holds(d)
    BY <1>8, <1>9 DEF Holds, HasSent
  <2>2. call[d].h \in Handles \ {h}
    BY <1>11, <2>1 DEF ShellInv, SessionsAreSpawned
  <2> QED BY <1>5, <2>1, <2>2 DEF ShellInv, ReadersAreServed
<1>18. ForeignIsLate'
  <2>1. \A d \in Callers : call'[d].foreign = call[d].foreign
    BY <1>8
  <2> QED BY <1>2, <2>1 DEF ShellInv, ForeignIsLate, OfBackground
<1>19. NotYetWritten'
  <2> SUFFICES ASSUME NEW r \in Runs,
                      r \notin DOMAIN kind \/ \E d \in Callers : WillSend(d)' /\ call'[d].run = r,
                      NEW g \in Handles
               PROVE  MarkFree(bash'[g], r)
    BY <1>2, PrimedFacts DEF NotYetWritten
  <2>1. \A d \in Callers : WillSend(d)' => WillSend(d) /\ call'[d].run = call[d].run
    BY <1>8, <1>9
  <2>2. MarkFree(bash[g], r)
    BY <2>1 DEF ShellInv, NotYetWritten
  <2>3. bash'[g].stdin = bash[g].stdin /\ bash'[g].pipe = bash[g].pipe
    BY <1>5
  <2> QED BY <2>2, <2>3 DEF MarkFree
<1> QED BY <1>12, <1>13, <1>14, <1>15, <1>16, <1>17, <1>18, <1>19 DEF ShellInv

(* A step of call c on its own bash h that keeps what the others rely on.    *)
HolderStep(c, h) ==
    /\ Holds(c) /\ h = call[c].h /\ UNCHANGED <<envKey, sessions, kind>>
    /\ bash' \in [Handles -> BashRec] /\ \A g \in Handles \ {h} : bash'[g] = bash[g]
    /\ bash'[h].st = bash[h].st /\ bash'[h].job = bash[h].job /\ bash'[h].late = bash[h].late
    /\ \A i \in DOMAIN bash'[h].stdin : bash'[h].stdin[i][2] \in DOMAIN kind
    /\ \A r \in Runs \ {call[c].run} : MarkFree(bash[h], r) => MarkFree(bash'[h], r)
    /\ call' \in [Callers -> CallRec] /\ \A d \in Callers \ {c} : call'[d] = call[d]
    /\ call'[c].pc # "idle" => call'[c].h = h /\ call'[c].key = call[c].key /\ call'[c].run = call[c].run
    /\ ~WillSend(c)'
    /\ \A d \in Callers \ {c} : d \in crowded \/ (HasSent(d) /\ call[d].h = h) => d \in crowded'
    /\ HasSent(c)' /\ c \notin crowded' => \A d \in Callers \ {c} : ~(HasSent(d) /\ call[d].h = h)
    /\ HasSent(c)' /\ c \notin crowded' => Serves(bash'[h], call[c].run, kind)
    /\ c \notin crowded' => \A t \in call'[c].foreign : OfBackground(t, kind)
    /\ bash'[h].st = "live" =>
         \/ Clean(bash'[h], kind)
         \/ \E d \in Callers : HasSent(d)' /\ call'[d].h = h /\ LastServes(bash'[h], call'[d].run, kind)

LEMMA HolderKeeps ==
    ASSUME ShellInv, NEW c \in Callers, NEW h \in Handles, HolderStep(c, h)
    PROVE  ShellInv'
<1>1. /\ Holds(c) /\ h = call[c].h /\ UNCHANGED <<envKey, sessions, kind>> /\ ~WillSend(c)'
      /\ bash' \in [Handles -> BashRec] /\ \A g \in Handles \ {h} : bash'[g] = bash[g]
      /\ bash'[h].st = bash[h].st /\ bash'[h].job = bash[h].job /\ bash'[h].late = bash[h].late
      /\ call' \in [Callers -> CallRec] /\ \A d \in Callers \ {c} : call'[d] = call[d]
      /\ call'[c].pc # "idle" => call'[c].h = h /\ call'[c].key = call[c].key /\ call'[c].run = call[c].run
      /\ \A d \in Callers \ {c} : d \in crowded \/ (HasSent(d) /\ call[d].h = h) => d \in crowded'
  BY DEF HolderStep
<1>2. ShellShape'
  BY <1>1 DEF ShellInv, ShellShape
<1>3. /\ \A d \in Callers \ {c} : /\ (Holds(d)' <=> Holds(d)) /\ (HasSent(d)' <=> HasSent(d))
                                  /\ (WillSend(d)' <=> WillSend(d))
      /\ HasSent(c)' => Holds(c)' /\ call'[c].pc # "idle" /\ call'[c].h = h
      /\ Holds(c)' => call'[c].pc # "idle" /\ call'[c].h = h
      /\ call[c].pc # "idle"
  BY <1>1 DEF Holds, HasSent, WillSend
<1>4. \A g \in Handles : bash'[g].st = bash[g].st /\ bash'[g].job = bash[g].job /\ bash'[g].late = bash[g].late
  BY <1>1
<1>5. \A d \in Callers : Holds(d)' => Holds(d) /\ call'[d].h = call[d].h
  BY <1>1, <1>3
<1>6. \A d \in Callers : call'[d].pc # "idle" =>
        call[d].pc # "idle" /\ call'[d].run = call[d].run /\ call'[d].key = call[d].key
  BY <1>1, <1>3
<1>7. SessionsAreSpawned'
  <2>1. (\A k \in Keys : sessions[k] # 0 => Spawned(sessions[k]))'
    <3> SUFFICES ASSUME NEW k \in Keys, sessions[k] # 0 PROVE bash'[sessions[k]].st # "none"
      BY <1>1 DEF Spawned
    <3>1. sessions[k] \in Handles /\ Spawned(sessions[k])
      BY HandlesOfSessions DEF ShellInv, SessionsAreSpawned
    <3> QED BY <1>4, <3>1 DEF Spawned
  <2>2. (\A d \in Callers : Holds(d) => call[d].h \in Handles /\ Spawned(call[d].h))'
    <3> SUFFICES ASSUME NEW d \in Callers, Holds(d)'
                 PROVE  call'[d].h \in Handles /\ bash'[call'[d].h].st # "none"
      BY DEF Spawned
    <3>1. call'[d].h = call[d].h /\ call[d].h \in Handles /\ Spawned(call[d].h)
      BY <1>5 DEF ShellInv, SessionsAreSpawned
    <3> QED BY <1>4, <3>1 DEF Spawned
  <2> QED BY <2>1, <2>2 DEF SessionsAreSpawned
<1>8. TogetherIsCrowded'
  <2> SUFFICES ASSUME NEW d \in Callers, NEW e \in Callers, d # e, HasSent(d)', HasSent(e)', call'[d].h = call'[e].h
               PROVE  d \in crowded'
    BY DEF TogetherIsCrowded
  <2>1. CASE d = c
    <3>1. HasSent(e) /\ call[e].h = h
      BY <1>1, <1>3, <2>1
    <3> QED BY <2>1, <3>1 DEF HolderStep
  <2>2. CASE e = c
    <3>1. HasSent(d) /\ call[d].h = h
      BY <1>1, <1>3, <2>2
    <3> QED BY <1>1, <2>2, <3>1
  <2>3. CASE d # c /\ e # c
    <3>1. HasSent(d) /\ HasSent(e) /\ call[d].h = call[e].h
      BY <1>1, <1>3, <2>3
    <3>2. d \in crowded
      BY <3>1 DEF ShellInv, TogetherIsCrowded
    <3> QED BY <1>1, <2>3, <3>2
  <2> QED BY <2>1, <2>2, <2>3
<1>9. RunsDiffer'
  BY <1>6 DEF ShellInv, RunsDiffer
<1>10. CommandsAreKnown'
  <2>1. \A g \in Handles : \A i \in DOMAIN bash'[g].stdin : bash'[g].stdin[i][2] \in DOMAIN kind
    <3>1. \A i \in DOMAIN bash'[h].stdin : bash'[h].stdin[i][2] \in DOMAIN kind
      BY DEF HolderStep
    <3> QED BY <1>1, <3>1 DEF ShellInv, CommandsAreKnown
  <2> QED BY <1>1, <1>4, <1>6, <2>1 DEF ShellInv, CommandsAreKnown
<1>11. NewIsEmpty'
  <2>1. Spawned(h)
    BY <1>1 DEF ShellInv, SessionsAreSpawned
  <2> QED BY <1>1, <1>4, <2>1 DEF ShellInv, NewIsEmpty, Spawned
<1>12. NotYetWritten'
  <2> SUFFICES ASSUME NEW r \in Runs,
                      r \notin DOMAIN kind \/ \E d \in Callers : WillSend(d)' /\ call'[d].run = r,
                      NEW g \in Handles
               PROVE  MarkFree(bash'[g], r)
    BY <1>1, PrimedFacts DEF NotYetWritten
  <2>1. call[c].run \in DOMAIN kind
    BY <1>3 DEF ShellInv, CommandsAreKnown
  <2>2. r # call[c].run /\ (r \notin DOMAIN kind \/ \E d \in Callers : WillSend(d) /\ call[d].run = r)
    <3>1. CASE r \notin DOMAIN kind
      BY <2>1, <3>1
    <3>2. CASE \E d \in Callers : WillSend(d)' /\ call'[d].run = r
      <4>1. PICK d \in Callers : WillSend(d)' /\ call'[d].run = r
        BY <3>2
      <4>2. d # c /\ WillSend(d) /\ call[d].run = r
        BY <1>1, <1>3, <4>1
      <4>3. call[d].pc # "idle"
        BY <4>2 DEF WillSend
      <4> QED BY <1>3, <4>2, <4>3 DEF ShellInv, RunsDiffer
    <3> QED BY <3>1, <3>2
  <2>3. MarkFree(bash[g], r)
    BY <2>2 DEF ShellInv, NotYetWritten
  <2>4. CASE g = h
    BY <2>2, <2>3, <2>4 DEF HolderStep
  <2>5. CASE g # h
    BY <1>1, <2>3, <2>5
  <2> QED BY <2>4, <2>5
<1>13. LiveIsTended'
  <2> SUFFICES ASSUME NEW g \in Handles, bash'[g].st = "live"
               PROVE  \/ Clean(bash'[g], kind)
                      \/ \E d \in Callers : HasSent(d)' /\ call'[d].h = g /\ LastServes(bash'[g], call'[d].run, kind)
    BY <1>1, PrimedFacts DEF LiveIsTended
  <2>1. CASE g = h
    BY <2>1 DEF HolderStep
  <2>2. CASE g # h
    <3>1. bash'[g] = bash[g]
      BY <1>1, <2>2
    <3>2. CASE Clean(bash[g], kind)
      BY <3>1, <3>2
    <3>3. CASE ~Clean(bash[g], kind)
      <4>1. PICK d \in Callers : HasSent(d) /\ call[d].h = g /\ LastServes(bash[g], call[d].run, kind)
        BY <3>1, <3>3 DEF ShellInv, LiveIsTended
      <4>2. d # c
        BY <1>1, <2>2, <4>1
      <4> QED BY <1>1, <1>3, <3>1, <4>1, <4>2
    <3> QED BY <3>2, <3>3
  <2> QED BY <2>1, <2>2
<1>14. ReadersAreServed'
  <2> SUFFICES ASSUME NEW d \in Callers \ crowded', HasSent(d)' PROVE Serves(bash'[call'[d].h], call'[d].run, kind)
    BY <1>1, PrimedFacts DEF ReadersAreServed
  <2>1. CASE d = c
    <3>1. call'[d].h = h /\ call'[d].run = call[c].run
      BY <1>1, <1>3, <2>1
    <3>2. Serves(bash'[h], call[c].run, kind)
      BY <2>1 DEF HolderStep
    <3> QED BY <3>1, <3>2
  <2>2. CASE d # c
    <3>1. call'[d] = call[d] /\ HasSent(d) /\ d \notin crowded /\ call[d].h # h
      BY <1>1, <1>3, <2>2
    <3>2. call[d].h \in Handles
      BY <3>1 DEF ShellInv, SessionsAreSpawned, HasSent, Holds
    <3>3. bash'[call[d].h] = bash[call[d].h]
      BY <1>1, <3>1, <3>2
    <3> QED BY <3>1, <3>3 DEF ShellInv, ReadersAreServed
  <2> QED BY <2>1, <2>2
<1>15. ForeignIsLate'
  <2>1. ASSUME NEW d \in Callers, d \notin crowded', NEW t \in call'[d].foreign PROVE OfBackground(t, kind)
    <3>1. CASE d = c
      BY <2>1, <3>1 DEF HolderStep
    <3>2. CASE d # c
      <4>1. d \notin crowded /\ t \in call[d].foreign
        BY <1>1, <2>1, <3>2
      <4> QED BY <4>1 DEF ShellInv, ForeignIsLate
    <3> QED BY <3>1, <3>2
  <2>2. kind' = kind
    BY <1>1
  <2> QED BY ONLY <2>1, <2>2 DEF ForeignIsLate, OfBackground
<1> QED BY <1>2, <1>7, <1>8, <1>9, <1>10, <1>11, <1>12, <1>13, <1>14, <1>15 DEF ShellInv

(* A script at the end of what a bash is to read.                           *)
LEMMA ScriptAdded ==
    ASSUME NEW q \in Seq({"cmd", "mark"} \X Runs), NEW run \in Runs
    PROVE  /\ q \o <<Cmd(run), Mark(run)>> \in Seq({"cmd", "mark"} \X Runs)
           /\ q = <<>> => q \o <<Cmd(run), Mark(run)>> = <<Cmd(run), Mark(run)>>
           /\ \A i \in DOMAIN (q \o <<Cmd(run), Mark(run)>>) :
                 \/ i \in DOMAIN q /\ (q \o <<Cmd(run), Mark(run)>>)[i] = q[i]
                 \/ (q \o <<Cmd(run), Mark(run)>>)[i] = Cmd(run)
                 \/ (q \o <<Cmd(run), Mark(run)>>)[i] = Mark(run) /\ i = Len(q \o <<Cmd(run), Mark(run)>>)
           /\ (q \o <<Cmd(run), Mark(run)>>)[Len(q \o <<Cmd(run), Mark(run)>>)] = Mark(run)
<1> DEFINE script == <<Cmd(run), Mark(run)>>
           both   == q \o script
<1>1. script \in Seq({"cmd", "mark"} \X Runs) /\ Len(script) = 2 /\ script[1] = Cmd(run) /\ script[2] = Mark(run)
  <2>1. Cmd(run) \in {"cmd", "mark"} \X Runs /\ Mark(run) \in {"cmd", "mark"} \X Runs
    BY DEF Cmd, Mark
  <2> QED BY <2>1
<1> HIDE DEF script
<1>2. /\ both \in Seq({"cmd", "mark"} \X Runs) /\ Len(both) = Len(q) + 2 /\ Len(q) \in Nat
      /\ DOMAIN both = 1..Len(q) + 2 /\ DOMAIN q = 1..Len(q)
      /\ \A i \in 1..Len(q) + 2 : both[i] = IF i <= Len(q) THEN q[i] ELSE script[i - Len(q)]
  <2> DEFINE S == {"cmd", "mark"} \X Runs
  <2> HIDE DEF S
  <2>1. q \in Seq(S) /\ script \in Seq(S)
    BY <1>1 DEF S
  <2>2. /\ both \in Seq(S) /\ Len(both) = Len(q) + Len(script)
        /\ \A i \in 1..Len(q) + Len(script) : both[i] = IF i <= Len(q) THEN q[i] ELSE script[i - Len(q)]
    BY <2>1, ConcatProperties
  <2>3. Len(q) \in Nat /\ DOMAIN q = 1..Len(q)
    BY <2>1, LenProperties
  <2> HIDE DEF both
  <2>4. DOMAIN both = 1..Len(both)
    BY <2>2, LenProperties
  <2> QED BY <1>1, <2>2, <2>3, <2>4 DEF S
<1> HIDE DEF both
<1>3. \A i \in DOMAIN both : \/ i \in DOMAIN q /\ both[i] = q[i]
                             \/ both[i] = Cmd(run)
                             \/ both[i] = Mark(run) /\ i = Len(both)
  <2> SUFFICES ASSUME NEW i \in 1..Len(q) + 2
               PROVE  \/ i \in DOMAIN q /\ both[i] = q[i]
                      \/ both[i] = Cmd(run)
                      \/ both[i] = Mark(run) /\ i = Len(both)
    BY <1>2
  <2>1. CASE i <= Len(q)
    BY <1>2, <2>1
  <2>2. CASE i = Len(q) + 1
    <3>1. both[i] = script[1]
      BY <1>2, <2>2
    <3> QED BY <1>1, <3>1
  <2>3. CASE i = Len(q) + 2
    <3>1. both[i] = script[2]
      BY <1>2, <2>3
    <3> QED BY <1>1, <1>2, <2>3, <3>1
  <2> QED BY <1>2, <2>1, <2>2, <2>3
<1>4. both[Len(both)] = Mark(run)
  <2>1. both[Len(q) + 2] = script[2]
    BY <1>2
  <2> QED BY <1>1, <1>2, <2>1
<1>5. q = <<>> => both = script
  BY <1>1 DEF both
<1> QED BY <1>2, <1>3, <1>4, <1>5 DEF both, script

LEMMA WriteScriptKeeps ==
    ASSUME ShellInv, NEW c \in Callers, WriteScript(c)
    PROVE  ShellInv'
<1> DEFINE h == call[c].h
           run == call[c].run
           script == <<Cmd(run), Mark(run)>>
           queue == bash[h].stdin
           both == queue \o script
<1>1. /\ call[c].pc = "write" /\ h # 0 /\ bash[h].st = "live" /\ UNCHANGED <<envKey, sessions, kind>>
      /\ bash' = [bash EXCEPT ![h].stdin = both]
  BY DEF WriteScript, Lives, Cmd, Mark
<1>2. PICK pc \in {"readline", "late"} : call' = [call EXCEPT ![c].pc = pc]
  BY DEF WriteScript, Go
<1>3. /\ bash \in [Handles -> BashRec] /\ call \in [Callers -> CallRec]
  BY DEF ShellInv, ShellShape
<1>4. Holds(c) /\ ~HasSent(c) /\ WillSend(c) /\ h \in Handles
  BY <1>1 DEF Holds, HasSent, WillSend, ShellInv, SessionsAreSpawned
<1>5. run \in DOMAIN kind /\ run \in Runs
  BY <1>1, JobIsRun DEF ShellInv, CommandsAreKnown
<1>6. MarkFree(bash[h], run)
  BY <1>4, <1>5 DEF ShellInv, NotYetWritten
<1>7. queue \in Seq({"cmd", "mark"} \X Runs)
  BY <1>3, <1>4 DEF BashRec
<1>8. /\ both \in Seq({"cmd", "mark"} \X Runs) /\ both[Len(both)] = Mark(run)
      /\ queue = <<>> => both = script
      /\ \A i \in DOMAIN both : \/ i \in DOMAIN queue /\ both[i] = queue[i]
                                \/ both[i] = Cmd(run)
                                \/ both[i] = Mark(run) /\ i = Len(both)
  BY <1>5, <1>7, ScriptAdded
<1> HIDE DEF both
<1>10. bash' \in [Handles -> BashRec]
  BY <1>1, <1>3, <1>4, <1>8, FieldIsTyped
<1>11. /\ \A g \in Handles \ {h} : bash'[g] = bash[g]
       /\ bash'[h].st = bash[h].st /\ bash'[h].job = bash[h].job /\ bash'[h].late = bash[h].late
       /\ bash'[h].pipe = bash[h].pipe /\ bash'[h].stdin = both
  BY <1>1, <1>3, <1>4 DEF BashRec
<1>12. call' \in [Callers -> CallRec]
  BY <1>2, <1>3, CallFieldIsTyped
<1>13. /\ call'[c].pc = pc /\ call'[c].key = call[c].key /\ call'[c].run = run
       /\ call'[c].h = h /\ call'[c].foreign = call[c].foreign
       /\ \A d \in Callers \ {c} : call'[d] = call[d]
  <2>1. call'[c] = [call[c] EXCEPT !.pc = pc] /\ \A d \in Callers \ {c} : call'[d] = call[d]
    BY <1>2, <1>3
  <2>2. call[c] \in CallRec
    BY <1>3, SMTT(30)
  <2> QED BY <2>1, <2>2 DEF CallRec
<1>14. /\ Beside(c) = {} => crowded' = crowded
       /\ Beside(c) # {} => crowded' = crowded \cup Beside(c) \cup {c}
       /\ \A d \in Callers \ {c} : HasSent(d) /\ call[d].h = h => d \in Beside(c)
  BY DEF WriteScript, Beside
<1>15. HasSent(c)' /\ ~WillSend(c)'
  BY <1>13 DEF HasSent, WillSend
<1>16. Cmd(run)[1] # Mark(run)[1] /\ Cmd(run)[2] = run /\ Mark(run)[2] = run
       /\ \A r : Mark(r)[1] = "mark" /\ Mark(r)[2] = r
       /\ Cmd(run)[1] = "cmd"
  BY DEF Cmd, Mark
<1>17. \A i \in DOMAIN both : both[i][2] \in DOMAIN kind
  <2>1. \A i \in DOMAIN queue : queue[i][2] \in DOMAIN kind
    BY <1>4 DEF ShellInv, CommandsAreKnown
  <2> QED BY <1>5, <1>8, <1>16, <2>1
<1>18. \A r \in Runs \ {run} : MarkFree(bash[h], r) => MarkFree(bash'[h], r)
  <2> SUFFICES ASSUME NEW r \in Runs \ {run}, MarkFree(bash[h], r) PROVE MarkFree(bash'[h], r)
    OBVIOUS
  <2>1. Cmd(run) # Mark(r) /\ Mark(run) # Mark(r)
    BY <1>16
  <2>2. \A i \in DOMAIN both : both[i] # Mark(r)
    BY <1>8, <2>1 DEF MarkFree
  <2> QED BY <1>11, <2>2 DEF MarkFree
<1>19. LastServes(bash'[h], run, kind)
  <2>1. \A i \in DOMAIN both : both[i] = Mark(run) => i = Len(both)
    BY <1>6, <1>8, <1>16 DEF MarkFree
  <2>2. LastIs(both, run)
    BY <1>8, <2>1 DEF LastIs
  <2>3. \A i \in DOMAIN bash'[h].pipe : ~(bash'[h].pipe[i].mark /\ bash'[h].pipe[i].run = run)
    BY <1>6, <1>11 DEF MarkFree
  <2> QED BY <1>11, <2>2, <2>3 DEF LastServes
<1>20. Beside(c) = {} => Serves(bash'[h], run, kind)
  <2> SUFFICES ASSUME Beside(c) = {} PROVE Serves(bash'[h], run, kind)
    OBVIOUS
  <2>1. \A d \in Callers : HasSent(d) => call[d].h # h
    BY <1>4, <1>14
  <2>2. Clean(bash[h], kind)
    BY <1>1, <1>4, <2>1 DEF ShellInv, LiveIsTended
  <2>3. OnlyLate(bash'[h], kind) /\ bash'[h].job = 0 /\ bash'[h].stdin = script
    BY <1>8, <1>11, <2>2 DEF Clean, OnlyLate
  <2>4. \A i \in DOMAIN bash'[h].pipe : OfBackground(bash'[h].pipe[i], kind)
    BY <2>3 DEF OnlyLate
  <2>5. \A i \in DOMAIN bash'[h].pipe : ~bash'[h].pipe[i].mark
    BY <2>4 DEF OfBackground
  <2> QED BY <2>3, <2>4, <2>5 DEF Serves
<1>21. c \notin crowded' => c \notin crowded /\ Beside(c) = {}
  BY <1>14
<1>22. c \notin crowded' => \A t \in call'[c].foreign : OfBackground(t, kind)
  BY <1>13, <1>21 DEF ShellInv, ForeignIsLate
<1>23. \A d \in Callers \ {c} : d \in crowded \/ (HasSent(d) /\ call[d].h = h) => d \in crowded'
  BY <1>14
<1>24. c \notin crowded' => \A d \in Callers \ {c} : ~(HasSent(d) /\ call[d].h = h)
  BY <1>14, <1>21
<1>25. \E d \in Callers : HasSent(d)' /\ call'[d].h = h /\ LastServes(bash'[h], call'[d].run, kind)
  BY <1>13, <1>15, <1>19
<1>26. \A i \in DOMAIN bash'[h].stdin : bash'[h].stdin[i][2] \in DOMAIN kind
  BY <1>11, <1>17
<1> HIDE DEF h, run
<1>27. h = call[c].h /\ run = call[c].run
  BY SMTT(30) DEF h, run
<1>28. HolderStep(c, h)
  BY <1>1, <1>4, <1>10, <1>11, <1>12, <1>13, <1>15, <1>18, <1>20, <1>21, <1>22, <1>23, <1>24, <1>25, <1>26, <1>27
     DEF HolderStep
<1> QED BY <1>4, <1>28, HolderKeeps

(* A bash one line of whose pipe was taken.                                 *)
Tapped(h) ==
    /\ bash[h].pipe # <<>>
    /\ bash'[h].st = bash[h].st /\ bash'[h].job = bash[h].job /\ bash'[h].stdin = bash[h].stdin
    /\ bash'[h].pipe = Tail(bash[h].pipe)

LEMMA TappedKeeps ==
    ASSUME ShellShape, NEW h \in Handles, Tapped(h)
    PROVE  /\ Clean(bash[h], kind) => Clean(bash'[h], kind)
           /\ \A r : MarkFree(bash[h], r) => MarkFree(bash'[h], r)
           /\ \A r : LastServes(bash[h], r, kind) => LastServes(bash'[h], r, kind)
           /\ \A r : Serves(bash[h], r, kind) => Serves(bash'[h], r, kind)
           /\ \A r : LastServes(bash[h], r, kind) /\ Head(bash[h].pipe).mark /\ Head(bash[h].pipe).run = r
                        => Clean(bash'[h], kind)
<1> DEFINE rest == Tail(bash[h].pipe)
<1>1. bash[h].pipe \in Seq(Token)
  BY DEF ShellShape, BashRec
<1>2. /\ Head(bash[h].pipe) = bash[h].pipe[1] /\ 1 \in DOMAIN bash[h].pipe
      /\ \A i \in DOMAIN rest : i + 1 \in DOMAIN bash[h].pipe /\ rest[i] = bash[h].pipe[i + 1] /\ i \in Nat \ {0}
  BY <1>1, TailOfPipe DEF Tapped
<1> HIDE DEF rest
<1>3. /\ bash'[h].st = bash[h].st /\ bash'[h].job = bash[h].job /\ bash'[h].stdin = bash[h].stdin
      /\ bash'[h].pipe = rest
  BY DEF Tapped, rest
<1>4. ASSUME NEW i \in DOMAIN rest,
             \A j \in DOMAIN bash[h].pipe : i + 1 < j => OfBackground(bash[h].pipe[j], kind)
      PROVE  \A j \in DOMAIN rest : i < j => OfBackground(rest[j], kind)
  <2>1. \A j \in DOMAIN rest : i < j => i + 1 < j + 1 /\ j + 1 \in DOMAIN bash[h].pipe
    BY <1>2, <1>4, SMTT(30)
  <2> QED BY <1>2, <1>4, <2>1
<1>5. Clean(bash[h], kind) => Clean(bash'[h], kind)
  BY <1>2, <1>3 DEF Clean, OnlyLate
<1>6. ASSUME NEW r, MarkFree(bash[h], r) PROVE MarkFree(bash'[h], r)
  BY <1>2, <1>3, <1>6 DEF MarkFree
<1>7. ASSUME NEW r, LastServes(bash[h], r, kind) PROVE LastServes(bash'[h], r, kind)
  <2>1. ASSUME NEW i \in DOMAIN rest, rest[i].mark, rest[i].run = r
        PROVE  /\ bash[h].stdin = <<>> /\ bash[h].job = 0
               /\ \A j \in DOMAIN rest : i < j => OfBackground(rest[j], kind)
    <3>1. /\ bash[h].stdin = <<>> /\ bash[h].job = 0
          /\ \A j \in DOMAIN bash[h].pipe : i + 1 < j => OfBackground(bash[h].pipe[j], kind)
      BY <1>2, <1>7, <2>1 DEF LastServes
    <3> QED BY <1>4, <3>1
  <2> QED BY <1>3, <1>7, <2>1 DEF LastServes
<1>8. ASSUME NEW r, Serves(bash[h], r, kind) PROVE Serves(bash'[h], r, kind)
  <2>1. \A i \in DOMAIN rest : rest[i].run = r \/ OfBackground(rest[i], kind)
    BY <1>2, <1>8 DEF Serves
  <2>2. ASSUME bash[h].st = "live", NEW i \in DOMAIN rest, rest[i].mark
        PROVE  /\ bash[h].stdin = <<>> /\ bash[h].job = 0
               /\ \A j \in DOMAIN rest : i < j => OfBackground(rest[j], kind)
    <3>1. /\ bash[h].stdin = <<>> /\ bash[h].job = 0
          /\ \A j \in DOMAIN bash[h].pipe : i + 1 < j => OfBackground(bash[h].pipe[j], kind)
      BY <1>2, <1>8, <2>2 DEF Serves
    <3> QED BY <1>4, <3>1
  <2>3. /\ bash'[h].job \in {0, r}
        /\ bash'[h].st = "live" =>
             /\ bash'[h].stdin \in {<<>>, <<Mark(r)>>, <<Cmd(r), Mark(r)>>}
             /\ bash'[h].job # 0 => bash'[h].stdin \in {<<>>, <<Mark(r)>>}
    BY <1>3, <1>8 DEF Serves
  <2> QED BY <1>3, <2>1, <2>2, <2>3 DEF Serves
<1>9. ASSUME NEW r, LastServes(bash[h], r, kind), Head(bash[h].pipe).mark, Head(bash[h].pipe).run = r
      PROVE  Clean(bash'[h], kind)
  <2>1. /\ bash[h].stdin = <<>> /\ bash[h].job = 0
        /\ \A j \in DOMAIN bash[h].pipe : 1 < j => OfBackground(bash[h].pipe[j], kind)
    BY <1>2, <1>9 DEF LastServes
  <2>2. \A i \in DOMAIN rest : 1 < i + 1
    BY <1>2
  <2> QED BY <1>2, <1>3, <2>1, <2>2 DEF Clean, OnlyLate
<1> QED BY <1>5, <1>6, <1>7, <1>8, <1>9

LEMMA ReadLineKeeps ==
    ASSUME ShellInv, NEW c \in Callers, ReadLine(c)
    PROVE  ShellInv'
<1> DEFINE h == call[c].h
           run == call[c].run
           line == Head(bash[h].pipe)
           rest == Tail(bash[h].pipe)
           seen == call[c].foreign \cup ({line} \ OwnLines(run))
           pc == IF call[c].over THEN "late" ELSE "readline"
<1>1. /\ call[c].pc = "readline" /\ bash[h].pipe # <<>> /\ UNCHANGED <<envKey, sessions, kind>>
      /\ bash' = [bash EXCEPT ![h].pipe = rest]
      /\ EndsRun(c, line) => call' = [call EXCEPT ![c] = NoShellCall] /\ crowded' = crowded \ {c}
      /\ ~EndsRun(c, line) => call' = [call EXCEPT ![c].pc = pc, ![c].foreign = seen] /\ crowded' = crowded
  BY DEF ReadLine, ReturnCall
<1>2. /\ bash \in [Handles -> BashRec] /\ call \in [Callers -> CallRec] /\ ShellShape
  BY DEF ShellInv, ShellShape
<1>3. Holds(c) /\ HasSent(c) /\ h \in Handles /\ run \in Runs
  BY <1>1, RunsOfCalls DEF Holds, HasSent, ShellInv, SessionsAreSpawned
<1>4. c \notin crowded => Serves(bash[h], run, kind)
  BY <1>3 DEF ShellInv, ReadersAreServed
<1>5. bash[h].pipe \in Seq(Token)
  BY <1>2, <1>3 DEF BashRec
<1>6. /\ line \in Token /\ line = bash[h].pipe[1] /\ 1 \in DOMAIN bash[h].pipe /\ rest \in Seq(Token)
  BY <1>1, <1>5, TailOfPipe
<1> HIDE DEF rest
<1>7. bash' \in [Handles -> BashRec]
  BY <1>1, <1>2, <1>3, <1>6, FieldIsTyped
<1>8. /\ \A g \in Handles \ {h} : bash'[g] = bash[g]
      /\ bash'[h].st = bash[h].st /\ bash'[h].job = bash[h].job /\ bash'[h].late = bash[h].late
      /\ bash'[h].pipe = rest /\ bash'[h].stdin = bash[h].stdin
  BY <1>1, <1>2, <1>3 DEF BashRec
<1>9. Tapped(h)
  BY <1>1, <1>8 DEF Tapped, rest
<1>10. /\ Clean(bash[h], kind) => Clean(bash'[h], kind)
       /\ \A r : MarkFree(bash[h], r) => MarkFree(bash'[h], r)
       /\ \A r : LastServes(bash[h], r, kind) => LastServes(bash'[h], r, kind)
       /\ c \notin crowded => Serves(bash'[h], run, kind)
       /\ LastServes(bash[h], run, kind) /\ line.mark /\ line.run = run => Clean(bash'[h], kind)
  <2> HIDE DEF h, run
  <2>1. h \in Handles /\ line = Head(bash[h].pipe)
    BY <1>3
  <2> HIDE DEF line
  <2> QED BY <1>2, <1>4, <1>9, <2>1, TappedKeeps
<1> HIDE DEF line
<1>11. \A i \in DOMAIN bash'[h].stdin : bash'[h].stdin[i][2] \in DOMAIN kind
  BY <1>3, <1>8 DEF ShellInv, CommandsAreKnown
<1>12. \A d \in Callers \ {c} : HasSent(d) /\ call[d].h = h => d \in crowded /\ c \in crowded
  BY <1>3 DEF ShellInv, TogetherIsCrowded
<1>13. ASSUME bash[h].st = "live", ~Clean(bash'[h], kind)
       PROVE  \E d \in Callers : /\ HasSent(d) /\ call[d].h = h /\ LastServes(bash'[h], call[d].run, kind)
                                 /\ d = c => ~EndsRun(c, line)
  <2>1. PICK d \in Callers : HasSent(d) /\ call[d].h = h /\ LastServes(bash[h], call[d].run, kind)
    BY <1>3, <1>10, <1>13 DEF ShellInv, LiveIsTended
  <2>2. d = c => ~EndsRun(c, line)
    BY <1>10, <1>13, <2>1 DEF EndsRun
  <2> QED BY <1>10, <2>1, <2>2
<1>14. CASE EndsRun(c, line)
  <2>1. call' = [call EXCEPT ![c] = NoShellCall] /\ call' \in [Callers -> CallRec] /\ crowded' = crowded \ {c}
    <3>1. call' = [call EXCEPT ![c] = NoShellCall] /\ crowded' = crowded \ {c}
      BY <1>1, <1>14
    <3>2. [call EXCEPT ![c] = NoShellCall] \in [Callers -> CallRec]
      BY <1>2, CallIsTyped
    <3> QED BY <3>1, <3>2
  <2>2. call'[c] = NoShellCall /\ \A d \in Callers \ {c} : call'[d] = call[d]
    BY <1>2, <2>1
  <2>3. call'[c].pc = "idle" /\ call'[c].foreign = {}
    BY <2>2, CallIsTyped DEF ShellInv
  <2>4. ~HasSent(c)' /\ ~WillSend(c)'
    BY <2>3 DEF HasSent, WillSend
  <2>5. \A d \in Callers \ {c} : HasSent(d)' <=> HasSent(d)
    BY <2>2 DEF HasSent
  <2>6. bash'[h].st = "live" =>
          \/ Clean(bash'[h], kind)
          \/ \E d \in Callers : HasSent(d)' /\ call'[d].h = h /\ LastServes(bash'[h], call'[d].run, kind)
    BY <1>8, <1>13, <1>14, <2>2, <2>5
  <2> HIDE DEF h, run
  <2>7. h = call[c].h
    BY DEF h
  <2>8. HolderStep(c, h)
    BY <1>1, <1>3, <1>7, <1>8, <1>10, <1>11, <1>12, <2>1, <2>2, <2>3, <2>4, <2>6, <2>7 DEF HolderStep
  <2> QED BY <1>3, <2>8, HolderKeeps
<1>15. CASE ~EndsRun(c, line)
  <2>1. pc \in {"late", "readline"} /\ seen \in SUBSET Token
    BY <1>2, <1>6 DEF CallRec
  <2>2. call' = [call EXCEPT ![c].pc = pc, ![c].foreign = seen] /\ crowded' = crowded
    BY <1>1, <1>15
  <2>3. c \notin crowded => \A t \in seen : OfBackground(t, kind)
    <3> SUFFICES ASSUME c \notin crowded PROVE \A t \in seen : OfBackground(t, kind)
      OBVIOUS
    <3>1. \A t \in call[c].foreign : OfBackground(t, kind)
      BY SMTT(30) DEF ShellInv, ForeignIsLate
    <3>2. line.run # run => OfBackground(line, kind)
      BY <1>4, <1>6 DEF Serves
    <3> QED BY <1>6, <3>1, <3>2 DEF OwnLines
  <2> HIDE DEF pc, seen
  <2>4. call' \in [Callers -> CallRec]
    <3> DEFINE head == [call EXCEPT ![c].pc = pc]
    <3>1. head \in [Callers -> CallRec]
      BY <1>2, <2>1, CallFieldIsTyped
    <3>2. call' = [head EXCEPT ![c].foreign = seen]
      BY <2>2
    <3> HIDE DEF head
    <3> QED BY <2>1, <3>1, <3>2, CallFieldIsTyped
  <2>5. /\ call'[c].pc = pc /\ call'[c].key = call[c].key /\ call'[c].run = run
        /\ call'[c].h = h /\ call'[c].foreign = seen
        /\ \A d \in Callers \ {c} : call'[d] = call[d]
    <3>1. /\ call'[c] = [call[c] EXCEPT !.pc = pc, !.foreign = seen]
          /\ \A d \in Callers \ {c} : call'[d] = call[d]
      BY <1>2, <2>2
    <3>2. call[c] \in CallRec
      BY <1>2
    <3> QED BY <3>1, <3>2 DEF CallRec
  <2>6. HasSent(c)' /\ ~WillSend(c)'
    BY <2>1, <2>5 DEF HasSent, WillSend
  <2>7. \A d \in Callers : HasSent(d) => HasSent(d)' /\ call'[d].h = call[d].h /\ call'[d].run = call[d].run
    BY <2>5, <2>6 DEF HasSent
  <2>8. bash'[h].st = "live" =>
          \/ Clean(bash'[h], kind)
          \/ \E d \in Callers : HasSent(d)' /\ call'[d].h = h /\ LastServes(bash'[h], call'[d].run, kind)
    <3> SUFFICES ASSUME bash'[h].st = "live", ~Clean(bash'[h], kind)
                 PROVE  \E d \in Callers : HasSent(d)' /\ call'[d].h = h /\ LastServes(bash'[h], call'[d].run, kind)
      OBVIOUS
    <3>1. PICK d \in Callers : HasSent(d) /\ call[d].h = h /\ LastServes(bash'[h], call[d].run, kind)
      BY <1>8, <1>13
    <3> QED BY <2>7, <3>1
  <2> HIDE DEF h, run
  <2>9. h = call[c].h /\ run = call[c].run
    BY DEF h, run
  <2>10. HolderStep(c, h)
    BY <1>1, <1>3, <1>7, <1>8, <1>10, <1>11, <1>12, <2>2, <2>3, <2>4, <2>5, <2>6, <2>8, <2>9 DEF HolderStep
  <2> QED BY <1>3, <2>10, HolderKeeps
<1> QED BY <1>14, <1>15

LEMMA ShellInvBegins == ShellInit => ShellInv
<1> SUFFICES ASSUME ShellInit PROVE ShellInv
  OBVIOUS
<1>1. /\ envKey \in Keys /\ sessions = [k \in Keys |-> 0]
      /\ bash = [h \in Handles |-> NoProc] /\ kind = <<>> /\ call = [c \in Callers |-> NoShellCall]
  BY DEF ShellInit
<1>2. NoProc \in BashRec /\ NoProc.st = "none" /\ NoProc.job = 0 /\ NoProc.late = 0
  BY ShellAssumption DEF NoProc, BashRec
<1>3. NoShellCall \in CallRec /\ NoShellCall.pc = "idle" /\ NoShellCall.foreign = {}
  BY ShellAssumption DEF NoShellCall, CallRec
<1>4. ShellShape
  BY <1>1, <1>2, <1>3, ShellAssumption DEF ShellShape
<1>5. \A h \in Handles : bash[h] = NoProc
  BY <1>1
<1>6. \A c \in Callers : call[c].pc = "idle" /\ call[c].foreign = {} /\ ~Holds(c) /\ ~HasSent(c)
  BY <1>1, <1>3 DEF Holds, HasSent
<1>7. \A k \in Keys : sessions[k] = 0
  BY <1>1
<1>8. SessionsAreSpawned /\ TogetherIsCrowded /\ CommandsAreKnown /\ RunsDiffer /\ NewIsEmpty
  <2>1. NoProc.stdin = <<>> /\ NoProc.pipe = <<>>
    BY DEF NoProc
  <2> QED BY <1>2, <1>5, <1>6, <1>7, <2>1
          DEF SessionsAreSpawned, TogetherIsCrowded, CommandsAreKnown, RunsDiffer, NewIsEmpty
<1>9. \A h \in Handles : bash[h].st # "live" /\ \A r : MarkFree(bash[h], r)
  <2>1. NoProc.stdin = <<>> /\ NoProc.pipe = <<>>
    BY DEF NoProc
  <2> QED BY <1>2, <1>5, <2>1 DEF MarkFree
<1>10. NotYetWritten /\ LiveIsTended /\ ReadersAreServed /\ ForeignIsLate
  BY <1>6, <1>9, SMTT(30) DEF NotYetWritten, LiveIsTended, ReadersAreServed, ForeignIsLate
<1> QED BY <1>4, <1>8, <1>10 DEF ShellInv

LEMMA ShellRests ==
    ASSUME ShellInv, UNCHANGED shellVars
    PROVE  ShellInv'
<1>1. UNCHANGED <<envKey, sessions, byUse, bash, kind, call, crowded>>
  BY DEF shellVars
<1>2. ShellShape' /\ SessionsAreSpawned' /\ TogetherIsCrowded' /\ CommandsAreKnown' /\ RunsDiffer' /\ NewIsEmpty'
  BY <1>1 DEF ShellInv, ShellShape, SessionsAreSpawned, TogetherIsCrowded, CommandsAreKnown, RunsDiffer,
              NewIsEmpty, Spawned, Holds, HasSent
<1>3. NotYetWritten'
  BY <1>1 DEF ShellInv, NotYetWritten, WillSend, MarkFree
<1>4. LiveIsTended'
  BY <1>1 DEF ShellInv, LiveIsTended, HasSent, Clean, OnlyLate, LastServes, LastIs, OfBackground
<1>5. ReadersAreServed' /\ ForeignIsLate'
  BY <1>1 DEF ShellInv, ReadersAreServed, ForeignIsLate, HasSent, Serves, OfBackground
<1> QED BY <1>2, <1>3, <1>4, <1>5 DEF ShellInv

(* For any callers, sessions and number of commands, and whatever times out, *)
(* is cancelled, evicted or reset: a call to whose bash nobody else gave a   *)
(* command while it was in it has read nothing but its own command's output  *)
(* and that of processes earlier ones left in the background, also when      *)
(* calls that were in that bash at once came before it (shell_session.py,    *)
(* run and dispose).                                                         *)
THEOREM OnlyOwnOutput == ShellSpec => []OutputIsOwn
<1>1. ShellInv /\ [ShellNext]_shellVars => ShellInv'
  <2> SUFFICES ASSUME ShellInv, [ShellNext]_shellVars PROVE ShellInv'
    OBVIOUS
  <2>1. ASSUME NEW c \in Callers, BeginTurn(c) \/ CallShell(c) \/ ResetShell(c) \/ Progress(c) \/ Expire(c)
        PROVE  ShellInv'
    BY <2>1, BeginTurnKeeps, CallShellKeeps, ResetShellKeeps, LookupKeeps, StartBashKeeps, WriteScriptKeeps,
       RefuseCallKeeps, GiveUpKeeps, ReadLineKeeps, ReadEndKeeps, ExpireKeeps DEF Progress
  <2> QED BY <2>1, BashKeepsInv, ShellRests DEF ShellNext
<1>2. ShellInv => OutputIsOwn
  BY DEF ShellInv, ForeignIsLate, OfBackground, OutputIsOwn
<1> QED BY <1>1, <1>2, ShellInvBegins, PTL DEF ShellSpec

-----------------------------------------------------------------------------
(***************************************************************************)
(* The checks after a change, for any files, limits and outcomes.          *)
(***************************************************************************)
AllFiles == Python \cup OtherFiles

VerifyInv ==
    /\ first \in Seq(AllFiles) /\ second \in Seq(AllFiles)
    /\ verdict = "passed" => stage = "idle"
    /\ PassIsEarned

LEMMA RangeIsFinite ==
    ASSUME NEW S, NEW s \in Seq(S)
    PROVE  IsFiniteSet(Range(s)) /\ Range(s) \subseteq S
<1> DEFINE values == {s[i] : i \in 1..Len(s)}
<1>1. Range(s) = values /\ values \subseteq S
  BY DEF Range
<1>2. IsFiniteSet(1..Len(s))
  BY FS_Interval
<1>3. [i \in 1..Len(s) |-> s[i]] \in Surjection(1..Len(s), values)
  BY DEF Surjection
<1>4. IsFiniteSet(values)
  BY <1>2, <1>3, FS_Surjection
<1> QED BY <1>1, <1>4

LEMMA WroteIsFinite ==
    ASSUME VerifyInv, NEW S
    PROVE  IsFiniteSet(Wrote \cap S) /\ Cardinality(Wrote \cap S) \in Nat
<1>1. IsFiniteSet(Range(first) \cup Range(second))
  BY RangeIsFinite, FS_Union DEF VerifyInv
<1>2. IsFiniteSet(Wrote \cap S)
  BY <1>1, FS_Subset DEF Wrote
<1> QED BY <1>2, FS_CardinalityType

(* No file comes in before itself, so that where there are no more than n   *)
(* all are among the first n.                                               *)
LEMMA AllAreFirst ==
    ASSUME VerifyInv, NEW S, NEW n \in Nat, Cardinality(Wrote \cap S) <= n
    PROVE  FirstOf(S, n) = Wrote \cap S
<1>1. Wrote \cap S = S \cap Changed
  BY DEF Wrote, Changed
<1>2. ASSUME NEW f \in S \cap Changed
      PROVE  Cardinality({g \in S \cap Changed : Ahead(g, f)}) < n
  <2> DEFINE ahead == {g \in S \cap Changed : Ahead(g, f)}
  <2>1. first \o second \in Seq(AllFiles)
    BY DEF VerifyInv
  <2>2. ~Ahead(f, f)
    <3> DEFINE both == first \o second
    <3>1. \A i \in DOMAIN both : i \in 1..i
      BY <2>1
    <3> QED BY <3>1 DEF Ahead
  <2>3. ahead \subseteq Wrote \cap S /\ f \in Wrote \cap S /\ f \notin ahead
    BY <1>1, <2>2
  <2>4. IsFiniteSet(Wrote \cap S) /\ Cardinality(Wrote \cap S) \in Nat
    BY WroteIsFinite
  <2> HIDE DEF ahead
  <2>5. ahead # Wrote \cap S
    BY <2>3
  <2>6. Cardinality(ahead) \in Nat /\ Cardinality(ahead) < Cardinality(Wrote \cap S)
    BY <2>3, <2>4, <2>5, FS_Subset, FS_CardinalityType
  <2> QED BY <2>4, <2>6 DEF ahead
<1> QED BY <1>1, <1>2 DEF FirstOf

(* What passes when all commands are good.                                  *)
LEMMA GoodChecksHold ==
    ASSUME VerifyInv, Commands # {}
    PROVE  /\ Wrote \cap Python # {}
           /\ Within(TestFiles, MaxTests) => {"test"} \X (Wrote \cap TestFiles) \subseteq UNION Commands
           /\ flake8 /\ Within(Python, MaxLint) => {"lint"} \X (Wrote \cap Python) \subseteq UNION Commands
<1>1. /\ task = "small"
      /\ Commands = {{<<"test", f>>} : f \in FirstOf(TestFiles, MaxTests)}
                    \cup (IF flake8 /\ FirstOf(Python, MaxLint) # {}
                          THEN {{"lint"} \X FirstOf(Python, MaxLint)} ELSE {})
  BY DEF Commands
<1>2. MaxTests \in Nat /\ MaxLint \in Nat /\ TestFiles \subseteq Python
  BY VerifyAssumption
<1>3. FirstOf(TestFiles, MaxTests) \subseteq Wrote \cap TestFiles /\ FirstOf(Python, MaxLint) \subseteq Wrote \cap Python
  BY DEF FirstOf, Changed, Wrote
<1>4. Wrote \cap Python # {}
  BY <1>1, <1>2, <1>3
<1>5. ASSUME Within(TestFiles, MaxTests)
      PROVE  {"test"} \X (Wrote \cap TestFiles) \subseteq UNION Commands
  <2>1. FirstOf(TestFiles, MaxTests) = Wrote \cap TestFiles
    BY <1>2, <1>5, AllAreFirst DEF Within
  <2>2. \A f \in FirstOf(TestFiles, MaxTests) : {<<"test", f>>} \in Commands
    BY <1>1
  <2>3. ASSUME NEW c \in {"test"} \X (Wrote \cap TestFiles)
        PROVE  c \in UNION Commands
    <3>1. PICK f \in Wrote \cap TestFiles : c = <<"test", f>>
      OBVIOUS
    <3>2. {<<"test", f>>} \in Commands
      BY <2>1, <2>2
    <3>3. c \in {<<"test", f>>}
      BY <3>1
    <3> QED BY <3>2, <3>3
  <2> QED BY <2>3
<1>6. ASSUME flake8, Within(Python, MaxLint)
      PROVE  {"lint"} \X (Wrote \cap Python) \subseteq UNION Commands
  <2>1. FirstOf(Python, MaxLint) = Wrote \cap Python
    BY <1>2, <1>6, AllAreFirst DEF Within
  <2>2. {"lint"} \X FirstOf(Python, MaxLint) \in Commands
    BY <1>1, <1>4, <1>6, <2>1
  <2> QED BY <2>1, <2>2
<1> QED BY <1>4, <1>5, <1>6

(* A prompt that ends as checked and passed has each Python file it          *)
(* reported changed checked since its last change, for any files, as long   *)
(* as they are not more than the gate takes, and for any limits of it       *)
(* (work_orchestrator.py, RuntimeVerifier.run).                             *)
THEOREM PassedIsChecked == VerifySpec => []PassIsEarned
<1>1. VerifyInit => VerifyInv
  BY DEF VerifyInit, VerifyInv, PassIsEarned
<1>2. VerifyInv /\ [VerifyNext]_verifyVars => VerifyInv'
  <2> SUFFICES ASSUME VerifyInv, [VerifyNext]_verifyVars PROVE VerifyInv'
    OBVIOUS
  <2>1. ASSUME NEW k \in TaskKinds, TakeTask(k) PROVE VerifyInv'
    BY <2>1 DEF VerifyInv, PassIsEarned, TakeTask
  <2>2. ASSUME NEW f \in Python \cup OtherFiles, WriteSource(f) PROVE VerifyInv'
    <3>1. verdict # "passed" /\ verdict' = verdict /\ stage' = stage
      BY <2>2 DEF VerifyInv, WriteSource
    <3>2. \A s \in Seq(AllFiles) : Noted(s, f) \in Seq(AllFiles)
      BY DEF Noted, AllFiles
    <3>3. first' \in Seq(AllFiles) /\ second' \in Seq(AllFiles)
      BY <2>2, <3>2 DEF VerifyInv, WriteSource
    <3> QED BY <3>1, <3>3 DEF VerifyInv, PassIsEarned
  <2>3. CASE EndExecute \/ EndRepair \/ SkipChecks
    <3>1. verdict' # "passed" /\ UNCHANGED <<first, second>>
      BY <2>3 DEF VerifyInv, EndExecute, EndRepair, SkipChecks, EndTask
    <3> QED BY <3>1 DEF VerifyInv, PassIsEarned
  <2>4. CASE RunChecks
    <3>1. /\ stage = "verify" /\ Commands # {} /\ UNCHANGED <<task, first, second, flake8>>
          /\ \/ /\ UNION Commands \subseteq holds' /\ stage' = "idle"
             \/ verdict' # "passed"
      BY <2>4 DEF RunChecks, EndTask, VerifyInv
    <3>2. CASE UNION Commands \subseteq holds' /\ stage' = "idle"
      <4>1. Wrote' = Wrote /\ (Within(TestFiles, MaxTests)' <=> Within(TestFiles, MaxTests))
            /\ (Within(Python, MaxLint)' <=> Within(Python, MaxLint))
        BY <3>1 DEF Wrote, Within
      <4>2. PassIsEarned'
        BY <3>1, <3>2, <4>1, GoodChecksHold DEF PassIsEarned
      <4> QED BY <3>1, <3>2, <4>2 DEF VerifyInv
    <3>3. CASE verdict' # "passed"
      BY <3>1, <3>3 DEF VerifyInv, PassIsEarned
    <3> QED BY <3>1, <3>2, <3>3
  <2>5. CASE UNCHANGED verifyVars
    BY <2>5 DEF VerifyInv, PassIsEarned, verifyVars, Wrote, Within
  <2> QED BY <2>1, <2>2, <2>3, <2>4, <2>5 DEF VerifyNext
<1>3. VerifyInv => PassIsEarned
  BY DEF VerifyInv
<1> QED BY <1>1, <1>2, <1>3, PTL DEF VerifySpec

=============================================================================
