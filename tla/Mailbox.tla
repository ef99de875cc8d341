------------------------------ MODULE Mailbox -------------------------------
(***************************************************************************)
(* An agent's inbox: a JSON file that the chats of a team, each a process, *)
(* read and replace under a lock (teams/mailbox.py). A process may die     *)
(* anywhere; the system frees its lock (flock, external).                  *)
(***************************************************************************)
EXTENDS Naturals, Sequences, FiniteSets

CONSTANTS
    MailClients,   \* processes
    Nobody,
    MaxMail,       \* messages sent
    MaxMarks       \* how often the inbox is marked as read

ASSUME MailAssumption == Nobody \notin MailClients /\ {MaxMail, MaxMarks} \subseteq Nat

VARIABLES
    inbox,     \* the file: its messages, in order, read or not
    tmpFile,   \* the file next to it, half-written or whole
    holder,    \* who has the lock
    doing,     \* what each client is doing
    mailStep,  \* how far it is
    copy,      \* the messages it has in memory
    sent,      \* history: messages whose sender was told that they are sent
    shown,     \* history: messages somebody was told are read
    mail, marks

mailVars == <<inbox, tmpFile, holder, doing, mailStep, copy, sent, shown, mail, marks>>

MailInit ==
    /\ inbox = <<>> /\ tmpFile = <<>>
    /\ holder = Nobody
    /\ doing = [c \in MailClients |-> [op |-> "none"]]
    /\ mailStep = [c \in MailClients |-> "idle"]
    /\ copy = [c \in MailClients |-> <<>>]
    /\ sent = {} /\ shown = {} /\ mail = 0 /\ marks = 0

-----------------------------------------------------------------------------

(* send: append_for_recipient                                              *)
SendMail(c) ==
    /\ mailStep[c] = "idle" /\ mail < MaxMail
    /\ mail' = mail + 1
    /\ doing' = [doing EXCEPT ![c] = [op |-> "send", id |-> mail + 1]]
    /\ mailStep' = [mailStep EXCEPT ![c] = "lock"]
    /\ UNCHANGED <<inbox, tmpFile, holder, copy, sent, shown, marks>>

(* mark_all_read                                                           *)
MarkRead(c) ==
    /\ mailStep[c] = "idle" /\ marks < MaxMarks
    /\ marks' = marks + 1
    /\ doing' = [doing EXCEPT ![c] = [op |-> "mark"]]
    /\ mailStep' = [mailStep EXCEPT ![c] = "lock"]
    /\ UNCHANGED <<inbox, tmpFile, holder, copy, sent, shown, mail>>

(* Mutant of Lock: two may hold it.                                        *)
Lock_Shared(c) ==
    /\ mailStep[c] = "lock"
    /\ holder' = c
    /\ mailStep' = [mailStep EXCEPT ![c] = "load"]
    /\ UNCHANGED <<inbox, tmpFile, doing, copy, sent, shown, mail, marks>>

(* _InboxFileLock.__enter__ *)
Lock(c) ==
    /\ mailStep[c] = "lock" /\ holder = Nobody
    /\ holder' = c
    /\ mailStep' = [mailStep EXCEPT ![c] = "load"]
    /\ UNCHANGED <<inbox, tmpFile, doing, copy, sent, shown, mail, marks>>

(* Marks those that are not, whether or not they were shown to anybody.    *)
Marked(ms) == [i \in DOMAIN ms |-> [id |-> ms[i].id, read |-> TRUE]]

(* _InboxJsonCodec.load, and the change; with nothing to mark the file is  *)
(* left alone.                                                             *)
Load(c) ==
    /\ mailStep[c] = "load"
    /\ LET new == IF doing[c].op = "send" THEN Append(inbox, [id |-> doing[c].id, read |-> FALSE])
                  ELSE Marked(inbox)
       IN  /\ copy' = [copy EXCEPT ![c] = new]
           /\ mailStep' = [mailStep EXCEPT ![c] = IF new = inbox THEN "unlock" ELSE "write"]
    /\ UNCHANGED <<inbox, tmpFile, holder, doing, sent, shown, mail, marks>>

(* _InboxJsonCodec.dump: the file next to it first                         *)
WriteTmp(c) ==
    /\ mailStep[c] = "write"
    /\ tmpFile' = copy[c]
    /\ mailStep' = [mailStep EXCEPT ![c] = "replace"]
    /\ UNCHANGED <<inbox, holder, doing, copy, sent, shown, mail, marks>>

Replace(c) ==
    /\ mailStep[c] = "replace"
    /\ inbox' = tmpFile
    /\ mailStep' = [mailStep EXCEPT ![c] = "unlock"]
    /\ UNCHANGED <<tmpFile, holder, doing, copy, sent, shown, mail, marks>>

(* _InboxFileLock.__exit__, and the caller is told                         *)
Unlock(c) ==
    /\ mailStep[c] = "unlock"
    /\ holder' = Nobody
    /\ mailStep' = [mailStep EXCEPT ![c] = "idle"]
    /\ copy' = [copy EXCEPT ![c] = <<>>]
    /\ IF doing[c].op = "send"
       THEN sent' = sent \cup {doing[c].id} /\ UNCHANGED shown
       ELSE shown' = shown \cup {copy[c][i].id : i \in DOMAIN copy[c]} /\ UNCHANGED sent
    /\ doing' = [doing EXCEPT ![c] = [op |-> "none"]]
    /\ UNCHANGED <<inbox, tmpFile, mail, marks>>

(* A client dies; what it was writing stays half-written, and its lock is  *)
(* freed.                                                                  *)
ClientDies(c) ==
    /\ mailStep[c] \notin {"idle", "dead"}
    /\ mailStep' = [mailStep EXCEPT ![c] = "dead"]
    /\ \/ UNCHANGED tmpFile
       \/ mailStep[c] = "write" /\ tmpFile' = <<>>
    /\ holder' = IF holder = c THEN Nobody ELSE holder
    /\ doing' = [doing EXCEPT ![c] = [op |-> "none"]]
    /\ copy' = [copy EXCEPT ![c] = <<>>]
    /\ UNCHANGED <<inbox, sent, shown, mail, marks>>

MailNext ==
    \E c \in MailClients :
        SendMail(c) \/ MarkRead(c) \/ Lock(c) \/ Load(c) \/ WriteTmp(c) \/ Replace(c) \/ Unlock(c)
        \/ ClientDies(c)

MailSpec == MailInit /\ [][MailNext]_mailVars

-----------------------------------------------------------------------------

(* Wherever processes die, a message whose sender was told that it is sent *)
(* is in the inbox, once, and one reported as read stays so.               *)
MailIsKept ==
    /\ \A id \in sent : Cardinality({i \in DOMAIN inbox : inbox[i].id = id}) = 1
    /\ \A i \in DOMAIN inbox : inbox[i].id \in shown => inbox[i].read

=============================================================================
