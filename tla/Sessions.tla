------------------------------- MODULE Sessions -------------------------------
(***************************************************************************)
(* The store of chat sessions (sessions.py, session_db.py).  A session has  *)
(* its messages and its metadata: two files of the sessions directory, or   *)
(* two columns of a row in Cassandra.  Every write replaces the whole file  *)
(* or column.  Requests of the API run in threads, beside the CLI's own     *)
(* process, and each reads a session, works on the copy and writes it back; *)
(* only an edit and a file-name sync take locks, of the files as they are   *)
(* when they open them.                                                    *)
(*                                                                         *)
(* A step is one read or write of the store.  A conversation is the         *)
(* sequence of its turns; of the metadata the model keeps the title, which  *)
(* names the file a sync moves a session to.                                *)
(***************************************************************************)
EXTENDS Integers, Sequences, FiniteSets

CONSTANTS
    Names, NoTitle, Absent,
    Requests,           \* the threads and processes at work
    Backends,           \* which backends an instance looks at: TRUE for Cassandra
    Ops,                \* the operations requests may ask for
    Faults,             \* what may go wrong: "crash", "write", "model"
    MaxTurns, MaxOps, MaxFaults     \* bounds of an instance

OpNames == {"chat", "new", "label", "summarize", "cut", "delete", "rename", "sync", "merge", "init"}

ASSUME SessionsAssumption ==
    /\ IsFiniteSet(Names) /\ IsFiniteSet(Requests)
    /\ NoTitle \notin Names /\ Absent \notin Names \union {NoTitle} /\ Absent \notin Seq(Nat)
    /\ Backends \subseteq BOOLEAN /\ Ops \subseteq OpNames
    /\ Faults \subseteq {"crash", "write", "model"}
    /\ MaxTurns \in Nat \ {0} /\ MaxOps \in Nat /\ MaxFaults \in Nat

VARIABLES
    db,         \* the backend is Cassandra
    store,      \* what each file or column holds
    ino,        \* the inode of each file, 0 when there is none
    proc,       \* what each request does
    ops, faults,
    said,       \* how many turns the model has answered
    seen,       \* the conversation each of them answered
    saved,      \* turns that have been saved
    dropped,    \* turns a user has removed
    overlap     \* two requests have been at work together on the messages of one session

asked == <<ops, faults>>
told  == <<said, seen, saved, dropped, overlap>>
vars  == <<db, store, ino, proc, asked, told>>

sf(n) == <<n, "messages">>
mf(n) == <<n, "meta">>
Files == Names \X {"messages", "meta"}
Turns == 1 .. MaxTurns
TurnsOf(s) == {s[k] : k \in DOMAIN s}

\* session_file_exists, load_session_messages, load_session_meta
Exists(n)   == store[sf(n)] # Absent
Messages(n) == IF Exists(n) THEN store[sf(n)] ELSE <<>>
Title(n)    == IF store[mf(n)] # Absent THEN store[mf(n)] ELSE NoTitle

Titles == Names \union {NoTitle}

-----------------------------------------------------------------------------
(* A request: the operation, the session n it is about and the name m it makes or the
   title it gives, the conversation it has in hand, and the locks it holds. *)

Idle == [op |-> "none", at |-> "idle", n |-> NoTitle, m |-> NoTitle,
         mine |-> <<>>, title |-> NoTitle, turn |-> 0, meta |-> FALSE, wants |-> 0, holds |-> {}]

At(p, at) == proc[p].at = at
Does(p, op) == proc[p].op = op
Chats(p) == Does(p, "chat") \/ Does(p, "new")
Becomes(p, new) == proc' = [proc EXCEPT ![p] = new]
Moves(p, at) == proc' = [proc EXCEPT ![p].at = at]
Ends(p) == Becomes(p, Idle)

Fault(kind) == kind \in Faults /\ faults < MaxFaults /\ faults' = faults + 1 /\ UNCHANGED ops

Writers == {"chat", "new", "cut", "delete", "rename", "sync", "merge", "init"}

\* The sessions whose messages a request may write or move; a sync chooses its own name.
Touches(op, n, m) ==
    IF op = "sync" THEN Names
    ELSE IF op \in {"rename", "merge"} THEN {n, m}
    ELSE IF op \in Writers THEN {n} ELSE {}

\* An inode nothing refers to.
Fresh == CHOOSE i \in 1 .. (2 * Cardinality(Names) + 3 * Cardinality(Requests) + 1) :
            /\ i \notin {ino[f] : f \in Files}
            /\ \A p \in Requests : i # proc[p].wants /\ i \notin proc[p].holds

\* save_session_messages, save_session_meta: a new file takes the place of the old one.
Put(f, what) ==
    /\ store' = [store EXCEPT ![f] = what]
    /\ ino' = [ino EXCEPT ![f] = IF db THEN 0 ELSE Fresh]

Unlink(fs) ==
    /\ store' = [f \in Files |-> IF f \in fs THEN Absent ELSE store[f]]
    /\ ino' = [f \in Files |-> IF f \in fs THEN 0 ELSE ino[f]]

\* A write that fails leaves the file as it was and ends the request.
NotWritten(p) == Fault("write") /\ Ends(p) /\ UNCHANGED <<db, store, ino, told>>

Start(p, op, n, m) ==
    /\ At(p, "idle") /\ op \in Ops /\ ops < MaxOps
    /\ (m \in Names) <=> (op \in {"label", "summarize", "rename", "merge"})
    /\ Becomes(p, [Idle EXCEPT !.op = op, !.n = n, !.m = m,
                               !.at = IF op \in {"chat", "new"} THEN "load" ELSE "check"])
    /\ ops' = ops + 1
    /\ overlap' = (overlap \/ \E q \in Requests :
            Touches(op, n, m) \cap Touches(proc[q].op, proc[q].n, proc[q].m) # {})
    /\ UNCHANGED <<db, store, ino, faults, said, seen, saved, dropped>>

Crash(p) == ~At(p, "idle") /\ Fault("crash") /\ Ends(p) /\ UNCHANGED <<db, store, ino, told>>

-----------------------------------------------------------------------------
(* Metadata: every operation that writes it reads it first. *)

ReadMeta(p) ==
    /\ At(p, "meta")
    /\ Becomes(p, [proc[p] EXCEPT !.at = "saveMeta",
           !.title = IF proc[p].m \in Names /\ proc[p].op \in {"label", "summarize"}
                     THEN proc[p].m ELSE Title(proc[p].n)])
    /\ UNCHANGED <<db, store, ino, asked, told>>

\* A chat that has saved its turn may go on to summarize the session.
WriteMeta(p) ==
    \/ /\ At(p, "saveMeta")
       /\ Put(mf(proc[p].n), proc[p].title)
       /\ IF Chats(p) /\ proc[p].turn = 0 THEN Moves(p, "model")
          ELSE \/ Ends(p)
               \/ /\ Chats(p) /\ proc[p].title = NoTitle
                  /\ \E m \in Names : Becomes(p, [Idle EXCEPT !.op = "summarize", !.n = proc[p].n,
                                                              !.m = m, !.at = "check"])
       /\ UNCHANGED <<db, asked, told>>
    \/ At(p, "saveMeta") /\ NotWritten(p)

\* set_title, set_pinned, add_tags, remove_tags; summarize_session
Label(p) ==
    /\ At(p, "check") /\ (Does(p, "label") \/ Does(p, "summarize"))
    /\ IF Exists(proc[p].n) /\ (Does(p, "summarize") => Messages(proc[p].n) # <<>>)
       THEN Moves(p, "meta") ELSE Ends(p)
    /\ UNCHANGED <<db, store, ino, asked, told>>

-----------------------------------------------------------------------------
(* A chat turn.  What the model is given of a long conversation is what fits its context. *)

\* load_session.  A chat that is to begin anew leaves what it has loaded aside.
ChatLoad(p) ==
    /\ At(p, "load") /\ Chats(p)
    /\ Becomes(p, [proc[p] EXCEPT !.at = "meta",
                                  !.mine = IF Does(p, "new") THEN <<>> ELSE Messages(proc[p].n)])
    /\ UNCHANGED <<db, store, ino, asked, told>>

\* The model answers the conversation as it was loaded, or fails.
Answer(p) ==
    \/ /\ At(p, "model") /\ said < MaxTurns
       /\ said' = said + 1 /\ seen' = Append(seen, proc[p].mine)
       /\ Becomes(p, [proc[p] EXCEPT !.at = "save", !.turn = said + 1])
       /\ UNCHANGED <<db, store, ino, asked, saved, dropped, overlap>>
    \/ /\ At(p, "model") /\ (Fault("model") \/ (said = MaxTurns /\ UNCHANGED asked))
       /\ Ends(p) /\ UNCHANGED <<db, store, ino, told>>

\* Mutant: the turn is appended to the conversation as it is now.
ChatAppend(p) ==
    /\ At(p, "save")
    /\ Put(sf(proc[p].n), Append(Messages(proc[p].n), proc[p].turn))
    /\ saved' = saved \union {proc[p].turn}
    /\ Moves(p, "meta")
    /\ UNCHANGED <<db, asked, said, seen, dropped, overlap>>

\* _persist_chat_turn: the whole conversation is saved.
ChatSave(p) ==
    \/ /\ At(p, "save")
       /\ Put(sf(proc[p].n), Append(proc[p].mine, proc[p].turn))
       /\ saved' = saved \union {proc[p].turn}
       /\ dropped' = dropped \union (IF Does(p, "new") THEN TurnsOf(Messages(proc[p].n)) ELSE {})
       /\ Moves(p, "meta")
       /\ UNCHANGED <<db, asked, said, seen, overlap>>
    \/ At(p, "save") /\ NotWritten(p)

-----------------------------------------------------------------------------
(* Locks.  file_lock opens the file, creating it, and then waits for the lock of what it
   has opened; os.replace and unlink take the name away from under it. *)

Locking(p) == Does(p, "cut") \/ (Does(p, "sync") /\ ~db)

Opens(p, f, at) ==
    LET inode == IF ino[f] = 0 THEN Fresh ELSE ino[f] IN
    /\ store' = IF store[f] # Absent THEN store
                ELSE [store EXCEPT ![f] = IF f = sf(proc[p].n) THEN <<>> ELSE NoTitle]
    /\ ino' = [ino EXCEPT ![f] = inode]
    /\ Becomes(p, [proc[p] EXCEPT !.at = at, !.wants = inode,
                                  !.meta = IF At(p, "open") THEN store[mf(proc[p].n)] # Absent
                                           ELSE @])

Blocked(p) == \E q \in Requests \ {p} : proc[p].wants \in proc[q].holds

\* Mutant: an edit locks the metadata before the messages.
MetaFirst(p) == IF Does(p, "cut") THEN mf(proc[p].n) ELSE sf(proc[p].n)

FirstLock(p) == sf(proc[p].n)
SecondLock(p) == IF FirstLock(p) = sf(proc[p].n) THEN mf(proc[p].n) ELSE sf(proc[p].n)

OpenFirst(p)  == At(p, "open") /\ Opens(p, FirstLock(p), "lock") /\ UNCHANGED <<db, asked, told>>
OpenSecond(p) == At(p, "openMeta") /\ Opens(p, SecondLock(p), "lockMeta") /\ UNCHANGED <<db, asked, told>>

\* A sync locks the metadata only if there was any as it began to lock.
Acquire(p) ==
    /\ At(p, "lock") \/ At(p, "lockMeta")
    /\ ~Blocked(p)
    /\ Becomes(p, [proc[p] EXCEPT
           !.at = IF At(p, "lock") /\ (Does(p, "cut") \/ proc[p].meta) THEN "openMeta" ELSE "load",
           !.holds = @ \union {proc[p].wants}, !.wants = 0])
    /\ UNCHANGED <<db, store, ino, asked, told>>

\* Mutant: a request that gives up keeps the lock it has.
TimeOutHolding(p) ==
    /\ (At(p, "lock") \/ At(p, "lockMeta")) /\ Blocked(p)
    /\ Becomes(p, [Idle EXCEPT !.holds = proc[p].holds])
    /\ UNCHANGED <<db, store, ino, asked, told>>

\* The lock is not to be had in 5 or 10 seconds.
TimeOut(p) ==
    /\ (At(p, "lock") \/ At(p, "lockMeta")) /\ Blocked(p)
    /\ Ends(p)
    /\ UNCHANGED <<db, store, ino, asked, told>>

-----------------------------------------------------------------------------
(* edit_message with fork, and truncate_after_message: k whole turns stay.  The question a
   fork leaves without its answer is not a turn; an edit without fork, which changes the
   words of a question and none of the turns, is not modelled. *)

CutCheck(p) ==
    /\ At(p, "check") /\ Does(p, "cut")
    /\ IF ~Exists(proc[p].n) THEN Ends(p) ELSE Moves(p, IF db THEN "load" ELSE "open")
    /\ UNCHANGED <<db, store, ino, asked, told>>

CutLoad(p) ==
    /\ At(p, "load") /\ Does(p, "cut")
    /\ \/ \E k \in 0 .. Len(Messages(proc[p].n)) :
            Becomes(p, [proc[p] EXCEPT !.at = "cut", !.mine = SubSeq(Messages(proc[p].n), 1, k)])
       \/ Ends(p)    \* an index out of range
    /\ UNCHANGED <<db, store, ino, asked, told>>

CutSave(p) ==
    \/ /\ At(p, "cut")
       /\ Put(sf(proc[p].n), proc[p].mine)
       /\ dropped' = dropped \union (TurnsOf(Messages(proc[p].n)) \ TurnsOf(proc[p].mine))
       /\ Moves(p, "meta")
       /\ UNCHANGED <<db, asked, said, seen, saved, overlap>>
    \/ At(p, "cut") /\ NotWritten(p)

-----------------------------------------------------------------------------
(* delete_session, and the API's init_session *)

DeleteCheck(p) ==
    /\ At(p, "check") /\ Does(p, "delete")
    /\ IF Exists(proc[p].n) THEN Moves(p, "delete") ELSE Ends(p)
    /\ UNCHANGED <<db, store, ino, asked, told>>

\* A row goes at once; of two files, the messages go first.
Delete(p) ==
    LET n == proc[p].n IN
    /\ At(p, "delete")
    /\ IF db THEN Unlink({sf(n), mf(n)}) /\ Ends(p)
       ELSE IF ~Exists(n) THEN UNCHANGED <<store, ino>> /\ Ends(p)
       ELSE Unlink({sf(n)}) /\ Moves(p, "deleteMeta")
    /\ dropped' = dropped \union TurnsOf(Messages(n))
    /\ UNCHANGED <<db, asked, said, seen, saved, overlap>>

DeleteMeta(p) ==
    /\ At(p, "deleteMeta") /\ Unlink({mf(proc[p].n)}) /\ Ends(p)
    /\ UNCHANGED <<db, asked, told>>

InitCheck(p) ==
    /\ At(p, "check") /\ Does(p, "init")
    /\ IF Exists(proc[p].n) THEN Ends(p) ELSE Moves(p, "reset")
    /\ UNCHANGED <<db, store, ino, asked, told>>

\* A session that has appeared since is deleted.
Reset(p) ==
    LET n == proc[p].n IN
    /\ At(p, "reset")
    /\ IF Exists(n) THEN Unlink({sf(n), mf(n)}) ELSE UNCHANGED <<store, ino>>
    /\ Moves(p, "create")
    /\ UNCHANGED <<db, asked, told>>

Create(p) ==
    /\ At(p, "create") /\ Put(sf(proc[p].n), <<>>) /\ Moves(p, "meta")
    /\ UNCHANGED <<db, asked, told>>

-----------------------------------------------------------------------------
(* rename_session: two moves, or a copy of the row and its deletion *)

\* A name that is free as the request looks.
Target(p, m) == m # proc[p].n /\ ~Exists(m)

RenameCheck(p) ==
    LET n == proc[p].n IN
    /\ (At(p, "check") /\ Does(p, "rename")) \/ At(p, "fetch")
    /\ IF Exists(n) /\ Target(p, proc[p].m)
       THEN Becomes(p, [proc[p] EXCEPT !.at = IF db THEN "insert" ELSE "move",
                                       !.mine = Messages(n), !.title = Title(n)])
       ELSE Ends(p)
    /\ UNCHANGED <<db, store, ino, asked, told>>

\* os.replace; it fails when the source is gone.
Replace(p, from, to) ==
    IF store[from] = Absent THEN UNCHANGED <<store, ino>>
    ELSE /\ store' = [store EXCEPT ![to] = store[from], ![from] = Absent]
         /\ ino' = [ino EXCEPT ![to] = ino[from], ![from] = 0]

MoveMessages(p) ==
    /\ At(p, "move") /\ Replace(p, sf(proc[p].n), sf(proc[p].m))
    /\ IF Exists(proc[p].n) THEN Moves(p, "moveMeta") ELSE Ends(p)
    /\ UNCHANGED <<db, asked, told>>

MoveMeta(p) ==
    /\ At(p, "moveMeta") /\ Replace(p, mf(proc[p].n), mf(proc[p].m)) /\ Ends(p)
    /\ UNCHANGED <<db, asked, told>>

\* Mutant: the row is deleted before its copy is there.
DropFirst(p) ==
    /\ At(p, "insert") /\ Unlink({sf(proc[p].n), mf(proc[p].n)}) /\ Moves(p, "drop")
    /\ UNCHANGED <<db, asked, told>>

InsertRow(p) ==
    /\ At(p, "insert")
    /\ store' = [store EXCEPT ![sf(proc[p].m)] = proc[p].mine, ![mf(proc[p].m)] = proc[p].title]
    /\ Moves(p, "drop")
    /\ UNCHANGED <<db, ino, asked, told>>

DropRow(p) ==
    /\ At(p, "drop") /\ Unlink({sf(proc[p].n), mf(proc[p].n)}) /\ Ends(p)
    /\ UNCHANGED <<db, asked, told>>

-----------------------------------------------------------------------------
(* sync_filename_with_title copies a session to the name its title gives, or to a free
   one when that is taken, and deletes it, or has the row renamed; merge_sessions, of one
   session, only copies. *)

SyncCheck(p) ==
    LET n == proc[p].n  title == Title(n) IN
    /\ At(p, "check") /\ Does(p, "sync")
    /\ \/ /\ Exists(n) /\ title \notin {n, NoTitle}
          /\ \E m \in Names :
               /\ Target(p, m) /\ (m = title \/ Exists(title))
               /\ Becomes(p, [proc[p] EXCEPT !.at = IF db THEN "fetch" ELSE "open", !.m = m,
                                             !.title = title])
       \/ /\ ~Exists(n) \/ title \in {n, NoTitle} \/ \A m \in Names : ~Target(p, m)
          /\ Ends(p)
    /\ UNCHANGED <<db, store, ino, asked, told>>

MergeCheck(p) ==
    /\ At(p, "check") /\ Does(p, "merge")
    /\ IF Exists(proc[p].n) /\ Target(p, proc[p].m)
       THEN Becomes(p, [proc[p] EXCEPT !.at = "load", !.meta = TRUE]) ELSE Ends(p)
    /\ UNCHANGED <<db, store, ino, asked, told>>

\* The sync saves the metadata it read before it waited for the locks.
CopyLoad(p) ==
    /\ At(p, "load") /\ (Does(p, "sync") \/ Does(p, "merge"))
    /\ Becomes(p, [proc[p] EXCEPT !.at = "copy", !.mine = Messages(proc[p].n),
                                  !.title = IF Does(p, "merge") THEN Title(proc[p].n) ELSE @])
    /\ UNCHANGED <<db, store, ino, asked, told>>

Copied(p) == IF Does(p, "sync") THEN Moves(p, "unlink") ELSE Ends(p)

\* A failure removes the copies.
CopyFails(p) == Fault("write") /\ Moves(p, "cleanup") /\ UNCHANGED <<db, store, ino, told>>

Copy(p) ==
    \/ /\ At(p, "copy") /\ Put(sf(proc[p].m), proc[p].mine)
       /\ IF proc[p].meta THEN Moves(p, "copyMeta") ELSE Copied(p)
       /\ UNCHANGED <<db, asked, told>>
    \/ At(p, "copy") /\ CopyFails(p)

CopyMeta(p) ==
    \/ /\ At(p, "copyMeta") /\ Put(mf(proc[p].m), proc[p].title) /\ Copied(p)
       /\ UNCHANGED <<db, asked, told>>
    \/ At(p, "copyMeta") /\ CopyFails(p)

UnlinkOld(p) ==
    LET n == proc[p].n IN
    /\ At(p, "unlink")
    /\ IF ~Exists(n) THEN UNCHANGED <<store, ino>> /\ Moves(p, "cleanup")
       ELSE Unlink({sf(n)}) /\ (IF proc[p].meta THEN Moves(p, "unlinkMeta") ELSE Ends(p))
    /\ UNCHANGED <<db, asked, told>>

UnlinkOldMeta(p) ==
    LET n == proc[p].n IN
    /\ At(p, "unlinkMeta")
    /\ IF store[mf(n)] = Absent THEN UNCHANGED <<store, ino>> /\ Moves(p, "cleanup")
       ELSE Unlink({mf(n)}) /\ Ends(p)
    /\ UNCHANGED <<db, asked, told>>

Cleanup(p) ==
    /\ At(p, "cleanup") /\ Unlink({sf(proc[p].m), mf(proc[p].m)}) /\ Ends(p)
    /\ UNCHANGED <<db, asked, told>>

-----------------------------------------------------------------------------
\* A session of one turn, with or without a title.
Init ==
    \E n \in Names, title \in Titles :
        /\ db \in Backends
        /\ store = [f \in Files |-> IF f = sf(n) THEN <<1>> ELSE IF f = mf(n) THEN title ELSE Absent]
        /\ ino = [f \in Files |-> IF db THEN 0 ELSE IF f = sf(n) THEN 1 ELSE IF f = mf(n) THEN 2 ELSE 0]
        /\ proc = [p \in Requests |-> Idle]
        /\ ops = 0 /\ faults = 0
        /\ said = 1 /\ seen = << <<>> >> /\ saved = {1} /\ dropped = {} /\ overlap = FALSE

Work(p) ==
    \/ ReadMeta(p) \/ WriteMeta(p) \/ Label(p)
    \/ ChatLoad(p) \/ Answer(p) \/ ChatSave(p)
    \/ OpenFirst(p) \/ OpenSecond(p) \/ Acquire(p) \/ TimeOut(p)
    \/ CutCheck(p) \/ CutLoad(p) \/ CutSave(p)
    \/ DeleteCheck(p) \/ Delete(p) \/ DeleteMeta(p)
    \/ InitCheck(p) \/ Reset(p) \/ Create(p)
    \/ RenameCheck(p) \/ MoveMessages(p) \/ MoveMeta(p) \/ InsertRow(p) \/ DropRow(p)
    \/ SyncCheck(p) \/ MergeCheck(p) \/ CopyLoad(p) \/ Copy(p) \/ CopyMeta(p)
    \/ UnlinkOld(p) \/ UnlinkOldMeta(p) \/ Cleanup(p)

Next == \E p \in Requests :
    \/ \E op \in OpNames, n \in Names, m \in Titles : Start(p, op, n, m)
    \/ Work(p) \/ Crash(p)

Spec == Init /\ [][Next]_vars

-----------------------------------------------------------------------------
Proc == [op : OpNames \union {"none"},
         at : {"idle", "load", "check", "fetch", "meta", "saveMeta", "model", "save", "open", "lock",
               "openMeta", "lockMeta", "cut", "delete", "deleteMeta", "reset", "create",
               "insert", "move", "moveMeta", "drop", "copy", "copyMeta", "unlink",
               "unlinkMeta", "cleanup"},
         n : Titles, m : Titles, mine : Seq(Turns), title : Titles, turn : Turns \union {0},
         meta : BOOLEAN, wants : Nat, holds : SUBSET Nat]

\* A file of messages holds a conversation, one of metadata a title; a request that has
\* ended holds no lock and waits for none, and no two hold the lock of one inode.
TypeOK ==
    /\ db \in BOOLEAN
    /\ \A n \in Names : /\ store[sf(n)] \in Seq(Turns) \union {Absent}
                        /\ store[mf(n)] \in Titles \union {Absent}
    /\ ino \in [Files -> Nat]
    /\ proc \in [Requests -> Proc]
    /\ \A p \in Requests : At(p, "idle") => proc[p] = Idle
    /\ \A p, q \in Requests : p # q => proc[p].holds \cap proc[q].holds = {}
    /\ said \in Turns /\ Len(seen) = said
    /\ saved \subseteq 1 .. said /\ dropped \subseteq saved
    /\ overlap \in BOOLEAN

\* Every turn of the conversation s answered exactly the turns that come before it in s.
Follows(s) == \A k \in DOMAIN s : seen[s[k]] = SubSeq(s, 1, k - 1)

\* Whatever requests race, fail or are killed, no stored conversation shows an answer under
\* other turns than the model was given: load_session, the model's call and
\* _persist_chat_turn work on one copy, and every other operation keeps a prefix of it.
Coherent == \A n \in Names : Follows(Messages(n))

\* A turn that was saved and that no user removed is in some session.
NoTurnLost ==
    \A t \in saved \ dropped : \E n \in Names : t \in TurnsOf(Messages(n))

\* As long as no two requests have been at work on the messages of one session, no crash, no
\* failed write and no request that writes metadata alone loses a turn: a rename, a sync or
\* a merge that stops half way leaves the conversation under one name or the other.
TurnsSurvive == ~overlap => NoTurnLost

\* No two requests wait for each other's locks: an edit and a sync lock the messages before
\* the metadata (verify_lock_ordering), though a rename may carry a locked file to another
\* name and a sync may unlink it.
NoLockCycle ==
    \A p, q \in Requests : ~(proc[p].wants \in proc[q].holds /\ proc[q].wants \in proc[p].holds)

=============================================================================
