---------------------------- MODULE SessionsProofs ----------------------------
(***************************************************************************)
(* For any number of sessions, requests, turns and faults: no stored         *)
(* conversation shows an answer under a history the model was not given,     *)
(* no two requests wait for each other's locks, and a turn whose session     *)
(* one request at a time has been at work on is in some session.             *)
(*                                                                         *)
(* Coherent is not inductive: a request that holds a conversation in hand   *)
(* may store it at any later time, so what is in hand is coherent too, and   *)
(* the turn a chat is about to save answered exactly what it has in hand     *)
(* (SessionsInv).                                                          *)
(*                                                                         *)
(* Nor are the others, whose invariant is IInv.  NoLockCycle needs every     *)
(* inode, those that have lost their name too, to be one of messages or one  *)
(* of metadata but not both (Apart), and who waits for metadata to hold      *)
(* nothing but messages.  TurnsSurvive needs what a request that moves or    *)
(* copies a conversation has found out to be still so when it writes or      *)
(* unlinks (Careful), hence that the sessions of two requests do not meet    *)
(* while none has overlapped (Alone).  TypeOK needs the stages of each       *)
(* operation and what it knows at each (Shaped), and an inode to be free     *)
(* whenever a file is made (FreshOne): no request holds more than two.       *)
(***************************************************************************)
EXTENDS Sessions, SequenceTheorems, FiniteSetTheorems, TLAPS

Fields == {"op", "at", "n", "m", "mine", "title", "turn", "meta", "wants", "holds"}

\* The conversations that make sense of the answers given so far.
Talks == {s \in Seq(1 .. said) : Follows(s)}

Sound(r) ==
    /\ DOMAIN r = Fields
    /\ r.mine \in Talks
    /\ r.at # "idle" => r.n \in Names
    /\ r.at = "save" => r.turn \in 1 .. said /\ seen[r.turn] = r.mine

SoundStore ==
    /\ DOMAIN store = Files
    /\ \A n \in Names : store[sf(n)] \in Talks \union {Absent}

SoundProcs == DOMAIN proc = Requests /\ \A p \in Requests : Sound(proc[p])

Said == said \in Nat /\ seen \in Seq(Seq(Nat)) /\ Len(seen) = said

SessionsInv == Said /\ SoundStore /\ SoundProcs

-----------------------------------------------------------------------------
(* Conversations *)

LEMMA TurnsAreSaid == ASSUME NEW s \in Talks, NEW k \in 1 .. Len(s) PROVE s[k] \in 1 .. said
<1>1. s \in Seq(1 .. said)
  BY DEF Talks
<1> QED
  BY <1>1, ElementOfSeq

LEMMA NothingSaid == ASSUME Said PROVE <<>> \in Talks
BY DEF Said, Talks, Follows

\* A conversation followed by the turn that answered it makes sense.
LEMMA Answered ==
    ASSUME Said, NEW s \in Talks, NEW t \in 1 .. said, seen[t] = s
    PROVE  Append(s, t) \in Talks
<1> DEFINE u == Append(s, t)
<1>1. s \in Seq(1 .. said) /\ Len(s) \in Nat
  BY DEF Talks
<1>2. /\ u \in Seq(1 .. said) /\ Len(u) = Len(s) + 1 /\ u[Len(s) + 1] = t
      /\ \A k \in 1 .. Len(s) : u[k] = s[k]
  BY <1>1 DEF Said
<1>3. \A k \in 1 .. Len(s) + 1 : SubSeq(u, 1, k - 1) = SubSeq(s, 1, k - 1)
  BY <1>1, <1>2
<1>4. SubSeq(s, 1, Len(s)) = s
  BY <1>1
<1> HIDE DEF u
<1>5. ASSUME NEW k \in 1 .. Len(s) + 1 PROVE seen[u[k]] = SubSeq(u, 1, k - 1)
  <2>1. CASE k = Len(s) + 1
    BY <1>1, <1>2, <1>3, <1>4, <2>1
  <2>2. CASE k \in 1 .. Len(s)
    <3>1. seen[s[k]] = SubSeq(s, 1, k - 1)
      BY <1>1, <2>2 DEF Talks, Follows
    <3> QED
      BY <1>2, <1>3, <2>2, <3>1
  <2> QED
    BY <1>1, <2>1, <2>2
<1>6. DOMAIN u = 1 .. Len(s) + 1
  BY <1>2
<1> QED
  BY <1>2, <1>5, <1>6 DEF Talks, Follows, u

\* So does the beginning of one.
LEMMA CutShort ==
    ASSUME Said, NEW s \in Talks, NEW k \in 0 .. Len(s) PROVE SubSeq(s, 1, k) \in Talks
<1> DEFINE u == SubSeq(s, 1, k)
<1>1. s \in Seq(1 .. said) /\ Len(s) \in Nat
  BY DEF Talks
<1>2. u \in Seq(1 .. said) /\ Len(u) = k /\ \A i \in 1 .. k : u[i] = s[i]
  <2>1. k \in Int /\ \A i \in 1 .. k : s[i] \in 1 .. said
    BY <1>1, TurnsAreSaid
  <2>2. /\ u \in Seq(1 .. said) /\ Len(u) = IF 1 <= k THEN k - 1 + 1 ELSE 0
        /\ \A i \in 1 .. k - 1 + 1 : u[i] = s[1 + i - 1]
    BY <2>1, SubSeqProperties
  <2> HIDE DEF u
  <2> QED
    BY <2>1, <2>2
<1>3. \A i \in 1 .. k : SubSeq(u, 1, i - 1) = SubSeq(s, 1, i - 1)
  BY <1>1, <1>2
<1> HIDE DEF u
<1>4. \A i \in 1 .. k : seen[s[i]] = SubSeq(s, 1, i - 1)
  <2>1. \A i \in DOMAIN s : seen[s[i]] = SubSeq(s, 1, i - 1)
    BY DEF Talks, Follows
  <2>2. 1 .. k \subseteq DOMAIN s
    BY <1>1
  <2> QED
    BY <2>1, <2>2
<1>5. DOMAIN u = 1 .. k
  BY <1>2
<1>6. \A i \in 1 .. k : seen[u[i]] = SubSeq(u, 1, i - 1)
  BY <1>2, <1>3, <1>4
<1> QED
  BY <1>2, <1>5, <1>6 DEF Talks, Follows, u

\* One more answer changes none of them.
LEMMA MoreSaid ==
    ASSUME Said, NEW s \in Talks, said' = said + 1, NEW t \in Talks, seen' = Append(seen, t)
    PROVE  s \in Talks'
<1>1. s \in Seq(1 .. said)
  BY DEF Talks
<1>2. \A i \in 1 .. said : seen'[i] = seen[i]
  BY DEF Said
<1>3. \A k \in DOMAIN s : seen'[s[k]] = SubSeq(s, 1, k - 1)
  <2>1. \A k \in DOMAIN s : s[k] \in 1 .. said
    BY <1>1, TurnsAreSaid
  <2>2. \A k \in DOMAIN s : seen[s[k]] = SubSeq(s, 1, k - 1)
    BY DEF Talks, Follows
  <2> QED
    BY <1>2, <2>1, <2>2
<1>4. s \in Seq(1 .. said + 1)
  BY <1>1 DEF Said
<1> QED
  BY <1>3, <1>4 DEF Talks, Follows

-----------------------------------------------------------------------------
(* Steps *)

LEMMA FilesApart ==
    ASSUME NEW n \in Names
    PROVE  /\ sf(n) \in Files /\ mf(n) \in Files
           /\ \A m : sf(n) # mf(m) /\ (sf(n) = sf(m) => n = m) /\ (mf(n) = mf(m) => n = m)
BY DEF sf, mf, Files

LEMMA InHand ==
    ASSUME SessionsInv, NEW n \in Names
    PROVE  Messages(n) \in Talks /\ (Exists(n) => store[sf(n)] \in Talks)
BY NothingSaid DEF SessionsInv, SoundStore, Messages, Exists

LEMMA IdleIsSound == ASSUME Said PROVE Sound(Idle)
BY NothingSaid DEF Idle, Sound, Fields

\* A request that goes on with a sound record leaves the requests sound.
LEMMA GoesOn ==
    ASSUME SessionsInv, NEW p \in Requests, NEW r, Becomes(p, r), Sound(r), UNCHANGED <<said, seen>>
    PROVE  Said' /\ SoundProcs'
<1>1. Talks' = Talks
  BY DEF Talks, Follows
<1>2. \A q \in Requests : proc'[q] = IF q = p THEN r ELSE proc[q]
  BY DEF Becomes, SessionsInv, SoundProcs
<1>3. ASSUME NEW q \in Requests PROVE Sound(proc[q])'
  <2>1. Sound(proc'[q])
    BY <1>2 DEF SessionsInv, SoundProcs
  <2> QED
    BY <1>1, <2>1 DEF Sound
<1>4. DOMAIN proc' = Requests
  BY DEF Becomes, SessionsInv, SoundProcs
<1> QED
  BY <1>3, <1>4 DEF SessionsInv, SoundProcs, Said

LEMMA MovesOn ==
    ASSUME SessionsInv, NEW p \in Requests, ~At(p, "idle"), NEW at, at # "save",
           Moves(p, at), UNCHANGED <<said, seen>>
    PROVE  Said' /\ SoundProcs'
<1>1. Becomes(p, [proc[p] EXCEPT !.at = at])
  BY DEF Moves, Becomes, SessionsInv, SoundProcs
<1>2. Sound([proc[p] EXCEPT !.at = at])
  BY DEF SessionsInv, SoundProcs, Sound, At, Fields
<1> QED
  BY <1>1, <1>2, GoesOn

LEMMA Finishes ==
    ASSUME SessionsInv, NEW p \in Requests, Ends(p), UNCHANGED <<said, seen>>
    PROVE  Said' /\ SoundProcs'
BY GoesOn, IdleIsSound DEF Ends, SessionsInv

\* What is written where messages are is a conversation, or the file is gone.
LEMMA Stored ==
    ASSUME SessionsInv, UNCHANGED <<said, seen>>,
           DOMAIN store' = Files, \A n \in Names : store'[sf(n)] \in Talks \union {Absent}
    PROVE  SoundStore'
BY DEF SoundStore, Talks, Follows

LEMMA PutMeta ==
    ASSUME SessionsInv, NEW n, NEW what, Put(mf(n), what), UNCHANGED <<said, seen>>
    PROVE  SoundStore'
<1>1. \A m \in Names : store'[sf(m)] = store[sf(m)]
  BY FilesApart DEF Put, SessionsInv, SoundStore
<1>2. DOMAIN store' = Files
  BY DEF Put, SessionsInv, SoundStore
<1> QED
  BY <1>1, <1>2, Stored DEF SessionsInv, SoundStore

LEMMA PutMessages ==
    ASSUME SessionsInv, NEW n, NEW what \in Talks, Put(sf(n), what), UNCHANGED <<said, seen>>
    PROVE  SoundStore'
<1>1. \A m \in Names : store'[sf(m)] = what \/ store'[sf(m)] = store[sf(m)]
  BY FilesApart DEF Put, SessionsInv, SoundStore
<1>2. DOMAIN store' = Files
  BY DEF Put, SessionsInv, SoundStore
<1> QED
  BY <1>1, <1>2, Stored DEF SessionsInv, SoundStore

LEMMA Unlinked ==
    ASSUME SessionsInv, NEW fs, Unlink(fs) \/ UNCHANGED <<store, ino>>, UNCHANGED <<said, seen>>
    PROVE  SoundStore'
<1>1. \A m \in Names : store'[sf(m)] = Absent \/ store'[sf(m)] = store[sf(m)]
  BY FilesApart DEF Unlink
<1>2. DOMAIN store' = Files
  BY DEF Unlink, SessionsInv, SoundStore
<1> QED
  BY <1>1, <1>2, Stored DEF SessionsInv, SoundStore

LEMMA Untouched ==
    ASSUME SessionsInv, UNCHANGED <<store, said, seen>> PROVE SoundStore'
BY Stored DEF SessionsInv, SoundStore

-----------------------------------------------------------------------------
(* Operations *)

LEMMA NotWrittenInv == ASSUME SessionsInv, NEW p \in Requests, NotWritten(p) PROVE SessionsInv'
BY Finishes, Untouched DEF NotWritten, SessionsInv, told

LEMMA StartInv ==
    ASSUME SessionsInv, NEW p \in Requests, NEW op, NEW n \in Names, NEW m, Start(p, op, n, m)
    PROVE  SessionsInv'
<1> DEFINE r == [Idle EXCEPT !.op = op, !.n = n, !.m = m,
                             !.at = IF op \in {"chat", "new"} THEN "load" ELSE "check"]
<1>1. Sound(r)
  BY NothingSaid DEF Idle, Sound, Fields, SessionsInv
<1>2. Becomes(p, r) /\ UNCHANGED <<store, said, seen>>
  BY DEF Start
<1> HIDE DEF r
<1> QED
  BY <1>1, <1>2, GoesOn, Untouched DEF SessionsInv

LEMMA CrashInv == ASSUME SessionsInv, NEW p \in Requests, Crash(p) PROVE SessionsInv'
BY Finishes, Untouched DEF Crash, SessionsInv, told

LEMMA MetaInv ==
    ASSUME SessionsInv, NEW p \in Requests, ReadMeta(p) \/ WriteMeta(p) \/ Label(p)
    PROVE  SessionsInv'
<1>0. proc[p] = proc[p] /\ Sound(proc[p])
  BY DEF SessionsInv, SoundProcs
<1>1. CASE ReadMeta(p)
  <2> DEFINE title == IF proc[p].m \in Names /\ proc[p].op \in {"label", "summarize"}
                      THEN proc[p].m ELSE Title(proc[p].n)
             r == [proc[p] EXCEPT !.at = "saveMeta", !.title = title]
  <2>1. At(p, "meta") /\ Becomes(p, r) /\ UNCHANGED <<store, said, seen>>
    BY <1>1 DEF ReadMeta, told
  <2> HIDE DEF title
  <2>2. Sound(r)
    BY <1>0, <2>1 DEF Sound, At, Fields
  <2> HIDE DEF r
  <2> QED
    BY <2>1, <2>2, GoesOn, Untouched DEF SessionsInv
<1>2. CASE WriteMeta(p)
  <2>1. CASE NotWritten(p)
    BY <2>1, NotWrittenInv
  <2>2. CASE ~NotWritten(p)
    <3>1. At(p, "saveMeta") /\ UNCHANGED <<said, seen>> /\ SoundStore'
      BY <1>2, <2>2, PutMeta DEF WriteMeta, told
    <3>2. \/ Moves(p, "model") \/ Ends(p)
          \/ \E m \in Names : Becomes(p, [Idle EXCEPT !.op = "summarize", !.n = proc[p].n,
                                                      !.m = m, !.at = "check"])
      BY <1>2, <2>2 DEF WriteMeta
    <3>3. ASSUME NEW m \in Names
          PROVE  Sound([Idle EXCEPT !.op = "summarize", !.n = proc[p].n, !.m = m, !.at = "check"])
      BY <1>0, <3>1, NothingSaid DEF Idle, Sound, Fields, At, SessionsInv
    <3> QED
      BY <3>1, <3>2, <3>3, GoesOn, MovesOn, Finishes DEF SessionsInv, At
  <2> QED
    BY <2>1, <2>2
<1>3. CASE Label(p)
  BY <1>3, MovesOn, Finishes, Untouched DEF Label, At, SessionsInv, told
<1> QED
  BY <1>1, <1>2, <1>3

LEMMA AnswerInv == ASSUME SessionsInv, NEW p \in Requests, Answer(p) PROVE SessionsInv'
<1>1. CASE Ends(p) /\ UNCHANGED <<store, told>>
  BY <1>1, Finishes, Untouched DEF told, SessionsInv
<1> DEFINE r == [proc[p] EXCEPT !.at = "save", !.turn = said + 1]
<1>2. CASE At(p, "model") /\ said' = said + 1 /\ seen' = Append(seen, proc[p].mine)
           /\ Becomes(p, r) /\ UNCHANGED store
  <2>1. Said /\ Sound(proc[p]) /\ proc[p].mine \in Talks
    BY DEF SessionsInv, SoundProcs, Sound
  <2>2. \A s \in Talks : s \in Talks'
    BY <1>2, <2>1, MoreSaid
  <2>3. /\ Said' /\ seen'[said + 1] = proc[p].mine
        /\ \A t \in 1 .. said : seen'[t] = seen[t]
    <3>1. proc[p].mine \in Seq(Nat)
      BY <2>1 DEF Talks, Said
    <3> QED
      BY <1>2, <2>1, <3>1 DEF Said
  <2>4. DOMAIN proc' = Requests /\ \A q \in Requests : proc'[q] = IF q = p THEN r ELSE proc[q]
    BY <1>2 DEF Becomes, SessionsInv, SoundProcs
  <2>5. /\ DOMAIN r = Fields /\ r.mine = proc[p].mine /\ r.n = proc[p].n /\ r.turn = said + 1
        /\ proc[p].n \in Names
    BY <1>2, <2>1 DEF Sound, Fields, At
  <2> HIDE DEF r
  <2>6. ASSUME NEW q \in Requests PROVE Sound(proc[q])'
    <3>1. CASE q = p
      BY <1>2, <2>1, <2>2, <2>3, <2>4, <2>5, <3>1 DEF Sound, Said
    <3>2. CASE q # p
      <4>1. Sound(proc[q]) /\ proc'[q] = proc[q]
        BY <2>4, <3>2 DEF SessionsInv, SoundProcs
      <4> QED
        BY <1>2, <2>1, <2>2, <2>3, <4>1 DEF Sound, Said
    <3> QED
      BY <3>1, <3>2
  <2>7. SoundStore'
    BY <1>2, <2>2 DEF SessionsInv, SoundStore
  <2> QED
    BY <2>3, <2>4, <2>6, <2>7 DEF SessionsInv, SoundProcs
<1> QED
  BY <1>1, <1>2 DEF Answer

LEMMA ChatInv ==
    ASSUME SessionsInv, NEW p \in Requests, ChatLoad(p) \/ ChatSave(p) PROVE SessionsInv'
<1>1. Said /\ Sound(proc[p])
  BY DEF SessionsInv, SoundProcs
<1>2. CASE ChatLoad(p)
  <2> DEFINE mine == IF Does(p, "new") THEN <<>> ELSE Messages(proc[p].n)
             r == [proc[p] EXCEPT !.at = "meta", !.mine = mine]
  <2>1. At(p, "load") /\ Becomes(p, r) /\ UNCHANGED <<store, said, seen>>
    BY <1>2 DEF ChatLoad, told
  <2>2. mine \in Talks
    BY <1>1, <2>1, InHand, NothingSaid DEF Sound, At
  <2> HIDE DEF mine
  <2>3. Sound(r)
    BY <1>1, <2>1, <2>2 DEF Sound, Fields, At
  <2> HIDE DEF r
  <2> QED
    BY <2>1, <2>3, GoesOn, Untouched DEF SessionsInv
<1>3. CASE NotWritten(p)
  BY <1>3, NotWrittenInv
<1>4. CASE ChatSave(p) /\ ~NotWritten(p)
  <2>1. /\ At(p, "save") /\ Put(sf(proc[p].n), Append(proc[p].mine, proc[p].turn))
        /\ Moves(p, "meta") /\ UNCHANGED <<said, seen>>
    BY <1>4 DEF ChatSave
  <2>2. Append(proc[p].mine, proc[p].turn) \in Talks
    BY <1>1, <2>1, Answered DEF Sound, At
  <2> QED
    BY <2>1, <2>2, PutMessages, MovesOn DEF At, SessionsInv
<1> QED
  BY <1>2, <1>3, <1>4

LEMMA OpensInv ==
    ASSUME SessionsInv, NEW p \in Requests, ~At(p, "idle"), NEW at, at # "save", NEW f,
           f \in {sf(proc[p].n), mf(proc[p].n)}, Opens(p, f, at), UNCHANGED told
    PROVE  SessionsInv'
<1>1. UNCHANGED <<said, seen>> /\ Said /\ Sound(proc[p])
  BY DEF told, SessionsInv, SoundProcs
<1>2. PICK wants, meta : Becomes(p, [proc[p] EXCEPT !.at = at, !.wants = wants, !.meta = meta])
  BY DEF Opens
<1>3. Sound([proc[p] EXCEPT !.at = at, !.wants = wants, !.meta = meta])
  BY <1>1 DEF Sound, Fields, At
<1>4. \A m \in Names : store'[sf(m)] = store[sf(m)] \/ store'[sf(m)] = <<>>
  <2>1. CASE f = sf(proc[p].n)
    BY <2>1 DEF Opens, SessionsInv, SoundStore
  <2>2. CASE f = mf(proc[p].n)
    BY <2>2, FilesApart DEF Opens, SessionsInv, SoundStore
  <2> QED
    BY <2>1, <2>2
<1>5. DOMAIN store' = Files
  BY DEF Opens, SessionsInv, SoundStore
<1>6. SoundStore'
  BY <1>1, <1>4, <1>5, Stored, NothingSaid DEF SessionsInv, SoundStore
<1> QED
  BY <1>1, <1>2, <1>3, <1>6, GoesOn DEF SessionsInv

LEMMA LocksInv ==
    ASSUME SessionsInv, NEW p \in Requests,
           OpenFirst(p) \/ OpenSecond(p) \/ Acquire(p) \/ TimeOut(p)
    PROVE  SessionsInv'
<1>1. CASE OpenFirst(p)
  BY <1>1, OpensInv DEF OpenFirst, FirstLock, At
<1>2. CASE OpenSecond(p)
  BY <1>2, OpensInv DEF OpenSecond, FirstLock, SecondLock, At
<1>3. CASE Acquire(p)
  <2>1. PICK at \in {"openMeta", "load"} :
            Becomes(p, [proc[p] EXCEPT !.at = at, !.holds = proc[p].holds \union {proc[p].wants},
                                       !.wants = 0])
    BY <1>3 DEF Acquire
  <2>2. ~At(p, "idle") /\ Sound(proc[p])
    BY <1>3 DEF Acquire, At, SessionsInv, SoundProcs
  <2>3. Sound([proc[p] EXCEPT !.at = at, !.holds = proc[p].holds \union {proc[p].wants}, !.wants = 0])
    BY <2>2 DEF Sound, Fields, At
  <2>4. UNCHANGED <<store, said, seen>>
    BY <1>3 DEF Acquire, told
  <2> QED
    BY <2>1, <2>3, <2>4, GoesOn, Untouched DEF SessionsInv
<1>4. CASE TimeOut(p)
  BY <1>4, Finishes, Untouched DEF TimeOut, SessionsInv, told
<1> QED
  BY <1>1, <1>2, <1>3, <1>4

LEMMA CutInv ==
    ASSUME SessionsInv, NEW p \in Requests, CutCheck(p) \/ CutLoad(p) \/ CutSave(p)
    PROVE  SessionsInv'
<1>1. Said /\ Sound(proc[p])
  BY DEF SessionsInv, SoundProcs
<1>2. CASE CutCheck(p)
  <2>1. UNCHANGED <<store, said, seen>> /\ At(p, "check")
    BY <1>2 DEF CutCheck, told
  <2>2. Ends(p) \/ Moves(p, "load") \/ Moves(p, "open")
    BY <1>2 DEF CutCheck
  <2> QED
    BY <2>1, <2>2, MovesOn, Finishes, Untouched DEF At, SessionsInv
<1>3. CASE CutLoad(p)
  <2>1. At(p, "load") /\ UNCHANGED <<store, said, seen>>
    BY <1>3 DEF CutLoad, told
  <2>2. Messages(proc[p].n) \in Talks
    BY <1>1, <2>1, InHand DEF Sound, At
  <2>3. ASSUME NEW k \in 0 .. Len(Messages(proc[p].n))
        PROVE  Sound([proc[p] EXCEPT !.at = "cut", !.mine = SubSeq(Messages(proc[p].n), 1, k)])
    <3>1. SubSeq(Messages(proc[p].n), 1, k) \in Talks
      BY <1>1, <2>2, CutShort
    <3> QED
      BY <1>1, <2>1, <3>1 DEF Sound, Fields, At
  <2>4. \/ Ends(p)
        \/ \E k \in 0 .. Len(Messages(proc[p].n)) :
               Becomes(p, [proc[p] EXCEPT !.at = "cut", !.mine = SubSeq(Messages(proc[p].n), 1, k)])
    BY <1>3 DEF CutLoad
  <2> QED
    BY <2>1, <2>3, <2>4, GoesOn, Finishes, Untouched DEF SessionsInv
<1>4. CASE NotWritten(p)
  BY <1>4, NotWrittenInv
<1>5. CASE CutSave(p) /\ ~NotWritten(p)
  <2>1. /\ At(p, "cut") /\ Put(sf(proc[p].n), proc[p].mine) /\ Moves(p, "meta")
        /\ UNCHANGED <<said, seen>>
    BY <1>5 DEF CutSave
  <2> QED
    BY <1>1, <2>1, PutMessages, MovesOn DEF Sound, At, SessionsInv
<1> QED
  BY <1>2, <1>3, <1>4, <1>5

\* The operations that only unlink files, or look and go on.
LEMMA DeleteInv ==
    ASSUME SessionsInv, NEW p \in Requests,
           \/ DeleteCheck(p) \/ Delete(p) \/ DeleteMeta(p) \/ InitCheck(p) \/ Reset(p)
           \/ DropRow(p) \/ UnlinkOld(p) \/ UnlinkOldMeta(p) \/ Cleanup(p)
    PROVE  SessionsInv'
<1>1. CASE DeleteCheck(p)
  BY <1>1, MovesOn, Finishes, Untouched DEF DeleteCheck, At, SessionsInv, told
<1>2. CASE Delete(p)
  BY <1>2, MovesOn, Finishes, Unlinked DEF Delete, At, SessionsInv
<1>3. CASE DeleteMeta(p)
  BY <1>3, Finishes, Unlinked DEF DeleteMeta, SessionsInv, told
<1>4. CASE InitCheck(p)
  BY <1>4, MovesOn, Finishes, Untouched DEF InitCheck, At, SessionsInv, told
<1>5. CASE Reset(p)
  BY <1>5, MovesOn, Unlinked DEF Reset, At, SessionsInv, told
<1>6. CASE DropRow(p)
  BY <1>6, Finishes, Unlinked DEF DropRow, SessionsInv, told
<1>7. CASE UnlinkOld(p)
  BY <1>7, MovesOn, Finishes, Unlinked DEF UnlinkOld, At, SessionsInv, told
<1>8. CASE UnlinkOldMeta(p)
  BY <1>8, MovesOn, Finishes, Unlinked DEF UnlinkOldMeta, At, SessionsInv, told
<1>9. CASE Cleanup(p)
  BY <1>9, Finishes, Unlinked DEF Cleanup, SessionsInv, told
<1> QED
  BY <1>1, <1>2, <1>3, <1>4, <1>5, <1>6, <1>7, <1>8, <1>9

LEMMA CreateInv == ASSUME SessionsInv, NEW p \in Requests, Create(p) PROVE SessionsInv'
<1>1. <<>> \in Talks
  BY NothingSaid DEF SessionsInv
<1> QED
  BY <1>1, PutMessages, MovesOn DEF Create, At, SessionsInv, told

LEMMA ReplaceKeeps ==
    ASSUME SessionsInv, NEW p, NEW n \in Names, NEW m, UNCHANGED <<said, seen>>,
           Replace(p, sf(n), sf(m)) \/ Replace(p, mf(n), mf(m))
    PROVE  SoundStore'
<1>1. CASE Replace(p, sf(n), sf(m))
  <2>1. store[sf(n)] \in Talks \union {Absent}
    BY DEF SessionsInv, SoundStore
  <2>2. \A f \in Files : store'[f] \in {store[f], store[sf(n)], Absent}
    BY <1>1 DEF Replace, SessionsInv, SoundStore
  <2>3. DOMAIN store' = Files /\ \A k \in Names : sf(k) \in Files
    BY <1>1, FilesApart DEF Replace, SessionsInv, SoundStore
  <2> QED
    BY <2>1, <2>2, <2>3, Stored DEF SessionsInv, SoundStore
<1>2. CASE Replace(p, mf(n), mf(m))
  <2>1. \A k \in Names : store'[sf(k)] = store[sf(k)]
    BY <1>2, FilesApart DEF Replace, SessionsInv, SoundStore
  <2>2. DOMAIN store' = Files
    BY <1>2 DEF Replace, SessionsInv, SoundStore
  <2> QED
    BY <2>1, <2>2, Stored DEF SessionsInv, SoundStore
<1> QED
  BY <1>1, <1>2

LEMMA RenameInv ==
    ASSUME SessionsInv, NEW p \in Requests,
           RenameCheck(p) \/ MoveMessages(p) \/ MoveMeta(p) \/ InsertRow(p)
    PROVE  SessionsInv'
<1>1. Said /\ Sound(proc[p])
  BY DEF SessionsInv, SoundProcs
<1>2. CASE RenameCheck(p)
  <2> DEFINE r(at) == [proc[p] EXCEPT !.at = at, !.mine = Messages(proc[p].n),
                                      !.title = Title(proc[p].n)]
  <2>1. ~At(p, "idle") /\ UNCHANGED <<store, said, seen>>
    BY <1>2 DEF RenameCheck, At, told
  <2>2. Messages(proc[p].n) \in Talks
    BY <1>1, <2>1, InHand DEF Sound, At
  <2>3. Sound(r("insert")) /\ Sound(r("move"))
    BY <1>1, <2>1, <2>2 DEF Sound, Fields, At
  <2>4. Ends(p) \/ Becomes(p, r("insert")) \/ Becomes(p, r("move"))
    BY <1>2 DEF RenameCheck
  <2> HIDE DEF r
  <2> QED
    BY <2>1, <2>3, <2>4, GoesOn, Finishes, Untouched DEF SessionsInv
<1>3. CASE MoveMessages(p)
  <2>1. At(p, "move") /\ UNCHANGED <<said, seen>> /\ proc[p].n \in Names
    BY <1>1, <1>3 DEF MoveMessages, told, Sound, At
  <2>2. SoundStore'
    BY <1>3, <2>1, ReplaceKeeps DEF MoveMessages
  <2>3. Moves(p, "moveMeta") \/ Ends(p)
    BY <1>3 DEF MoveMessages
  <2> QED
    BY <2>1, <2>2, <2>3, MovesOn, Finishes DEF At, SessionsInv
<1>4. CASE MoveMeta(p)
  <2>1. UNCHANGED <<said, seen>> /\ proc[p].n \in Names /\ Ends(p)
    BY <1>1, <1>4 DEF MoveMeta, told, Sound, At
  <2>2. SoundStore'
    BY <1>4, <2>1, ReplaceKeeps DEF MoveMeta
  <2> QED
    BY <2>1, <2>2, Finishes DEF SessionsInv
<1>5. CASE InsertRow(p)
  <2>1. At(p, "insert") /\ Moves(p, "drop") /\ UNCHANGED <<said, seen>>
    BY <1>5 DEF InsertRow, told
  <2>2. proc[p].mine \in Talks
    BY <1>1 DEF Sound
  <2>3. \A k \in Names : store'[sf(k)] \in {store[sf(k)], proc[p].mine}
    BY <1>5, FilesApart DEF InsertRow, SessionsInv, SoundStore
  <2>4. DOMAIN store' = Files
    BY <1>5 DEF InsertRow, SessionsInv, SoundStore
  <2>5. SoundStore'
    BY <2>1, <2>2, <2>3, <2>4, Stored DEF SessionsInv, SoundStore
  <2> QED
    BY <2>1, <2>5, MovesOn DEF At, SessionsInv
<1> QED
  BY <1>2, <1>3, <1>4, <1>5

LEMMA CopyInv ==
    ASSUME SessionsInv, NEW p \in Requests,
           SyncCheck(p) \/ MergeCheck(p) \/ CopyLoad(p) \/ Copy(p) \/ CopyMeta(p)
    PROVE  SessionsInv'
<1>1. Said /\ Sound(proc[p])
  BY DEF SessionsInv, SoundProcs
<1>2. CASE SyncCheck(p)
  <2>1. At(p, "check") /\ UNCHANGED <<store, said, seen>>
    BY <1>2 DEF SyncCheck, told
  <2>2. \/ Ends(p)
        \/ \E at \in {"fetch", "open"}, m \in Names :
               Becomes(p, [proc[p] EXCEPT !.at = at, !.m = m, !.title = Title(proc[p].n)])
    BY <1>2 DEF SyncCheck
  <2>3. ASSUME NEW at \in {"fetch", "open"}, NEW m \in Names
        PROVE  Sound([proc[p] EXCEPT !.at = at, !.m = m, !.title = Title(proc[p].n)])
    BY <1>1, <2>1 DEF Sound, Fields, At
  <2> QED
    BY <2>1, <2>2, <2>3, GoesOn, Finishes, Untouched DEF SessionsInv
<1>3. CASE MergeCheck(p)
  <2>1. At(p, "check") /\ UNCHANGED <<store, said, seen>>
    BY <1>3 DEF MergeCheck, told
  <2>2. Ends(p) \/ Becomes(p, [proc[p] EXCEPT !.at = "load", !.meta = TRUE])
    BY <1>3 DEF MergeCheck
  <2>3. Sound([proc[p] EXCEPT !.at = "load", !.meta = TRUE])
    BY <1>1, <2>1 DEF Sound, Fields, At
  <2> QED
    BY <2>1, <2>2, <2>3, GoesOn, Finishes, Untouched DEF SessionsInv
<1>4. CASE CopyLoad(p)
  <2>1. At(p, "load") /\ UNCHANGED <<store, said, seen>>
    BY <1>4 DEF CopyLoad, told
  <2>2. PICK title : Becomes(p, [proc[p] EXCEPT !.at = "copy", !.mine = Messages(proc[p].n),
                                                !.title = title])
    BY <1>4 DEF CopyLoad
  <2>3. Messages(proc[p].n) \in Talks
    BY <1>1, <2>1, InHand DEF Sound, At
  <2>4. Sound([proc[p] EXCEPT !.at = "copy", !.mine = Messages(proc[p].n), !.title = title])
    BY <1>1, <2>1, <2>3 DEF Sound, Fields, At
  <2> QED
    BY <2>1, <2>2, <2>4, GoesOn, Untouched DEF SessionsInv
<1>5. CASE ~At(p, "idle") /\ CopyFails(p)
  BY <1>5, MovesOn, Untouched DEF CopyFails, SessionsInv, told
<1>6. CASE Copy(p) /\ ~CopyFails(p)
  <2>1. At(p, "copy") /\ Put(sf(proc[p].m), proc[p].mine) /\ UNCHANGED <<said, seen>>
    BY <1>6 DEF Copy, told
  <2>2. Moves(p, "copyMeta") \/ Moves(p, "unlink") \/ Ends(p)
    BY <1>6 DEF Copy, Copied
  <2> QED
    BY <1>1, <2>1, <2>2, PutMessages, MovesOn, Finishes DEF Sound, At, SessionsInv
<1>7. CASE CopyMeta(p) /\ ~CopyFails(p)
  <2>1. At(p, "copyMeta") /\ Put(mf(proc[p].m), proc[p].title) /\ UNCHANGED <<said, seen>>
    BY <1>7 DEF CopyMeta, told
  <2>2. Moves(p, "unlink") \/ Ends(p)
    BY <1>7 DEF CopyMeta, Copied
  <2> QED
    BY <2>1, <2>2, PutMeta, MovesOn, Finishes DEF At, SessionsInv
<1> QED
  BY <1>2, <1>3, <1>4, <1>5, <1>6, <1>7 DEF Copy, CopyMeta, At

-----------------------------------------------------------------------------
LEMMA InitInv == Init => SessionsInv
<1> SUFFICES ASSUME Init PROVE SessionsInv
  OBVIOUS
<1>1. PICK n \in Names, title \in Titles :
          store = [f \in Files |-> IF f = sf(n) THEN <<1>> ELSE IF f = mf(n) THEN title ELSE Absent]
  BY DEF Init
<1>2. Said /\ said = 1 /\ seen[1] = <<>>
  BY DEF Init, Said
<1>3. <<1>> \in Talks
  <2>1. <<>> \in Talks
    BY <1>2, NothingSaid
  <2>2. 1 \in 1 .. said /\ seen[1] = <<>>
    BY <1>2
  <2>3. Append(<<>>, 1) \in Talks
    BY <1>2, <2>1, <2>2, Answered
  <2> QED
    BY <2>3
<1>4. SoundStore
  <2>1. \A m \in Names : store[sf(m)] \in {<<1>>, Absent}
    BY <1>1, FilesApart
  <2> QED
    BY <1>1, <1>3, <2>1 DEF SoundStore
<1>5. SoundProcs
  BY <1>2, IdleIsSound DEF Init, SoundProcs
<1> QED
  BY <1>2, <1>4, <1>5 DEF SessionsInv

LEMMA StepInv == SessionsInv /\ [Next]_vars => SessionsInv'
<1> SUFFICES ASSUME SessionsInv, [Next]_vars PROVE SessionsInv'
  OBVIOUS
<1>1. ASSUME NEW p \in Requests, Work(p) PROVE SessionsInv'
  BY <1>1, MetaInv, ChatInv, AnswerInv, LocksInv, CutInv, DeleteInv, CreateInv, RenameInv, CopyInv
     DEF Work
<1>2. CASE UNCHANGED vars
  BY <1>2 DEF vars, told, SessionsInv, Said, SoundStore, SoundProcs, Sound, Talks, Follows
<1> QED
  BY <1>1, <1>2, StartInv, CrashInv DEF Next

\* For any number of sessions, requests, turns and operations, with either backend, and
\* whatever races, fails or is killed: no stored conversation shows an answer under a
\* history the model was not given.
THEOREM ConversationsMakeSense == Spec => []Coherent
<1>1. SessionsInv => Coherent
  <2> SUFFICES ASSUME SessionsInv, NEW n \in Names PROVE Follows(Messages(n))
    BY DEF Coherent
  <2> QED
    BY InHand DEF Talks
<1> QED
  BY <1>1, InitInv, StepInv, PTL DEF Spec

-----------------------------------------------------------------------------
(* What a request is made of at each of its stages. *)

Stages(op) ==
    CASE op = "none" -> {"idle"}
      [] op \in {"chat", "new"} -> {"load", "meta", "saveMeta", "model", "save"}
      [] op \in {"label", "summarize"} -> {"check", "meta", "saveMeta"}
      [] op = "cut" -> {"check", "open", "lock", "openMeta", "lockMeta", "load", "cut", "meta",
                        "saveMeta"}
      [] op = "delete" -> {"check", "delete", "deleteMeta"}
      [] op = "init" -> {"check", "reset", "create", "meta", "saveMeta"}
      [] op = "rename" -> {"check", "insert", "move", "moveMeta", "drop"}
      [] op = "sync" -> {"check", "fetch", "open", "lock", "openMeta", "lockMeta", "load", "copy",
                         "copyMeta", "unlink", "unlinkMeta", "cleanup", "insert", "move", "moveMeta", "drop"}
      [] op = "merge" -> {"check", "load", "copy", "copyMeta", "cleanup"}

\* The names a request works with are names.
Named(r) ==
    /\ r.at # "idle" => r.n \in Names
    /\ r.op \in {"rename", "merge"} \/ (r.op = "sync" /\ r.at # "check") => r.m \in Names

\* It waits for a lock where it locks, and holds at most two.
Locks(r) ==
    /\ r.at \in {"lock", "lockMeta"} <=> r.wants # 0
    /\ 0 \notin r.holds
    /\ r.at \in {"check", "fetch", "open", "lock"} => r.holds = {}
    /\ r.at \in {"openMeta", "lockMeta"} => \E a \in Nat : r.holds \subseteq {a}
    /\ \E a, b \in Nat : r.holds \subseteq {a, b}

Shape(r) ==
    /\ r.mine \in Seq(saved)
    /\ r.at = "idle" => r = Idle
    /\ r.at \in Stages(r.op)
    /\ r.at = "unlinkMeta" => r.meta
    /\ Named(r) /\ Locks(r)

Shaped == \A p \in Requests : Shape(proc[p])

\* What is stored has been saved.
Kept == \A n \in Names : store[sf(n)] \in Seq(saved) \union {Absent}
Metas == \A n \in Names : store[mf(n)] \in Titles \union {Absent}

(* An inode is of messages or of metadata. *)
MsgOf(r, i)  == (r.at = "lock" /\ r.wants = i) \/ (r.at \in {"openMeta", "lockMeta"} /\ i \in r.holds)
MetaOf(r, i) == r.at = "lockMeta" /\ r.wants = i
IsMsg(i)  == (\E n \in Names : ino[sf(n)] = i) \/ \E p \in Requests : MsgOf(proc[p], i)
IsMeta(i) == (\E n \in Names : ino[mf(n)] = i) \/ \E p \in Requests : MetaOf(proc[p], i)
Apart == \A i \in Nat \ {0} : ~(IsMsg(i) /\ IsMeta(i))

(* What a request counts on of the sessions only it is at work on. *)
Touched(p) == Touches(proc[p].op, proc[p].n, proc[p].m)
Alone == ~overlap => \A p, q \in Requests : p # q => Touched(p) \cap Touched(q) = {}

\* A request that is about to make the name m of n.
Clear(r) ==
    \/ r.at \in {"insert", "move", "copy"}
    \/ r.op = "sync" /\ r.at \in {"open", "lock", "openMeta", "lockMeta", "load"}
    \/ r.op = "merge" /\ r.at = "load"

\* The stages of a sync from the first lock to the last file.
Copying == {"lock", "openMeta", "lockMeta", "load", "copy", "copyMeta", "unlink", "unlinkMeta"}

Cares(p) ==
    LET r == proc[p]  n == r.n  m == r.m IN
    /\ r.op = "chat" /\ (r.at \in {"model", "save"} \/ (r.at \in {"meta", "saveMeta"} /\ r.turn = 0))
          => r.mine = Messages(n)
    /\ r.at \in {"reset", "create"} => ~Exists(n)
    /\ Clear(r) => Exists(n) /\ ~Exists(m) /\ m # n
    /\ r.at \in {"insert", "copy"} => r.mine = Messages(n)
    /\ r.at \in {"drop", "copyMeta", "unlink", "cleanup"} => m # n
    /\ r.at \in {"drop", "copyMeta", "unlink"} => Messages(m) = Messages(n)
    /\ r.at \in {"copyMeta", "unlink"} => Exists(n)
    /\ r.at = "cleanup" => TurnsOf(Messages(m)) \subseteq TurnsOf(Messages(n))
    /\ r.op = "sync" /\ r.at \in Copying /\ r.meta => store[mf(n)] # Absent

Careful == ~overlap => \A p \in Requests : Cares(p)

IInv == SessionsInv /\ TypeOK /\ Shaped /\ Kept /\ Apart /\ Alone /\ Careful /\ TurnsSurvive

-----------------------------------------------------------------------------
(* What a step changes, a name at a time. *)

\* Only the request p moves.
Others(p) == \A q \in Requests : q # p => proc'[q] = proc[q]

\* It ends, having changed nothing; or it is to remove its copies.
Dies(p) == ~At(p, "idle") /\ Ends(p) /\ UNCHANGED <<db, store, ino, told>>
GivesUp(p) ==
    /\ \/ At(p, "copy") \/ At(p, "copyMeta")
       \/ At(p, "unlink") /\ ~Exists(proc[p].n)
       \/ At(p, "unlinkMeta") /\ store[mf(proc[p].n)] = Absent
    /\ Moves(p, "cleanup") /\ UNCHANGED <<db, store, ino, told>>

\* An inode of messages was one of messages before, or it is the one given.
FromMsgs(i)  == \A x \in Names : ino'[sf(x)] \in {0, i} \/ \E y \in Names : ino'[sf(x)] = ino[sf(y)]
FromMetas(i) == \A x \in Names : ino'[mf(x)] \in {0, i} \/ \E y \in Names : ino'[mf(x)] = ino[mf(y)]
Inodes == ino' \in [Files -> Nat]

LEMMA IdleTyped == Idle \in Proc
BY DEF Idle, Proc, Titles

LEMMA TitleTyped == ASSUME TypeOK, NEW n \in Names PROVE Title(n) \in Titles
BY DEF TypeOK, Title, Titles

LEMMA MessagesTyped ==
    ASSUME TypeOK, NEW n \in Names
    PROVE  /\ Messages(n) \in Seq(Turns)
           /\ \A k \in 0 .. Len(Messages(n)) : SubSeq(Messages(n), 1, k) \in Seq(Turns)
<1>1. Messages(n) \in Seq(Turns)
  BY DEF TypeOK, Messages, Exists
<1> QED
  BY <1>1

LEMMA ImageIsSmall ==
    ASSUME NEW S, IsFiniteSet(S), NEW T, NEW f \in [S -> T]
    PROVE  /\ IsFiniteSet({f[x] : x \in S})
           /\ Cardinality({f[x] : x \in S}) <= Cardinality(S)
<1> DEFINE I == {f[x] : x \in S}
<1>1. f \in Surjection(S, I)
  BY DEF Surjection
<1> HIDE DEF I
<1>2. IsFiniteSet(I) /\ Cardinality(I) <= Cardinality(S)
  BY <1>1, FS_Surjection
<1> QED
  BY <1>2 DEF I

\* There is an inode nothing refers to.
LEMMA FreshOne ==
    ASSUME TypeOK, Shaped
    PROVE  /\ Fresh \in Nat \ {0}
           /\ \A f \in Files : ino[f] # Fresh
           /\ \A p \in Requests : proc[p].wants # Fresh /\ Fresh \notin proc[p].holds
<1> DEFINE a == [p \in Requests |-> CHOOSE i \in Nat : \E j \in Nat : proc[p].holds \subseteq {i, j}]
           b == [p \in Requests |-> CHOOSE j \in Nat : proc[p].holds \subseteq {a[p], j}]
           N == Cardinality(Names)
           R == Cardinality(Requests)
           U1 == {ino[f] : f \in Files}
           w == [p \in Requests |-> proc[p].wants]
           U2 == {w[p] : p \in Requests}
           U3 == {a[p] : p \in Requests}
           U4 == {b[p] : p \in Requests}
           all == 1 .. (2 * N + 3 * R + 1)
           used == U1 \union U2 \union U3 \union U4
<1>1. \A p \in Requests : proc[p].holds \subseteq {a[p], b[p]}
  BY DEF Shaped, Shape, Locks
<1>2. IsFiniteSet(Names) /\ IsFiniteSet(Requests) /\ N \in Nat /\ R \in Nat
  BY SessionsAssumption, FS_CardinalityType
<1>3. IsFiniteSet(Files) /\ Cardinality(Files) = 2 * N
  <2>1. IsFiniteSet({"messages", "meta"}) /\ Cardinality({"messages", "meta"}) = 2
    <3>1. IsFiniteSet({"messages"}) /\ Cardinality({"messages"}) = 1
      BY FS_Singleton
    <3>2. {"messages"} \union {"meta"} = {"messages", "meta"}
      OBVIOUS
    <3> QED
      BY <3>1, <3>2, FS_AddElement
  <2> HIDE DEF N
  <2>2. IsFiniteSet(Files) /\ Cardinality(Files) = N * Cardinality({"messages", "meta"})
    BY <1>2, <2>1, FS_Product DEF Files, N
  <2> QED
    BY <1>2, <2>1, <2>2
<1>4. IsFiniteSet(U1) /\ Cardinality(U1) <= 2 * N
  <2>1. ino \in [Files -> Nat]
    BY DEF TypeOK
  <2> QED
    BY <1>3, <2>1, ImageIsSmall
<1>5. /\ IsFiniteSet(U2) /\ Cardinality(U2) <= R
      /\ IsFiniteSet(U3) /\ Cardinality(U3) <= R
      /\ IsFiniteSet(U4) /\ Cardinality(U4) <= R
  <2>1. \A f : f = [p \in Requests |-> f[p]]
           => /\ IsFiniteSet({f[p] : p \in Requests})
              /\ Cardinality({f[p] : p \in Requests}) <= R
    <3> SUFFICES ASSUME NEW f, f = [p \in Requests |-> f[p]]
                 PROVE  /\ IsFiniteSet({f[p] : p \in Requests})
                        /\ Cardinality({f[p] : p \in Requests}) <= R
      OBVIOUS
    <3>1. f \in [Requests -> {f[p] : p \in Requests}]
      OBVIOUS
    <3> QED
      BY <1>2, <3>1, ImageIsSmall
  <2>2. a = [p \in Requests |-> a[p]] /\ b = [p \in Requests |-> b[p]] /\ w = [p \in Requests |-> w[p]]
    OBVIOUS
  <2> HIDE DEF a, b, w, R
  <2> QED
    BY <2>1, <2>2
<1>6. IsFiniteSet(all) /\ Cardinality(all) = 2 * N + 3 * R + 1
  <2> HIDE DEF N, R
  <2> QED
    BY <1>2, FS_Interval
<1> HIDE DEF U1, U2, U3, U4, all, N, R, a, b
<1>7. IsFiniteSet(used) /\ Cardinality(used) <= 2 * N + 3 * R
  <2>1. \A S, T : IsFiniteSet(S) /\ IsFiniteSet(T)
           => IsFiniteSet(S \union T) /\ Cardinality(S \union T) <= Cardinality(S) + Cardinality(T)
    <3> SUFFICES ASSUME NEW S, NEW T, IsFiniteSet(S), IsFiniteSet(T)
                 PROVE  /\ IsFiniteSet(S \union T)
                        /\ Cardinality(S \union T) <= Cardinality(S) + Cardinality(T)
      OBVIOUS
    <3>1. IsFiniteSet(S \cap T)
      BY FS_Subset
    <3>2. /\ IsFiniteSet(S \union T)
          /\ Cardinality(S \union T) = Cardinality(S) + Cardinality(T) - Cardinality(S \cap T)
      BY FS_Union
    <3>3. Cardinality(S) \in Nat /\ Cardinality(T) \in Nat /\ Cardinality(S \cap T) \in Nat
      BY <3>1, FS_CardinalityType
    <3> QED
      BY <3>2, <3>3
  <2>2. IsFiniteSet(U1 \union U2) /\ Cardinality(U1 \union U2) <= Cardinality(U1) + Cardinality(U2)
    BY <1>4, <1>5, <2>1
  <2>3. /\ IsFiniteSet(U1 \union U2 \union U3)
        /\ Cardinality(U1 \union U2 \union U3) <= Cardinality(U1 \union U2) + Cardinality(U3)
    BY <1>5, <2>1, <2>2
  <2>4. IsFiniteSet(used) /\ Cardinality(used) <= Cardinality(U1 \union U2 \union U3) + Cardinality(U4)
    BY <1>5, <2>1, <2>3
  <2> HIDE DEF used
  <2>5. /\ Cardinality(U1) \in Nat /\ Cardinality(U2) \in Nat /\ Cardinality(U3) \in Nat
        /\ Cardinality(U4) \in Nat /\ Cardinality(U1 \union U2) \in Nat
        /\ Cardinality(U1 \union U2 \union U3) \in Nat /\ Cardinality(used) \in Nat
    BY <1>4, <1>5, <2>2, <2>3, <2>4, FS_CardinalityType
  <2> QED
    BY <1>2, <1>4, <1>5, <2>2, <2>3, <2>4, <2>5
<1>8. PICK i \in all : i \notin used
  <2>1. ~(all \subseteq used)
    <3> HIDE DEF used
    <3>1. Cardinality(used) \in Nat
      BY <1>7, FS_CardinalityType
    <3> QED
      BY <1>2, <1>6, <1>7, <3>1, FS_Subset
  <2> QED
    BY <2>1
<1>9. /\ i \notin {ino[f] : f \in Files}
      /\ \A p \in Requests : i # proc[p].wants /\ i \notin proc[p].holds
  <2>1. \A p \in Requests : i # a[p] /\ i # b[p]
    BY <1>8 DEF U3, U4
  <2> QED
    BY <1>1, <1>8, <2>1 DEF U1, U2, w
<1>10. /\ Fresh \in all
       /\ Fresh \notin {ino[f] : f \in Files}
       /\ \A p \in Requests : Fresh # proc[p].wants /\ Fresh \notin proc[p].holds
  BY <1>8, <1>9 DEF Fresh, all, N, R
<1>11. all \subseteq Nat \ {0}
  BY <1>2 DEF all
<1> QED
  BY <1>10, <1>11

\* save_session_messages and save_session_meta
LEMMA PutsMessages ==
    ASSUME SessionsInv, TypeOK, Shaped, NEW n \in Names, NEW what, Put(sf(n), what)
    PROVE  /\ \A x \in Names : store'[sf(x)] = (IF x = n THEN what ELSE store[sf(x)])
           /\ \A x \in Names : store'[mf(x)] = store[mf(x)]
           /\ FromMsgs(Fresh) /\ FromMetas(0) /\ Inodes
<1>1. DOMAIN store = Files /\ ino \in [Files -> Nat] /\ Fresh \in Nat
  BY FreshOne DEF SessionsInv, SoundStore, TypeOK
<1>2. \A x \in Names : store'[sf(x)] = (IF x = n THEN what ELSE store[sf(x)])
  BY <1>1, FilesApart DEF Put
<1>3. \A x \in Names : store'[mf(x)] = store[mf(x)] /\ ino'[mf(x)] = ino[mf(x)]
  BY <1>1, FilesApart DEF Put
<1>4. \A x \in Names : ino'[sf(x)] \in {0, Fresh} \/ ino'[sf(x)] = ino[sf(x)]
  BY <1>1, FilesApart DEF Put
<1>5. Inodes
  BY <1>1 DEF Put, Inodes
<1> QED
  BY <1>2, <1>3, <1>4, <1>5 DEF FromMsgs, FromMetas

LEMMA PutsMeta ==
    ASSUME SessionsInv, TypeOK, Shaped, NEW n \in Names, NEW what, Put(mf(n), what)
    PROVE  /\ \A x \in Names : store'[sf(x)] = store[sf(x)]
           /\ \A x \in Names : store'[mf(x)] = (IF x = n THEN what ELSE store[mf(x)])
           /\ FromMsgs(0) /\ FromMetas(Fresh) /\ Inodes
<1>1. DOMAIN store = Files /\ ino \in [Files -> Nat] /\ Fresh \in Nat
  BY FreshOne DEF SessionsInv, SoundStore, TypeOK
<1>2. \A x \in Names : store'[mf(x)] = (IF x = n THEN what ELSE store[mf(x)])
  BY <1>1, FilesApart DEF Put
<1>3. \A x \in Names : store'[sf(x)] = store[sf(x)] /\ ino'[sf(x)] = ino[sf(x)]
  BY <1>1, FilesApart DEF Put
<1>4. \A x \in Names : ino'[mf(x)] \in {0, Fresh} \/ ino'[mf(x)] = ino[mf(x)]
  BY <1>1, FilesApart DEF Put
<1>5. Inodes
  BY <1>1 DEF Put, Inodes
<1> QED
  BY <1>2, <1>3, <1>4, <1>5 DEF FromMsgs, FromMetas

LEMMA UnlinksOnly ==
    ASSUME TypeOK, NEW fs, Unlink(fs)
    PROVE  /\ \A x \in Names : store'[sf(x)] = (IF sf(x) \in fs THEN Absent ELSE store[sf(x)])
           /\ \A x \in Names : store'[mf(x)] = (IF mf(x) \in fs THEN Absent ELSE store[mf(x)])
           /\ FromMsgs(0) /\ FromMetas(0) /\ Inodes
<1>1. ino \in [Files -> Nat] /\ \A x \in Names : sf(x) \in Files /\ mf(x) \in Files
  BY FilesApart DEF TypeOK
<1>2. /\ \A x \in Names : store'[sf(x)] = (IF sf(x) \in fs THEN Absent ELSE store[sf(x)])
      /\ \A x \in Names : store'[mf(x)] = (IF mf(x) \in fs THEN Absent ELSE store[mf(x)])
  BY <1>1 DEF Unlink
<1>3. /\ \A x \in Names : ino'[sf(x)] = 0 \/ ino'[sf(x)] = ino[sf(x)]
      /\ \A x \in Names : ino'[mf(x)] = 0 \/ ino'[mf(x)] = ino[mf(x)]
  BY <1>1 DEF Unlink
<1>4. Inodes
  BY <1>1 DEF Unlink, Inodes
<1> QED
  BY <1>2, <1>3, <1>4 DEF FromMsgs, FromMetas

\* os.replace of the messages, and of the metadata
LEMMA ReplacesMessages ==
    ASSUME SessionsInv, TypeOK, NEW n \in Names, NEW m \in Names, NEW p, Exists(n),
           Replace(p, sf(n), sf(m))
    PROVE  /\ \A x \in Names : store'[sf(x)] = (IF x = n THEN Absent ELSE IF x = m THEN store[sf(n)]
                                                ELSE store[sf(x)])
           /\ \A x \in Names : store'[mf(x)] = store[mf(x)]
           /\ FromMsgs(0) /\ FromMetas(0) /\ Inodes
<1>1. /\ DOMAIN store = Files /\ ino \in [Files -> Nat] /\ sf(n) \in Files /\ sf(m) \in Files
      /\ store' = [store EXCEPT ![sf(m)] = store[sf(n)], ![sf(n)] = Absent]
      /\ ino' = [ino EXCEPT ![sf(m)] = ino[sf(n)], ![sf(n)] = 0]
  BY FilesApart DEF SessionsInv, SoundStore, TypeOK, Replace, Exists
<1>2. \A x \in Names : store'[sf(x)] = (IF x = n THEN Absent ELSE IF x = m THEN store[sf(n)]
                                        ELSE store[sf(x)])
  BY <1>1, FilesApart
<1>3. \A x \in Names : store'[mf(x)] = store[mf(x)] /\ ino'[mf(x)] = ino[mf(x)]
  BY <1>1, FilesApart
<1>4. \A x \in Names : ino'[sf(x)] \in {0, ino[sf(n)], ino[sf(x)]}
  BY <1>1, FilesApart
<1>5. Inodes
  BY <1>1 DEF Inodes
<1> QED
  BY <1>2, <1>3, <1>4, <1>5 DEF FromMsgs, FromMetas

LEMMA ReplacesMeta ==
    ASSUME SessionsInv, TypeOK, NEW n \in Names, NEW m \in Names, NEW p, Replace(p, mf(n), mf(m))
    PROVE  /\ \A x \in Names : store'[sf(x)] = store[sf(x)]
           /\ \A x \in Names : store'[mf(x)] \in {store[mf(x)], store[mf(n)], Absent}
           /\ \A x \in Names : x # n /\ store[mf(x)] # Absent => store'[mf(x)] # Absent
           /\ FromMsgs(0) /\ FromMetas(0) /\ Inodes
<1>1. CASE store[mf(n)] = Absent
  <2>1. store' = store /\ ino' = ino
    BY <1>1 DEF Replace
  <2> QED
    BY <2>1 DEF FromMsgs, FromMetas, Inodes, TypeOK
<1>2. CASE store[mf(n)] # Absent
  <2>1. /\ DOMAIN store = Files /\ ino \in [Files -> Nat] /\ mf(n) \in Files /\ mf(m) \in Files
        /\ store' = [store EXCEPT ![mf(m)] = store[mf(n)], ![mf(n)] = Absent]
        /\ ino' = [ino EXCEPT ![mf(m)] = ino[mf(n)], ![mf(n)] = 0]
    BY <1>2, FilesApart DEF SessionsInv, SoundStore, TypeOK, Replace
  <2>2. \A x \in Names : store'[sf(x)] = store[sf(x)] /\ ino'[sf(x)] = ino[sf(x)]
    BY <2>1, FilesApart
  <2>3. \A x \in Names : store'[mf(x)] = (IF x = n THEN Absent ELSE IF x = m THEN store[mf(n)]
                                          ELSE store[mf(x)])
    BY <2>1, FilesApart
  <2>4. \A x \in Names : ino'[mf(x)] \in {0, ino[mf(n)], ino[mf(x)]}
    BY <2>1, FilesApart
  <2>5. Inodes
    BY <2>1 DEF Inodes
  <2> QED
    BY <1>2, <2>2, <2>3, <2>4, <2>5 DEF FromMsgs, FromMetas
<1> QED
  BY <1>1, <1>2

\* open: the file keeps its inode, or gets one.
LEMMA OpensMessages ==
    ASSUME SessionsInv, TypeOK, Shaped, NEW p \in Requests, NEW at, proc[p].n \in Names,
           Opens(p, sf(proc[p].n), at)
    PROVE  \E i \in {Fresh, ino[sf(proc[p].n)]} :
           /\ i \in Nat \ {0} /\ FromMsgs(i) /\ FromMetas(0) /\ Inodes
           /\ Becomes(p, [proc[p] EXCEPT !.at = at, !.wants = i,
                              !.meta = IF At(p, "open") THEN store[mf(proc[p].n)] # Absent ELSE @])
           /\ \A x \in Names : store'[sf(x)] = (IF x = proc[p].n /\ store[sf(x)] = Absent THEN <<>>
                                                ELSE store[sf(x)])
           /\ \A x \in Names : store'[mf(x)] = store[mf(x)]
<1> DEFINE n == proc[p].n  i == IF ino[sf(n)] = 0 THEN Fresh ELSE ino[sf(n)]
<1>1. /\ DOMAIN store = Files /\ ino \in [Files -> Nat] /\ Fresh \in Nat \ {0}
      /\ sf(n) \in Files
  BY FreshOne, FilesApart DEF SessionsInv, SoundStore, TypeOK
<1>2. i \in Nat \ {0} /\ i \in {Fresh, ino[sf(n)]}
  BY <1>1
<1>3. /\ store' = IF store[sf(n)] # Absent THEN store ELSE [store EXCEPT ![sf(n)] = <<>>]
      /\ ino' = [ino EXCEPT ![sf(n)] = i]
  BY DEF Opens
<1>4. Becomes(p, [proc[p] EXCEPT !.at = at, !.wants = i,
                              !.meta = IF At(p, "open") THEN store[mf(proc[p].n)] # Absent ELSE @])
  BY DEF Opens
<1> HIDE DEF i
<1>5. \A x \in Names : store'[sf(x)] = (IF x = n /\ store[sf(x)] = Absent THEN <<>> ELSE store[sf(x)])
  BY <1>1, <1>3, FilesApart
<1>6. \A x \in Names : store'[mf(x)] = store[mf(x)] /\ ino'[mf(x)] = ino[mf(x)]
  BY <1>1, <1>3, FilesApart
<1>7. \A x \in Names : ino'[sf(x)] = i \/ ino'[sf(x)] = ino[sf(x)]
  BY <1>1, <1>3, FilesApart
<1>8. FromMsgs(i) /\ FromMetas(0) /\ Inodes
  <2>1. FromMsgs(i)
    BY <1>7 DEF FromMsgs
  <2>2. FromMetas(0)
    BY <1>6 DEF FromMetas
  <2>3. Inodes
    BY <1>1, <1>2, <1>3 DEF Inodes
  <2> QED
    BY <2>1, <2>2, <2>3
<1> QED
  BY <1>2, <1>4, <1>5, <1>6, <1>8

LEMMA OpensMeta ==
    ASSUME SessionsInv, TypeOK, Shaped, NEW p \in Requests, NEW at, proc[p].n \in Names,
           Opens(p, mf(proc[p].n), at)
    PROVE  \E i \in {Fresh, ino[mf(proc[p].n)]} :
           /\ i \in Nat \ {0} /\ FromMsgs(0) /\ FromMetas(i) /\ Inodes
           /\ Becomes(p, [proc[p] EXCEPT !.at = at, !.wants = i,
                              !.meta = IF At(p, "open") THEN store[mf(proc[p].n)] # Absent ELSE @])
           /\ \A x \in Names : store'[sf(x)] = store[sf(x)]
           /\ \A x \in Names : store'[mf(x)] = (IF x = proc[p].n /\ store[mf(x)] = Absent THEN NoTitle
                                                ELSE store[mf(x)])
<1> DEFINE n == proc[p].n  i == IF ino[mf(n)] = 0 THEN Fresh ELSE ino[mf(n)]
<1>1. /\ DOMAIN store = Files /\ ino \in [Files -> Nat] /\ Fresh \in Nat \ {0}
      /\ mf(n) \in Files /\ mf(n) # sf(n)
  BY FreshOne, FilesApart DEF SessionsInv, SoundStore, TypeOK
<1>2. i \in Nat \ {0} /\ i \in {Fresh, ino[mf(n)]}
  BY <1>1
<1>3. /\ store' = IF store[mf(n)] # Absent THEN store ELSE [store EXCEPT ![mf(n)] = NoTitle]
      /\ ino' = [ino EXCEPT ![mf(n)] = i]
  BY <1>1 DEF Opens
<1>4. Becomes(p, [proc[p] EXCEPT !.at = at, !.wants = i,
                              !.meta = IF At(p, "open") THEN store[mf(proc[p].n)] # Absent ELSE @])
  BY DEF Opens
<1> HIDE DEF i
<1>5. \A x \in Names : store'[mf(x)] = (IF x = n /\ store[mf(x)] = Absent THEN NoTitle ELSE store[mf(x)])
  BY <1>1, <1>3, FilesApart
<1>6. \A x \in Names : store'[sf(x)] = store[sf(x)] /\ ino'[sf(x)] = ino[sf(x)]
  BY <1>1, <1>3, FilesApart
<1>7. \A x \in Names : ino'[mf(x)] = i \/ ino'[mf(x)] = ino[mf(x)]
  BY <1>1, <1>3, FilesApart
<1>8. FromMsgs(0) /\ FromMetas(i) /\ Inodes
  <2>1. FromMetas(i)
    BY <1>7 DEF FromMetas
  <2>2. FromMsgs(0)
    BY <1>6 DEF FromMsgs
  <2>3. Inodes
    BY <1>1, <1>2, <1>3 DEF Inodes
  <2> QED
    BY <2>1, <2>2, <2>3
<1> QED
  BY <1>2, <1>4, <1>5, <1>6, <1>8

\* What most steps leave alone.
Stays(p) ==
    /\ proc'[p].op = proc[p].op /\ proc'[p].n = proc[p].n /\ proc'[p].m = proc[p].m
    /\ proc'[p].turn = proc[p].turn /\ proc'[p].meta = proc[p].meta
    /\ proc'[p].wants = proc[p].wants /\ proc'[p].holds = proc[p].holds
Calm == said' = said /\ saved' = saved /\ dropped' = dropped /\ overlap' = overlap /\ db' = db
Still == store' = store /\ ino' = ino

\* A request that goes on to another stage.
LEMMA AtChanges ==
    ASSUME TypeOK, NEW p \in Requests,
           NEW at \in {"idle", "load", "check", "fetch", "meta", "saveMeta", "model", "save", "open",
                       "lock", "openMeta", "lockMeta", "cut", "delete", "deleteMeta", "reset",
                       "create", "insert", "move", "moveMeta", "drop", "copy", "copyMeta", "unlink",
                       "unlinkMeta", "cleanup"},
           proc'[p] = [proc[p] EXCEPT !.at = at]
    PROVE  proc'[p] \in Proc /\ proc'[p].at = at /\ proc'[p].mine = proc[p].mine /\ Stays(p)
<1>1. proc[p] \in Proc
  BY DEF TypeOK
<1>2. proc'[p] \in Proc
  BY <1>1 DEF Proc
<1> QED
  BY <1>1, <1>2 DEF Proc, Stays

\* A stage belongs to some of the operations.
LEMMA StagesOf ==
    ASSUME NEW op \in OpNames \union {"none"}, NEW at \in Stages(op)
    PROVE  /\ at = "idle" => op = "none"
           /\ at = "check" => op \in OpNames \ {"chat", "new"}
           /\ at = "load" => op \in {"chat", "new", "cut", "sync", "merge"}
           /\ at \in {"meta", "saveMeta"} => op \in {"chat", "new", "label", "summarize", "cut", "init"}
           /\ at \in {"model", "save"} => op \in {"chat", "new"}
           /\ at \in {"open", "lock", "openMeta", "lockMeta"} => op \in {"cut", "sync"}
           /\ at = "cut" => op = "cut"
           /\ at \in {"delete", "deleteMeta"} => op = "delete"
           /\ at \in {"reset", "create"} => op = "init"
           /\ at = "fetch" => op = "sync"
           /\ at \in {"insert", "move", "moveMeta", "drop"} => op \in {"rename", "sync"}
           /\ at \in {"copy", "copyMeta", "cleanup"} => op \in {"sync", "merge"}
           /\ at \in {"unlink", "unlinkMeta"} => op = "sync"
BY DEF Stages, OpNames

LEMMA NamesOf ==
    ASSUME TypeOK, Shaped, NEW p \in Requests
    PROVE  /\ ~At(p, "idle") => proc[p].n \in Names
           /\ proc[p].at \in {"fetch", "insert", "move", "moveMeta", "drop", "copy", "copyMeta",
                              "unlink", "unlinkMeta", "cleanup"} => proc[p].m \in Names
<1>1. proc[p].op \in OpNames \union {"none"} /\ proc[p].at \in Stages(proc[p].op) /\ Named(proc[p])
  BY DEF TypeOK, Proc, Shaped, Shape
<1>2. proc[p].at \in {"fetch", "insert", "move", "moveMeta", "drop", "copy", "copyMeta", "unlink",
                      "unlinkMeta", "cleanup"} => proc[p].op \in {"rename", "sync", "merge"}
  BY <1>1, StagesOf
<1> QED
  BY <1>1, <1>2 DEF Named, At

-----------------------------------------------------------------------------
(* What a step has to leave for the invariant to stand. *)

\* The sessions the request is not at work on keep their messages, and their metadata if any.
Outside(p) ==
    \A x \in Names : x \notin Touched(p) =>
        /\ store'[sf(x)] = store[sf(x)]
        /\ store[mf(x)] # Absent => store'[mf(x)] # Absent

\* A turn stays where it is, or is elsewhere, or has been removed by a user.
Lossless ==
    \A x \in Names : \A t \in TurnsOf(Messages(x)) :
        t \in dropped' \/ \E y \in Names : t \in TurnsOf(Messages(y))'

\* Nobody has the locks the request comes to hold.
LocksFree(p) == \A q \in Requests : q # p => proc'[p].holds \cap proc[q].holds = {}

\* The messages the request comes to lock were messages, or the file has just been made.
LocksMsg(p, i)  == \A j \in Nat \ {0} : MsgOf(proc'[p], j) => IsMsg(j) \/ j = i
LocksMeta(p, i) == \A j \in Nat \ {0} : MetaOf(proc'[p], j) => IsMeta(j) \/ j = i

LEMMA SeqGrows == ASSUME NEW S, NEW T, S \subseteq T, NEW s \in Seq(S) PROVE s \in Seq(T)
<1>1. s \in [1 .. Len(s) -> S] /\ Len(s) \in Nat
  BY SeqDef
<1>2. s \in [1 .. Len(s) -> T]
  BY <1>1
<1> QED
  BY <1>1, <1>2, SeqDef

LEMMA StayApart ==
    ASSUME Apart, NEW p \in Requests, Others(p), NEW a \in Nat, NEW b \in Nat, a = 0 \/ b = 0,
           FromMsgs(a), FromMetas(b), LocksMsg(p, a), LocksMeta(p, b),
           a # 0 => ~IsMeta(a), b # 0 => ~IsMsg(b)
    PROVE  Apart'
<1> SUFFICES ASSUME NEW i \in Nat \ {0}, IsMsg(i)', IsMeta(i)' PROVE FALSE
  BY DEF Apart
<1>1. IsMsg(i) \/ i = a
  <2>1. CASE \E n \in Names : ino'[sf(n)] = i
    BY <2>1 DEF FromMsgs, IsMsg
  <2>2. CASE \E q \in Requests : MsgOf(proc'[q], i)
    BY <2>2 DEF LocksMsg, Others, IsMsg
  <2> QED
    BY <2>1, <2>2 DEF IsMsg, MsgOf
<1>2. IsMeta(i) \/ i = b
  <2>1. CASE \E n \in Names : ino'[mf(n)] = i
    BY <2>1 DEF FromMetas, IsMeta
  <2>2. CASE \E q \in Requests : MetaOf(proc'[q], i)
    BY <2>2 DEF LocksMeta, Others, IsMeta
  <2> QED
    BY <2>1, <2>2 DEF IsMeta, MetaOf
<1>3. ~(IsMsg(i) /\ IsMeta(i))
  BY DEF Apart
<1> QED
  BY <1>1, <1>2, <1>3

\* An inode nothing refers to is of neither kind.
LEMMA FreshIsNeither ==
    ASSUME TypeOK, Shaped PROVE Fresh \in Nat \ {0} /\ ~IsMsg(Fresh) /\ ~IsMeta(Fresh)
<1>1. /\ \A n \in Names : ino[sf(n)] # Fresh /\ ino[mf(n)] # Fresh
      /\ \A p \in Requests : proc[p].wants # Fresh /\ Fresh \notin proc[p].holds
  BY FreshOne, FilesApart
<1> QED
  BY <1>1, FreshOne DEF IsMsg, IsMeta, MsgOf, MetaOf

\* What a request counts on stays so when another, of other sessions, moves.
LEMMA StillCares ==
    ASSUME TypeOK, Shaped, NEW p \in Requests, NEW q \in Requests, q # p, Others(p), Outside(p),
           Touched(p) \cap Touched(q) = {}, Cares(q)
    PROVE  Cares(q)'
<1> DEFINE r == proc[q]  n == r.n  m == r.m
<1>1. proc'[q] = r /\ r \in Proc /\ Shape(r) /\ r.op \in OpNames \union {"none"}
  BY DEF Others, TypeOK, Shaped, Proc
<1>2. CASE r.at = "idle"
  BY <1>1, <1>2 DEF Cares, Shape, Idle, Clear, Copying
<1>3. CASE r.op \in {"new", "label", "summarize", "cut", "delete"}
  <2>1. r.at \notin {"reset", "create", "insert", "move", "copy", "drop", "copyMeta", "unlink",
                     "cleanup"}
    BY <1>1, <1>3, StagesOf DEF Shape
  <2> QED
    BY <1>1, <1>3, <2>1 DEF Cares, Clear
<1>4. CASE r.op \in {"chat", "init", "rename", "sync", "merge"} /\ r.at # "idle"
  <2>1. n \in Names /\ n \notin Touched(p)
    BY <1>1, <1>4 DEF Shape, Named, Touched, Touches, Writers
  <2>2. /\ Messages(n)' = Messages(n) /\ Exists(n)' = Exists(n)
        /\ store[mf(n)] # Absent => store'[mf(n)] # Absent
    BY <1>1, <2>1 DEF Outside, Messages, Exists
  <2>3. CASE r.op \in {"chat", "init"}
    <3>1. r.at \notin {"insert", "move", "copy", "drop", "copyMeta", "unlink", "cleanup"}
      BY <1>1, <2>3, StagesOf DEF Shape
    <3> QED
      BY <1>1, <2>2, <2>3, <3>1 DEF Cares, Clear, Messages, Exists
  <2>4. CASE r.op \in {"rename", "sync", "merge"} /\ m \in Names
    <3>1. m \notin Touched(p)
      BY <1>1, <2>4 DEF Touched, Touches
    <3>2. Messages(m)' = Messages(m) /\ Exists(m)' = Exists(m)
      BY <1>1, <2>4, <3>1 DEF Outside, Messages, Exists
    <3>3. TurnsOf(Messages(m))' = TurnsOf(Messages(m)) /\ TurnsOf(Messages(n))' = TurnsOf(Messages(n))
      BY <2>2, <3>2 DEF TurnsOf
    <3> HIDE DEF r, n, m
    <3> QED
      BY <1>1, <2>2, <2>4, <3>2, <3>3 DEF Cares, Clear, r, n, m
  <2>5. CASE r.op = "sync" /\ r.at = "check"
    BY <1>1, <2>5 DEF Cares, Clear, Copying
  <2> QED
    BY <1>1, <1>4, <2>3, <2>4, <2>5 DEF Shape, Named
<1>5. r.op = "none" => r.at = "idle"
  BY <1>1 DEF Shape, Stages
<1> QED
  BY <1>1, <1>2, <1>3, <1>4, <1>5 DEF OpNames

\* The invariant stands after a step of p ...
LEMMA KeepsAll ==
    ASSUME IInv, SessionsInv', NEW p \in Requests, Others(p), proc' \in [Requests -> Proc], Inodes,
           db' = db, said' \in Turns, saved' \subseteq 1 .. said', saved \subseteq saved',
           dropped' \subseteq saved',
           Shape(proc[p])', Kept', Metas', Apart', LocksFree(p),
           overlap' \in BOOLEAN, ~overlap' => ~overlap, Alone',
           ~overlap' => Cares(p)' /\ Outside(p) /\ NoTurnLost'
    PROVE  IInv'
<1>1. Shaped'
  <2>1. ASSUME NEW q \in Requests, q # p PROVE Shape(proc[q])'
    <3>1. proc'[q] = proc[q] /\ Shape(proc[q])
      BY <2>1 DEF Others, IInv, Shaped
    <3>2. proc[q].mine \in Seq(saved')
      BY <3>1, SeqGrows DEF Shape
    <3> QED
      BY <3>1, <3>2 DEF Shape, Named, Locks
  <2> QED
    BY <2>1 DEF Shaped
<1>2. TypeOK'
  <2>1. \A n \in Names : store'[sf(n)] \in Seq(Turns) \union {Absent}
    <3>1. saved' \subseteq Turns
      BY SessionsAssumption DEF Turns
    <3> QED
      BY <3>1, SeqGrows DEF Kept
  <2>2. \A q \in Requests : proc'[q].at = "idle" => proc'[q] = Idle
    BY <1>1 DEF Shaped, Shape
  <2>3. \A q, u \in Requests : q # u => proc'[q].holds \cap proc'[u].holds = {}
    <3>1. \A q, u \in Requests : q # u => proc[q].holds \cap proc[u].holds = {}
      BY DEF IInv, TypeOK
    <3> QED
      BY <3>1 DEF LocksFree, Others
  <2>4. Len(seen') = said' /\ overlap' \in BOOLEAN /\ db' \in BOOLEAN
    BY DEF SessionsInv, Said, IInv, TypeOK
  <2> QED
    BY <2>1, <2>2, <2>3, <2>4 DEF TypeOK, Metas, Inodes, At
<1>4. Careful'
  <2> SUFFICES ASSUME ~overlap', NEW q \in Requests PROVE Cares(q)'
    BY DEF Careful
  <2>1. CASE q # p
    <3>1. Cares(q) /\ Outside(p) /\ Touched(p) \cap Touched(q) = {}
      BY <2>1 DEF IInv, Careful, Alone
    <3> QED
      BY <2>1, <3>1, StillCares DEF IInv
  <2> QED
    BY <2>1
<1>5. TurnsSurvive'
  BY DEF TurnsSurvive
<1> QED
  BY <1>1, <1>2, <1>4, <1>5 DEF IInv

\* ... that goes on with what it has begun.
LEMMA Keeps ==
    ASSUME IInv, SessionsInv', NEW p \in Requests, Others(p), proc' \in [Requests -> Proc], Inodes,
           db' = db, said' \in Turns, saved' \subseteq 1 .. said', saved \subseteq saved',
           dropped' \subseteq saved',
           Shape(proc[p])', Kept', Metas', Apart', LocksFree(p),
           overlap' = overlap, Touched(p)' \subseteq Touched(p),
           ~overlap => Cares(p)' /\ Outside(p) /\ NoTurnLost'
    PROVE  IInv'
<1>1. Alone'
  <2>1. \A q \in Requests : q # p => Touched(q)' = Touched(q)
    BY DEF Others, Touched
  <2> QED
    BY <2>1 DEF IInv, Alone
<1>2. overlap' \in BOOLEAN /\ (~overlap' => ~overlap)
  BY DEF IInv, TypeOK
<1> QED
  BY <1>1, <1>2, KeepsAll

\* No turn is lost when each stays, or is elsewhere, or has been removed.
LEMMA NoneLost ==
    ASSUME IInv, ~overlap, Lossless, saved' = saved, dropped \subseteq dropped'
    PROVE  NoTurnLost'
<1> SUFFICES ASSUME NEW t \in saved' \ dropped' PROVE \E n \in Names : t \in TurnsOf(Messages(n))'
  BY DEF NoTurnLost
<1>1. PICK x \in Names : t \in TurnsOf(Messages(x))
  BY DEF IInv, TurnsSurvive, NoTurnLost
<1> QED
  BY <1>1 DEF Lossless

\* A step that writes no file.
LEMMA KeepsStill ==
    ASSUME IInv, SessionsInv', NEW p \in Requests, Others(p), proc' \in [Requests -> Proc], Still,
           db' = db, said' \in Turns, said <= said', saved' = saved, dropped' = dropped,
           overlap' = overlap,
           Shape(proc[p])', LocksFree(p), LocksMsg(p, 0), LocksMeta(p, 0),
           Touched(p)' \subseteq Touched(p), ~overlap => Cares(p)'
    PROVE  IInv'
<1>1. SessionsInv /\ TypeOK /\ Apart /\ Kept
  BY DEF IInv
<1>2. Inodes /\ FromMsgs(0) /\ FromMetas(0)
  BY <1>1 DEF Still, Inodes, FromMsgs, FromMetas, TypeOK
<1>3. Kept' /\ Metas'
  BY <1>1 DEF Still, Kept, Metas, TypeOK
<1>4. Apart'
  BY <1>1, <1>2, StayApart
<1>5. Outside(p)
  BY DEF Still, Outside
<1>6. ~overlap => NoTurnLost'
  <2>1. \A n \in Names : Messages(n)' = Messages(n)
    BY DEF Still, Messages, Exists
  <2> QED
    BY <2>1 DEF IInv, TurnsSurvive, NoTurnLost
<1>7. saved' \subseteq 1 .. said' /\ dropped' \subseteq saved'
  BY <1>1 DEF TypeOK, Turns
<1> QED
  BY <1>2, <1>3, <1>4, <1>5, <1>6, <1>7, Keeps

\* What is known of a request before it moves.
LEMMA Atoms ==
    ASSUME IInv, NEW p \in Requests
    PROVE  /\ SessionsInv /\ TypeOK /\ Shaped /\ Kept /\ Apart
           /\ proc[p] \in Proc /\ DOMAIN proc = Requests /\ ino \in [Files -> Nat]
           /\ proc[p].op \in OpNames \union {"none"} /\ proc[p].at \in Stages(proc[p].op)
           /\ Shape(proc[p]) /\ (~overlap => Cares(p))
BY DEF IInv, TypeOK, Proc, Shaped, Shape, Careful

LEMMA StoredAreSaved ==
    ASSUME IInv, NEW n \in Names
    PROVE  /\ Messages(n) \in Seq(saved) /\ TurnsOf(Messages(n)) \subseteq saved
           /\ \A k \in 0 .. Len(Messages(n)) : SubSeq(Messages(n), 1, k) \in Seq(saved)
<1>1. Messages(n) \in Seq(saved)
  BY DEF IInv, Kept, Messages, Exists
<1>2. TurnsOf(Messages(n)) \subseteq saved
  BY <1>1, ElementOfSeq DEF TurnsOf
<1> QED
  BY <1>1, <1>2

LEMMA CalmCounts ==
    ASSUME TypeOK, Calm
    PROVE  /\ said' \in Turns /\ said <= said'
           /\ saved' \subseteq 1 .. said' /\ dropped' \subseteq saved'
           /\ saved' = saved /\ dropped' = dropped /\ overlap' = overlap /\ db' = db
BY DEF TypeOK, Calm, Turns

LEMMA NotAbsent ==
    /\ \A s \in Seq(Turns) : s # Absent
    /\ \A t \in Titles : t # Absent
<1>1. Turns \subseteq Nat
  BY DEF Turns
<1> QED
  BY <1>1, SeqGrows, SessionsAssumption DEF Titles

\* A request that neither waits for a lock nor has its first one comes to hold no other.
LEMMA NoNewLocks ==
    ASSUME TypeOK, NEW p \in Requests, proc'[p].at \notin {"lock", "openMeta", "lockMeta"},
           proc'[p].holds \subseteq proc[p].holds
    PROVE  LocksFree(p) /\ \A i : LocksMsg(p, i) /\ LocksMeta(p, i)
<1>1. LocksFree(p)
  BY DEF TypeOK, LocksFree
<1> QED
  BY <1>1 DEF LocksMsg, LocksMeta, MsgOf, MetaOf

\* A request that ends leaves nothing to hold on to.
LEMMA Ended ==
    ASSUME NEW p \in Requests, proc'[p] = Idle
    PROVE  /\ Shape(proc[p])' /\ Touched(p)' = {} /\ Cares(p)'
           /\ LocksFree(p) /\ \A i : LocksMsg(p, i) /\ LocksMeta(p, i)
<1>1. /\ Idle.op = "none" /\ Idle.at = "idle" /\ Idle.mine = <<>> /\ Idle.wants = 0 /\ Idle.holds = {}
  BY DEF Idle
<1>2. Shape(proc[p])'
  <2>1. Idle.mine \in Seq(saved')
    BY <1>1
  <2> QED
    BY <1>1, <2>1 DEF Shape, Named, Locks, Stages
<1>3. Touched(p)' = {}
  BY <1>1 DEF Touched, Touches, Writers
<1>4. Cares(p)'
  BY <1>1 DEF Cares, Clear, Copying
<1>5. LocksFree(p) /\ \A i : LocksMsg(p, i) /\ LocksMeta(p, i)
  BY <1>1 DEF LocksFree, LocksMsg, LocksMeta, MsgOf, MetaOf
<1> QED
  BY <1>2, <1>3, <1>4, <1>5

\* The files of a request's own sessions are the ones it writes.
LEMMA OwnFiles ==
    ASSUME TypeOK, Shaped, NEW p \in Requests
    PROVE  /\ proc[p].op \in Writers => proc[p].n \in Touched(p)
           /\ proc[p].op \in {"rename", "merge"} => proc[p].m \in Touched(p)
           /\ proc[p].op = "sync" /\ proc[p].m \in Names => proc[p].m \in Touched(p)
<1>1. proc[p].op = "sync" => proc[p].n \in Names
  <2>1. proc[p].op = "sync" => proc[p].at # "idle"
    BY StagesOf DEF Shaped, Shape, TypeOK, Proc
  <2> QED
    BY <2>1 DEF Shaped, Shape, Named
<1> QED
  BY <1>1 DEF Touched, Touches, Writers

\* A request that stays at the work it does is about the same sessions.
LEMMA SameSessions ==
    ASSUME NEW p \in Requests, proc'[p].op = proc[p].op, proc'[p].n = proc[p].n, proc'[p].m = proc[p].m
    PROVE  Touched(p)' = Touched(p)
BY DEF Touched

\* A request begins.
LEMMA StartKeepsStill ==
    ASSUME IInv, SessionsInv', NEW p \in Requests, At(p, "idle"), Others(p),
           proc' \in [Requests -> Proc],
           Still, said' = said, saved' = saved, dropped' = dropped, db' = db,
           Shape(proc[p])', LocksFree(p), \A i : LocksMsg(p, i) /\ LocksMeta(p, i), Cares(p)',
           overlap' = (overlap \/ \E q \in Requests : Touched(p)' \cap Touched(q) # {})
    PROVE  IInv'
<1>1. SessionsInv /\ TypeOK /\ Apart /\ Kept
  BY DEF IInv
<1>2. Inodes /\ FromMsgs(0) /\ FromMetas(0)
  BY <1>1 DEF Still, Inodes, FromMsgs, FromMetas, TypeOK
<1>3. Kept' /\ Metas'
  BY <1>1 DEF Still, Kept, Metas, TypeOK
<1>4. Apart'
  BY <1>1, <1>2, StayApart
<1>5. Outside(p)
  BY DEF Still, Outside
<1>6. ~overlap' => NoTurnLost'
  <2>1. \A n \in Names : Messages(n)' = Messages(n)
    BY DEF Still, Messages, Exists
  <2> QED
    BY <2>1 DEF IInv, TurnsSurvive, NoTurnLost
<1>7. said' \in Turns /\ saved' \subseteq 1 .. said' /\ dropped' \subseteq saved'
  BY <1>1 DEF TypeOK, Turns
<1>8. Alone'
  <2>1. \A q \in Requests : q # p => Touched(q)' = Touched(q)
    BY DEF Others, Touched
  <2> QED
    <3> SUFFICES ASSUME ~overlap', NEW q \in Requests, NEW u \in Requests, q # u
                 PROVE  Touched(q)' \cap Touched(u)' = {}
      BY DEF Alone
    <3>1. CASE q = p
      BY <2>1, <3>1
    <3>2. CASE u = p
      BY <2>1, <3>2
    <3>3. CASE q # p /\ u # p
      BY <2>1, <3>3 DEF IInv, Alone
    <3> QED
      BY <3>1, <3>2, <3>3
<1>9. overlap' \in BOOLEAN /\ (~overlap' => ~overlap)
  BY <1>1 DEF TypeOK
<1> QED
  BY <1>2, <1>3, <1>4, <1>5, <1>6, <1>7, <1>8, <1>9, KeepsAll

LEMMA StartKeeps ==
    ASSUME IInv, SessionsInv', NEW p \in Requests,
           \E op \in OpNames, n \in Names, m \in Titles : Start(p, op, n, m)
    PROVE  IInv'
<1>1. /\ SessionsInv /\ TypeOK /\ Shaped /\ Kept /\ Apart
      /\ proc[p] \in Proc /\ DOMAIN proc = Requests /\ ino \in [Files -> Nat]
      /\ Shape(proc[p]) /\ (~overlap => Cares(p))
  BY Atoms
<1>2. At(p, "idle") /\ said' = said /\ saved' = saved /\ dropped' = dropped /\ db' = db
  BY DEF Start, Ends, Moves, Becomes, At, Does, told, Calm
<1>3. Still
  BY DEF Start, Ends, Moves, Becomes, At, Does, Still
<1>4. PICK op \in OpNames, n \in Names, m \in Titles : Start(p, op, n, m)
  OBVIOUS
<1> DEFINE at == IF op \in {"chat", "new"} THEN "load" ELSE "check"
<1>6. /\ proc'[p] = [Idle EXCEPT !.op = op, !.n = n, !.m = m, !.at = at]
      /\ proc' = [proc EXCEPT ![p] = proc'[p]] /\ Others(p)
      /\ (m \in Names) <=> (op \in {"label", "summarize", "rename", "merge"})
      /\ overlap' = (overlap \/ \E q \in Requests : Touches(op, n, m) \cap Touched(q) # {})
  BY <1>1, <1>4 DEF Start, Becomes, Others, Touched
<1>8. at \in {"load", "check"}
  OBVIOUS
<1> HIDE DEF at
<1>5. proc' \in [Requests -> Proc]
  <2>1. \A r \in Proc : [r EXCEPT !.op = op, !.n = n, !.m = m, !.at = at] \in Proc
    BY <1>8 DEF Proc, Titles
  <2>2. proc'[p] \in Proc
    BY <1>6, <2>1, IdleTyped
  <2> QED
    BY <1>1, <1>6, <2>2 DEF TypeOK
<1>7. /\ proc'[p].op = op /\ proc'[p].at = at /\ proc'[p].n = n /\ proc'[p].m = m
      /\ proc'[p].mine = <<>> /\ proc'[p].wants = 0 /\ proc'[p].holds = {}
  BY <1>6 DEF Idle
<1>9. Shape(proc[p])'
  BY <1>1, <1>2, <1>6, <1>7, <1>8 DEF Shape, Stages, Named, Locks, At, OpNames, at
<1>10. LocksFree(p) /\ \A i : LocksMsg(p, i) /\ LocksMeta(p, i)
  BY <1>1, <1>7, <1>8, NoNewLocks
<1>11. Cares(p)'
  BY <1>6, <1>7, <1>8 DEF Cares, Clear, Copying, OpNames, at
<1> QED
  <2>1. Touched(p)' = Touches(op, n, m)
    BY <1>7 DEF Touched
  <2> QED
    BY <1>1, <1>2, <1>3, <1>5, <1>6, <1>9, <1>10, <1>11, <2>1, StartKeepsStill

LEMMA DiesKeeps ==
    ASSUME IInv, SessionsInv', NEW p \in Requests, Dies(p)
    PROVE  IInv'
<1>1. /\ SessionsInv /\ TypeOK /\ Shaped /\ Kept /\ Apart
      /\ proc[p] \in Proc /\ DOMAIN proc = Requests /\ ino \in [Files -> Nat]
      /\ Shape(proc[p]) /\ (~overlap => Cares(p))
      /\ ~At(p, "idle")
  BY Atoms DEF Dies, At
<1>2. ~At(p, "idle") /\ Calm
  BY DEF Dies, Ends, Moves, Becomes, At, Does, told, Calm
<1>3. Still
  BY DEF Dies, Ends, Moves, Becomes, At, Does, Still
<1>4. proc'[p] = Idle /\ proc' = [proc EXCEPT ![p] = Idle]
  BY <1>1, <1>2 DEF Dies, Ends, Moves, Becomes, At, Does
<1>5. proc' \in [Requests -> Proc] /\ Others(p)
  BY <1>1, <1>4, IdleTyped DEF TypeOK, Others
<1> QED
  BY <1>1, <1>2, <1>3, <1>4, <1>5, Ended, CalmCounts, KeepsStill

LEMMA GivesUpKeeps ==
    ASSUME IInv, SessionsInv', NEW p \in Requests, GivesUp(p)
    PROVE  IInv'
<1>1. /\ SessionsInv /\ TypeOK /\ Shaped /\ Kept /\ Apart
      /\ proc[p] \in Proc /\ DOMAIN proc = Requests /\ ino \in [Files -> Nat]
      /\ Shape(proc[p]) /\ (~overlap => Cares(p))
      /\ ~At(p, "idle") /\ proc[p].n \in Names /\ proc[p].m \in Names
      /\ proc[p].op \in {"sync", "merge"}
  BY Atoms, NamesOf, StagesOf DEF GivesUp, At, Does
<1>2. /\ \/ At(p, "copy") \/ At(p, "copyMeta")
         \/ At(p, "unlink") /\ ~Exists(proc[p].n)
         \/ At(p, "unlinkMeta") /\ store[mf(proc[p].n)] = Absent
      /\ Calm
  BY <1>1 DEF GivesUp, Ends, Moves, Becomes, At, Does, told, Calm
<1>3. Still
  BY DEF GivesUp, Ends, Moves, Becomes, At, Does, Still
<1>4. proc'[p] = [proc[p] EXCEPT !.at = "cleanup"]
  BY <1>1, <1>2 DEF GivesUp, Ends, Moves, Becomes, At, Does
<1>6. Others(p) /\ proc' = [proc EXCEPT ![p] = proc'[p]]
  BY <1>1 DEF GivesUp, Ends, Moves, Becomes, At, Does, Others
<1>7. proc'[p].at = "cleanup" /\ Stays(p) /\ proc'[p].mine = proc[p].mine
  BY <1>1, <1>4 DEF Proc, Stays
<1>5. proc' \in [Requests -> Proc]
  <2>1. proc'[p] \in Proc
    BY <1>1, <1>3, <1>4 DEF Proc
  <2> QED
    BY <1>1, <1>6, <2>1 DEF TypeOK
<1>9. proc'[p].mine \in Seq(saved')
  BY <1>1, <1>2, <1>7 DEF Shape, Calm
<1>10. Shape(proc[p])'
  BY <1>1, <1>2, <1>3, <1>7, <1>9 DEF Shape, Stages, Named, Locks, Stays, At
<1>11. LocksFree(p) /\ \A i : LocksMsg(p, i) /\ LocksMeta(p, i)
  BY <1>1, <1>7, NoNewLocks DEF Stays
<1>12. Touched(p)' \subseteq Touched(p)
  BY <1>7, SameSessions DEF Stays
<1>13. ~overlap => Cares(p)'
  <2> SUFFICES ASSUME ~overlap PROVE Cares(p)'
    OBVIOUS
  <2>1. proc[p].m # proc[p].n /\ TurnsOf(Messages(proc[p].m)) \subseteq TurnsOf(Messages(proc[p].n))
    <3>1. ~At(p, "unlinkMeta")
      BY <1>1, <1>2 DEF Cares, Copying, Shape, Stages, At
    <3>2. CASE At(p, "copy")
      <4>1. Messages(proc[p].m) = <<>> /\ proc[p].m # proc[p].n
        BY <1>1, <3>2 DEF Cares, Clear, Messages, At
      <4>2. TurnsOf(<<>>) = {}
        BY DEF TurnsOf
      <4> QED
        BY <4>1, <4>2
    <3>3. CASE At(p, "copyMeta") \/ At(p, "unlink")
      BY <1>1, <3>3 DEF Cares, At
    <3> QED
      BY <1>2, <3>1, <3>2, <3>3
  <2>2. \A x \in Names : Messages(x)' = Messages(x)
    BY <1>3 DEF Still, Messages, Exists
  <2>3. (proc[p].m # proc[p].n /\ TurnsOf(Messages(proc[p].m)) \subseteq TurnsOf(Messages(proc[p].n)))'
    BY <1>1, <1>3, <1>7, <2>1 DEF Still, Stays, Messages, Exists, TurnsOf
  <2> QED
    BY <1>1, <1>7, <2>3 DEF Stays, Cares, Clear, Copying, At
<1> QED
  BY <1>1, <1>2, <1>3, <1>5, <1>6, <1>10, <1>11, <1>12, <1>13, CalmCounts, KeepsStill

LEMMA ReadMetaKeeps ==
    ASSUME IInv, SessionsInv', NEW p \in Requests, ReadMeta(p), ~Dies(p), ~GivesUp(p)
    PROVE  IInv'
<1>1. /\ SessionsInv /\ TypeOK /\ Shaped /\ Kept /\ Apart
      /\ proc[p] \in Proc /\ DOMAIN proc = Requests /\ ino \in [Files -> Nat]
      /\ Shape(proc[p]) /\ (~overlap => Cares(p))
      /\ ~At(p, "idle") /\ proc[p].n \in Names
      /\ proc[p].op \in {"chat", "new", "label", "summarize", "cut", "init"}
  BY Atoms, NamesOf, StagesOf DEF ReadMeta, At, Does
<1>2. At(p, "meta") /\ Calm
  BY DEF ReadMeta, Ends, Moves, Becomes, At, Does, Dies, GivesUp, told, Calm
<1>3. Still
  BY DEF ReadMeta, Ends, Moves, Becomes, At, Does, Dies, GivesUp, Still
<1> DEFINE title == IF proc[p].m \in Names /\ proc[p].op \in {"label", "summarize"}
                    THEN proc[p].m ELSE Title(proc[p].n)
<1>4. proc'[p] = [proc[p] EXCEPT !.at = "saveMeta", !.title = title]
  BY <1>1, <1>2 DEF ReadMeta, Ends, Moves, Becomes, At, Does, Dies, GivesUp
<1>6. Others(p) /\ proc' = [proc EXCEPT ![p] = proc'[p]]
  BY <1>1 DEF ReadMeta, Ends, Moves, Becomes, At, Does, Dies, GivesUp, Others
<1>8. title \in Titles
  BY <1>1, <1>2, TitleTyped DEF Proc, Titles
<1>7. proc'[p].at = "saveMeta" /\ Stays(p) /\ proc'[p].mine = proc[p].mine
  BY <1>1, <1>4 DEF Proc, Stays
<1> HIDE DEF title
<1>5. proc' \in [Requests -> Proc]
  <2>1. proc'[p] \in Proc
    BY <1>1, <1>3, <1>4, <1>8 DEF Proc
  <2> QED
    BY <1>1, <1>6, <2>1 DEF TypeOK
<1>9. proc'[p].mine \in Seq(saved')
  BY <1>1, <1>2, <1>7 DEF Shape, Calm
<1>10. Shape(proc[p])'
  BY <1>1, <1>2, <1>3, <1>7, <1>9 DEF Shape, Stages, Named, Locks, Stays, At
<1>11. LocksFree(p) /\ \A i : LocksMsg(p, i) /\ LocksMeta(p, i)
  BY <1>1, <1>7, NoNewLocks DEF Stays
<1>12. Touched(p)' \subseteq Touched(p)
  BY <1>7, SameSessions DEF Stays
<1>13. ~overlap => Cares(p)'
  BY <1>1, <1>2, <1>3, <1>7 DEF Still, Stays, Cares, Clear, Copying, Messages, Exists, TurnsOf, At
<1> QED
  BY <1>1, <1>2, <1>3, <1>5, <1>6, <1>10, <1>11, <1>12, <1>13, CalmCounts, KeepsStill

LEMMA WriteMetaKeeps ==
    ASSUME IInv, SessionsInv', NEW p \in Requests, WriteMeta(p), ~Dies(p), ~GivesUp(p)
    PROVE  IInv'
<1>1. /\ SessionsInv /\ TypeOK /\ Shaped /\ Kept /\ Apart
      /\ proc[p] \in Proc /\ DOMAIN proc = Requests /\ ino \in [Files -> Nat]
      /\ Shape(proc[p]) /\ (~overlap => Cares(p))
      /\ ~At(p, "idle") /\ proc[p].n \in Names
      /\ proc[p].op \in {"chat", "new", "label", "summarize", "cut", "init"}
  <2>1. At(p, "saveMeta")
    BY DEF WriteMeta
  <2> QED
    BY <2>1, Atoms, NamesOf, StagesOf DEF At
<1>2. At(p, "saveMeta") /\ Calm
  BY DEF WriteMeta, Ends, Moves, Becomes, At, Does, Chats, NotWritten, Dies, GivesUp, told, Calm
<1>3. /\ \A x \in Names : store'[sf(x)] = store[sf(x)]
      /\ \A x \in Names : store'[mf(x)] = (IF x = proc[p].n THEN proc[p].title ELSE store[mf(x)])
      /\ FromMsgs(0) /\ FromMetas(Fresh) /\ Inodes
  <2>1. Put(mf(proc[p].n), proc[p].title)
    BY <1>2 DEF WriteMeta, Ends, Moves, Becomes, At, Does, Chats, NotWritten, Dies, GivesUp
  <2> QED
    BY <1>1, <2>1, PutsMeta
<1>4. \/ proc'[p] = Idle
      \/ /\ proc[p].op \in {"chat", "new"} /\ proc[p].turn = 0
         /\ proc'[p] = [proc[p] EXCEPT !.at = "model"]
      \/ /\ proc[p].op \in {"chat", "new"}
         /\ \E m \in Names :
                proc'[p] = [Idle EXCEPT !.op = "summarize", !.n = proc[p].n, !.m = m, !.at = "check"]
  BY <1>1, <1>2 DEF WriteMeta, Ends, Moves, Becomes, At, Does, Chats, NotWritten, Dies, GivesUp
<1>6. Others(p) /\ proc' = [proc EXCEPT ![p] = proc'[p]]
  BY <1>1 DEF WriteMeta, Ends, Moves, Becomes, At, Does, Chats, NotWritten, Dies, GivesUp, Others
<1>8. proc'[p] \in Proc
  <2>1. [proc[p] EXCEPT !.at = "model"] \in Proc
    BY <1>1 DEF Proc
  <2>2. \A m \in Names :
           [Idle EXCEPT !.op = "summarize", !.n = proc[p].n, !.m = m, !.at = "check"] \in Proc
    BY <1>1, IdleTyped DEF Proc, Titles, OpNames
  <2> QED
    BY <1>4, <2>1, <2>2, IdleTyped
<1>5. proc' \in [Requests -> Proc]
  BY <1>1, <1>6, <1>8 DEF TypeOK
<1>9. saved' = saved
  BY <1>2 DEF Calm
<1>10. /\ Shape(proc[p])' /\ LocksFree(p) /\ (\A i : LocksMsg(p, i) /\ LocksMeta(p, i))
       /\ Touched(p)' \subseteq Touched(p) /\ (~overlap => Cares(p)')
  <2>1. CASE proc'[p] = Idle
    BY <2>1, Ended
  <2>2. CASE /\ proc[p].op \in {"chat", "new"} /\ proc[p].turn = 0
             /\ proc'[p] = [proc[p] EXCEPT !.at = "model"]
    <3>1. proc'[p].at = "model" /\ proc'[p].mine = proc[p].mine /\ Stays(p)
      BY <1>1, <2>2 DEF Proc, Stays
    <3>2. Shape(proc[p])'
      BY <1>1, <1>2, <1>9, <2>2, <3>1 DEF Shape, Stages, Named, Locks, Stays, At
    <3>3. LocksFree(p) /\ \A i : LocksMsg(p, i) /\ LocksMeta(p, i)
      BY <1>1, <3>1, NoNewLocks DEF Stays
    <3>4. Touched(p)' \subseteq Touched(p)
      BY <3>1, SameSessions DEF Stays
    <3>5. ~overlap => Cares(p)'
      BY <1>1, <1>2, <1>3, <2>2, <3>1 DEF Stays, Cares, Clear, Copying, Messages, Exists, TurnsOf, At
    <3> QED
      BY <3>2, <3>3, <3>4, <3>5
  <2>3. ASSUME NEW m \in Names,

                proc'[p] = [Idle EXCEPT !.op = "summarize", !.n = proc[p].n, !.m = m, !.at = "check"]
        PROVE  /\ Shape(proc[p])' /\ LocksFree(p) /\ (\A i : LocksMsg(p, i) /\ LocksMeta(p, i))
               /\ Touched(p)' \subseteq Touched(p) /\ (~overlap => Cares(p)')
    <3>1. /\ proc'[p].op = "summarize" /\ proc'[p].at = "check"
          /\ proc'[p].n = proc[p].n /\ proc'[p].m = m
          /\ proc'[p].mine = <<>> /\ proc'[p].wants = 0 /\ proc'[p].holds = {}
      BY <2>3 DEF Idle
    <3>2. Shape(proc[p])'
      BY <1>1, <3>1 DEF Shape, Stages, Named, Locks
    <3>3. LocksFree(p) /\ \A i : LocksMsg(p, i) /\ LocksMeta(p, i)
      BY <1>1, <3>1, NoNewLocks
    <3>4. Touched(p)' = {}
      BY <3>1 DEF Touched, Touches, Writers
    <3>5. Cares(p)'
      BY <3>1 DEF Cares, Clear
    <3> QED
      BY <3>2, <3>3, <3>4, <3>5
  <2> QED
    BY <1>4, <2>1, <2>2, <2>3
<1>13. /\ said' \in Turns /\ saved' \subseteq 1 .. said'
       /\ saved \subseteq saved' /\ dropped' \subseteq saved'
       /\ overlap' = overlap /\ db' = db
  BY <1>1, <1>2, CalmCounts
<1>14. Kept' /\ Metas'
  <2>1. Kept'
    BY <1>1, <1>2, <1>3 DEF Kept, Shape, Calm
  <2>2. Metas'
    BY <1>1, <1>3 DEF TypeOK, Metas, Proc, Titles
  <2> QED
    BY <2>1, <2>2
<1>15. Apart'
  BY <1>1, <1>3, <1>6, <1>10, StayApart, FreshIsNeither
<1>16. Outside(p)
  BY <1>1, <1>2, <1>3, OwnFiles, SessionsAssumption DEF Outside, Writers, Proc, Titles
<1>17. ~overlap => NoTurnLost'
  <2>1. \A x \in Names : Messages(x)' = Messages(x)
    BY <1>3 DEF Messages, Exists
  <2> QED
    BY <1>2, <2>1, NoneLost DEF Calm, Lossless
<1> QED
  BY <1>3, <1>5, <1>6, <1>10, <1>13, <1>14, <1>15, <1>16, <1>17, Keeps

LEMMA LabelKeeps ==
    ASSUME IInv, SessionsInv', NEW p \in Requests, Label(p), ~Dies(p), ~GivesUp(p)
    PROVE  IInv'
<1>1. /\ SessionsInv /\ TypeOK /\ Shaped /\ Kept /\ Apart
      /\ proc[p] \in Proc /\ DOMAIN proc = Requests /\ ino \in [Files -> Nat]
      /\ Shape(proc[p]) /\ (~overlap => Cares(p))
      /\ ~At(p, "idle") /\ proc[p].n \in Names
      /\ proc[p].op \in {"label", "summarize"}
  BY Atoms, NamesOf, StagesOf DEF Label, At, Does, Chats, OpNames, Shape, Named
<1>2. At(p, "check") /\ proc[p].op \in {"label", "summarize"} /\ Calm
  BY DEF Label, Ends, Moves, Becomes, At, Does, Dies, GivesUp, told, Calm
<1>3. Still
  BY DEF Label, Ends, Moves, Becomes, At, Does, Dies, GivesUp, Still
<1>4. proc'[p] = [proc[p] EXCEPT !.at = "meta"]
  BY <1>1, <1>2 DEF Label, Ends, Moves, Becomes, At, Does, Dies, GivesUp
<1>6. Others(p) /\ proc' = [proc EXCEPT ![p] = proc'[p]]
  BY <1>1 DEF Label, Ends, Moves, Becomes, At, Does, Dies, GivesUp, Others
<1>7. proc'[p].at = "meta" /\ Stays(p) /\ proc'[p].mine = proc[p].mine
  BY <1>1, <1>4 DEF Proc, Stays
<1>5. proc' \in [Requests -> Proc]
  <2>1. proc'[p] \in Proc
    BY <1>1, <1>3, <1>4 DEF Proc
  <2> QED
    BY <1>1, <1>6, <2>1 DEF TypeOK
<1>9. proc'[p].mine \in Seq(saved')
  BY <1>1, <1>2, <1>7 DEF Shape, Calm
<1>10. Shape(proc[p])'
  BY <1>1, <1>2, <1>3, <1>7, <1>9 DEF Shape, Stages, Named, Locks, Stays, At
<1>11. LocksFree(p) /\ \A i : LocksMsg(p, i) /\ LocksMeta(p, i)
  BY <1>1, <1>7, NoNewLocks DEF Stays
<1>12. Touched(p)' \subseteq Touched(p)
  BY <1>7, SameSessions DEF Stays
<1>13. ~overlap => Cares(p)'
  BY <1>1, <1>2, <1>3, <1>7 DEF Still, Stays, Cares, Clear, Copying, Messages, Exists, TurnsOf, At
<1> QED
  BY <1>1, <1>2, <1>3, <1>5, <1>6, <1>10, <1>11, <1>12, <1>13, CalmCounts, KeepsStill

LEMMA ChatLoadKeeps ==
    ASSUME IInv, SessionsInv', NEW p \in Requests, ChatLoad(p), ~Dies(p), ~GivesUp(p)
    PROVE  IInv'
<1>1. /\ SessionsInv /\ TypeOK /\ Shaped /\ Kept /\ Apart
      /\ proc[p] \in Proc /\ DOMAIN proc = Requests /\ ino \in [Files -> Nat]
      /\ Shape(proc[p]) /\ (~overlap => Cares(p))
      /\ ~At(p, "idle") /\ proc[p].n \in Names
      /\ proc[p].op \in {"chat", "new"}
  BY Atoms, NamesOf, StagesOf DEF ChatLoad, At, Does, Chats, OpNames, Shape, Named
<1>2. At(p, "load") /\ proc[p].op \in {"chat", "new"} /\ Calm
  BY DEF ChatLoad, Ends, Moves, Becomes, At, Does, Chats, Dies, GivesUp, told, Calm
<1>3. Still
  BY DEF ChatLoad, Ends, Moves, Becomes, At, Does, Chats, Dies, GivesUp, Still
<1> DEFINE mine == IF proc[p].op = "new" THEN <<>> ELSE Messages(proc[p].n)
<1>4. proc'[p] = [proc[p] EXCEPT !.at = "meta", !.mine = mine]
  BY <1>1, <1>2 DEF ChatLoad, Ends, Moves, Becomes, At, Does, Chats, Dies, GivesUp
<1>6. Others(p) /\ proc' = [proc EXCEPT ![p] = proc'[p]]
  BY <1>1 DEF ChatLoad, Ends, Moves, Becomes, At, Does, Chats, Dies, GivesUp, Others
<1>8. mine \in Seq(Turns)
  BY <1>1, <1>2, MessagesTyped DEF Proc, Titles
<1>7. /\ proc'[p].at = "meta" /\ Stays(p)
      /\ proc'[p].mine = (IF proc[p].op = "new" THEN <<>> ELSE Messages(proc[p].n))
  BY <1>1, <1>4 DEF Proc, Stays
<1> HIDE DEF mine
<1>5. proc' \in [Requests -> Proc]
  <2>1. proc'[p] \in Proc
    BY <1>1, <1>3, <1>4, <1>8 DEF Proc
  <2> QED
    BY <1>1, <1>6, <2>1 DEF TypeOK
<1>9. proc'[p].mine \in Seq(saved')
  BY <1>1, <1>2, <1>7, StoredAreSaved DEF Calm
<1>10. Shape(proc[p])'
  BY <1>1, <1>2, <1>3, <1>7, <1>9 DEF Shape, Stages, Named, Locks, Stays, At
<1>11. LocksFree(p) /\ \A i : LocksMsg(p, i) /\ LocksMeta(p, i)
  BY <1>1, <1>7, NoNewLocks DEF Stays
<1>12. Touched(p)' \subseteq Touched(p)
  BY <1>7, SameSessions DEF Stays
<1>13. ~overlap => Cares(p)'
  BY <1>1, <1>2, <1>3, <1>7 DEF Still, Stays, Cares, Clear, Copying, Messages, Exists, TurnsOf, At
<1> QED
  BY <1>1, <1>2, <1>3, <1>5, <1>6, <1>10, <1>11, <1>12, <1>13, CalmCounts, KeepsStill

LEMMA AnswerKeeps ==
    ASSUME IInv, SessionsInv', NEW p \in Requests, Answer(p), ~Dies(p), ~GivesUp(p)
    PROVE  IInv'
<1>1. /\ SessionsInv /\ TypeOK /\ Shaped /\ Kept /\ Apart
      /\ proc[p] \in Proc /\ DOMAIN proc = Requests /\ ino \in [Files -> Nat]
      /\ Shape(proc[p]) /\ (~overlap => Cares(p))
      /\ ~At(p, "idle") /\ proc[p].n \in Names
      /\ proc[p].op \in {"chat", "new"}
  BY Atoms, NamesOf, StagesOf DEF Answer, At, Does
<1>2. /\ At(p, "model") /\ said < MaxTurns /\ said' = said + 1 /\ saved' = saved
      /\ dropped' = dropped /\ overlap' = overlap /\ db' = db
  BY DEF Answer, Ends, Moves, Becomes, At, Does, Dies, GivesUp, told, Calm
<1>3. Still
  BY DEF Answer, Ends, Moves, Becomes, At, Does, Dies, GivesUp, Still
<1>4. proc'[p] = [proc[p] EXCEPT !.at = "save", !.turn = said + 1]
  BY <1>1, <1>2 DEF Answer, Ends, Moves, Becomes, At, Does, Dies, GivesUp
<1>6. Others(p) /\ proc' = [proc EXCEPT ![p] = proc'[p]]
  BY <1>1 DEF Answer, Ends, Moves, Becomes, At, Does, Dies, GivesUp, Others
<1>8. said + 1 \in Turns
  BY <1>1, <1>2, SessionsAssumption DEF TypeOK, Turns
<1>7. /\ proc'[p].at = "save" /\ proc'[p].op = proc[p].op /\ proc'[p].n = proc[p].n
      /\ proc'[p].m = proc[p].m /\ proc'[p].mine = proc[p].mine /\ proc'[p].turn = said + 1
      /\ proc'[p].meta = proc[p].meta /\ proc'[p].wants = proc[p].wants
      /\ proc'[p].holds = proc[p].holds
  BY <1>1, <1>4 DEF Proc, Stays
<1>5. proc' \in [Requests -> Proc]
  <2>1. proc'[p] \in Proc
    BY <1>1, <1>3, <1>4, <1>8 DEF Proc
  <2> QED
    BY <1>1, <1>6, <2>1 DEF TypeOK
<1>9. proc'[p].mine \in Seq(saved')
  BY <1>1, <1>2, <1>7 DEF Shape, Calm
<1>10. Shape(proc[p])'
  BY <1>1, <1>2, <1>3, <1>7, <1>9 DEF Shape, Stages, Named, Locks, Stays, At
<1>11. LocksFree(p) /\ \A i : LocksMsg(p, i) /\ LocksMeta(p, i)
  BY <1>1, <1>7, NoNewLocks DEF Stays
<1>12. Touched(p)' \subseteq Touched(p)
  BY <1>7, SameSessions DEF Stays
<1>13. ~overlap => Cares(p)'
  BY <1>1, <1>2, <1>3, <1>7 DEF Still, Stays, Cares, Clear, Copying, Messages, Exists, TurnsOf, At
<1>14. /\ said' \in Turns /\ said <= said' /\ saved' = saved /\ dropped' = dropped
       /\ overlap' = overlap /\ db' = db
  BY <1>1, <1>2, <1>8 DEF TypeOK, Turns
<1> QED
  BY <1>3, <1>5, <1>6, <1>10, <1>11, <1>12, <1>13, <1>14, KeepsStill

LEMMA ChatSaveKeeps ==
    ASSUME IInv, SessionsInv', NEW p \in Requests, ChatSave(p), ~Dies(p), ~GivesUp(p)
    PROVE  IInv'
<1>1. /\ SessionsInv /\ TypeOK /\ Shaped /\ Kept /\ Apart
      /\ proc[p] \in Proc /\ DOMAIN proc = Requests /\ ino \in [Files -> Nat]
      /\ Shape(proc[p]) /\ (~overlap => Cares(p))
      /\ ~At(p, "idle") /\ proc[p].n \in Names
      /\ proc[p].op \in {"chat", "new"}
  BY Atoms, NamesOf, StagesOf DEF ChatSave, At, Does
<1>2. /\ At(p, "save") /\ said' = said /\ saved' = saved \union {proc[p].turn}
      /\ dropped' = dropped \union (IF proc[p].op = "new" THEN TurnsOf(Messages(proc[p].n)) ELSE {})
      /\ overlap' = overlap /\ db' = db
  BY DEF ChatSave, Ends, Moves, Becomes, At, Does, NotWritten, Dies, GivesUp, told, Calm
<1>3. /\ \A x \in Names :
            store'[sf(x)] = (IF x = proc[p].n THEN Append(proc[p].mine, proc[p].turn) ELSE store[sf(x)])
      /\ \A x \in Names : store'[mf(x)] = store[mf(x)]
      /\ FromMsgs(Fresh) /\ FromMetas(0) /\ Inodes
  <2>1. Put(sf(proc[p].n), Append(proc[p].mine, proc[p].turn))
    BY <1>2 DEF ChatSave, Ends, Moves, Becomes, At, Does, NotWritten, Dies, GivesUp
  <2> QED
    BY <1>1, <2>1, PutsMessages
<1>4. proc'[p] = [proc[p] EXCEPT !.at = "meta"]
  BY <1>1, <1>2 DEF ChatSave, Ends, Moves, Becomes, At, Does, NotWritten, Dies, GivesUp
<1>6. Others(p) /\ proc' = [proc EXCEPT ![p] = proc'[p]]
  BY <1>1 DEF ChatSave, Ends, Moves, Becomes, At, Does, NotWritten, Dies, GivesUp, Others
<1>7. proc'[p].at = "meta" /\ Stays(p) /\ proc'[p].mine = proc[p].mine
  BY <1>1, <1>4 DEF Proc, Stays
<1>5. proc' \in [Requests -> Proc]
  <2>1. proc'[p] \in Proc
    BY <1>1, <1>3, <1>4 DEF Proc
  <2> QED
    BY <1>1, <1>6, <2>1 DEF TypeOK
<1>9. proc'[p].mine \in Seq(saved')
  BY <1>1, <1>2, <1>7, SeqGrows DEF Shape
<1>10. Shape(proc[p])'
  BY <1>1, <1>2, <1>3, <1>7, <1>9 DEF Shape, Stages, Named, Locks, Stays, At
<1>11. LocksFree(p) /\ \A i : LocksMsg(p, i) /\ LocksMeta(p, i)
  BY <1>1, <1>7, NoNewLocks DEF Stays
<1>12. Touched(p)' \subseteq Touched(p)
  BY <1>7, SameSessions DEF Stays
<1>13. /\ said' \in Turns /\ saved' \subseteq 1 .. said'
       /\ saved \subseteq saved' /\ dropped' \subseteq saved'
       /\ overlap' = overlap /\ db' = db
  <2>1. proc[p].turn \in 1 .. said
    BY <1>1, <1>2 DEF SessionsInv, SoundProcs, Sound, At
  <2>2. TurnsOf(Messages(proc[p].n)) \subseteq saved
    BY <1>1, StoredAreSaved
  <2> QED
    BY <1>1, <1>2, <2>1, <2>2 DEF TypeOK
<1>14. Kept' /\ Metas'
  <2>1. Append(proc[p].mine, proc[p].turn) \in Seq(saved')
    <3>1. proc[p].mine \in Seq(saved') /\ proc[p].turn \in saved'
      BY <1>2, <1>7, <1>9
    <3> QED
      BY <3>1
  <2>2. \A x \in Names : store[sf(x)] \in Seq(saved') \union {Absent}
    BY <1>2, SeqGrows DEF IInv, Kept
  <2>3. Kept'
    BY <1>3, <2>1, <2>2 DEF Kept
  <2>4. Metas'
    BY <1>1, <1>3 DEF TypeOK, Metas
  <2> QED
    BY <2>3, <2>4
<1>15. Apart'
  BY <1>1, <1>3, <1>6, <1>11, StayApart, FreshIsNeither
<1>16. Outside(p)
  BY <1>1, <1>2, <1>3, OwnFiles DEF Outside, Writers
<1>17. ~overlap => NoTurnLost'
  <2>1. TurnsOf(proc[p].mine) \subseteq TurnsOf(Append(proc[p].mine, proc[p].turn))
    BY <1>1 DEF TurnsOf, Proc
  <2>2. ~overlap /\ proc[p].op = "chat" => proc[p].mine = Messages(proc[p].n)
    BY <1>1, <1>2 DEF Cares, At
  <2>3. \A x \in Names : x = proc[p].n => Messages(x)' = Append(proc[p].mine, proc[p].turn)
    <3>1. proc[p].turn \in Turns
      <4>1. proc[p].turn \in 1 .. said
        BY <1>1, <1>2 DEF SessionsInv, SoundProcs, Sound, At
      <4>2. said \in Turns
        BY <1>1 DEF TypeOK
      <4> QED
        BY <4>1, <4>2, SessionsAssumption DEF Turns
    <3>2. Append(proc[p].mine, proc[p].turn) \in Seq(Turns)
      BY <1>1, <3>1 DEF Proc
    <3> QED
      BY <1>3, <3>2, NotAbsent DEF Messages, Exists
  <2>4. \A x \in Names : x # proc[p].n => Messages(x)' = Messages(x)
    BY <1>3 DEF Messages, Exists
  <2>5. \A x \in Names : x = proc[p].n => proc[p].turn \in TurnsOf(Messages(x))'
    <3> DEFINE s == Append(proc[p].mine, proc[p].turn)
    <3>1. proc[p].turn \in TurnsOf(s)
      <4>1. proc[p].mine \in Seq(Turns)
        BY <1>1 DEF Proc
      <4>2. Len(proc[p].mine) + 1 \in DOMAIN s /\ s[Len(proc[p].mine) + 1] = proc[p].turn
        BY <4>1
      <4> QED
        BY <4>2 DEF TurnsOf
    <3> QED
      BY <2>3, <3>1 DEF TurnsOf
  <2> SUFFICES ASSUME ~overlap, NEW t \in saved' \ dropped'
               PROVE  \E n \in Names : t \in TurnsOf(Messages(n))'
    BY DEF NoTurnLost
  <2>6. CASE t = proc[p].turn
    BY <1>1, <2>5, <2>6
  <2>7. CASE t # proc[p].turn
    <3>1. t \in saved \ dropped
      BY <1>2, <2>7
    <3>2. PICK x \in Names : t \in TurnsOf(Messages(x))
      BY <3>1 DEF IInv, TurnsSurvive, NoTurnLost
    <3>3. CASE x # proc[p].n
      BY <2>4, <3>2, <3>3 DEF TurnsOf
    <3>4. CASE x = proc[p].n
      <4>1. proc[p].op = "chat"
        BY <1>1, <1>2, <3>2, <3>4
      <4> QED
        BY <1>1, <2>1, <2>2, <2>3, <3>2, <3>4, <4>1 DEF TurnsOf
    <3> QED
      BY <3>3, <3>4
  <2> QED
    BY <2>6, <2>7
<1>19. proc[p].turn # 0
  BY <1>1, <1>2 DEF SessionsInv, SoundProcs, Sound, Said, At
<1>18. ~overlap => Cares(p)'
  BY <1>1, <1>2, <1>3, <1>7, <1>19 DEF Stays, Cares, Clear, Copying, Messages, Exists, TurnsOf, At
<1> QED
  BY <1>3, <1>5, <1>6, <1>10, <1>11, <1>12, <1>13, <1>14, <1>15, <1>16, <1>17, <1>18, Keeps

LEMMA CutLoadKeeps ==
    ASSUME IInv, SessionsInv', NEW p \in Requests, CutLoad(p), ~Dies(p), ~GivesUp(p)
    PROVE  IInv'
<1>1. /\ SessionsInv /\ TypeOK /\ Shaped /\ Kept /\ Apart
      /\ proc[p] \in Proc /\ DOMAIN proc = Requests /\ ino \in [Files -> Nat]
      /\ Shape(proc[p]) /\ (~overlap => Cares(p))
      /\ ~At(p, "idle") /\ proc[p].n \in Names
      /\ proc[p].op \in {"cut"}
  BY Atoms, NamesOf, StagesOf DEF CutLoad, At, Does
<1>2. At(p, "load") /\ proc[p].op = "cut" /\ Calm
  BY DEF CutLoad, Ends, Moves, Becomes, At, Does, Dies, GivesUp, told, Calm
<1>3. Still
  BY DEF CutLoad, Ends, Moves, Becomes, At, Does, Dies, GivesUp, Still
<1>4. PICK k \in 0 .. Len(Messages(proc[p].n)) :
          proc'[p] = [proc[p] EXCEPT !.at = "cut", !.mine = SubSeq(Messages(proc[p].n), 1, k)]
  BY <1>1, <1>2 DEF CutLoad, Ends, Moves, Becomes, At, Does, Dies, GivesUp
<1>6. Others(p) /\ proc' = [proc EXCEPT ![p] = proc'[p]]
  BY <1>1 DEF CutLoad, Ends, Moves, Becomes, At, Does, Dies, GivesUp, Others
<1>8. SubSeq(Messages(proc[p].n), 1, k) \in Seq(Turns)
  BY <1>1, <1>2, MessagesTyped DEF Proc, Titles
<1>7. proc'[p].at = "cut" /\ Stays(p) /\ proc'[p].mine = SubSeq(Messages(proc[p].n), 1, k)
  BY <1>1, <1>4 DEF Proc, Stays
<1>5. proc' \in [Requests -> Proc]
  <2>1. proc'[p] \in Proc
    BY <1>1, <1>3, <1>4, <1>8 DEF Proc
  <2> QED
    BY <1>1, <1>6, <2>1 DEF TypeOK
<1>9. proc'[p].mine \in Seq(saved')
  BY <1>1, <1>2, <1>7, StoredAreSaved DEF Calm
<1>10. Shape(proc[p])'
  BY <1>1, <1>2, <1>3, <1>7, <1>9 DEF Shape, Stages, Named, Locks, Stays, At
<1>11. LocksFree(p) /\ \A i : LocksMsg(p, i) /\ LocksMeta(p, i)
  BY <1>1, <1>7, NoNewLocks DEF Stays
<1>12. Touched(p)' \subseteq Touched(p)
  BY <1>7, SameSessions DEF Stays
<1>13. ~overlap => Cares(p)'
  BY <1>1, <1>2, <1>3, <1>4, <1>7 DEF Still, Stays, Cares, Clear, Copying, Messages, Exists, TurnsOf, At
<1> QED
  BY <1>1, <1>2, <1>3, <1>5, <1>6, <1>10, <1>11, <1>12, <1>13, CalmCounts, KeepsStill

LEMMA CutCheckKeeps ==
    ASSUME IInv, SessionsInv', NEW p \in Requests, CutCheck(p), ~Dies(p), ~GivesUp(p)
    PROVE  IInv'
<1>1. /\ SessionsInv /\ TypeOK /\ Shaped /\ Kept /\ Apart
      /\ proc[p] \in Proc /\ DOMAIN proc = Requests /\ ino \in [Files -> Nat]
      /\ Shape(proc[p]) /\ (~overlap => Cares(p))
      /\ ~At(p, "idle") /\ proc[p].n \in Names
      /\ proc[p].op \in {"cut"}
  BY Atoms, NamesOf, StagesOf DEF CutCheck, At, Does
<1>2. At(p, "check") /\ proc[p].op = "cut" /\ Calm
  BY DEF CutCheck, Ends, Moves, Becomes, At, Does, Dies, GivesUp, told, Calm
<1>3. Still
  BY DEF CutCheck, Ends, Moves, Becomes, At, Does, Dies, GivesUp, Still
<1>4. proc'[p] = [proc[p] EXCEPT !.at = IF db THEN "load" ELSE "open"]
  BY <1>1, <1>2 DEF CutCheck, Ends, Moves, Becomes, At, Does, Dies, GivesUp
<1>6. Others(p) /\ proc' = [proc EXCEPT ![p] = proc'[p]]
  BY <1>1 DEF CutCheck, Ends, Moves, Becomes, At, Does, Dies, GivesUp, Others
<1>7. proc'[p].at = (IF db THEN "load" ELSE "open") /\ Stays(p) /\ proc'[p].mine = proc[p].mine
  BY <1>1, <1>4 DEF Proc, Stays
<1>5. proc' \in [Requests -> Proc]
  <2>1. proc'[p] \in Proc
    BY <1>1, <1>3, <1>4 DEF Proc
  <2> QED
    BY <1>1, <1>6, <2>1 DEF TypeOK
<1>9. proc'[p].mine \in Seq(saved')
  BY <1>1, <1>2, <1>7 DEF Shape, Calm
<1>10. Shape(proc[p])'
  BY <1>1, <1>2, <1>3, <1>7, <1>9 DEF Shape, Stages, Named, Locks, Stays, At
<1>11. LocksFree(p) /\ \A i : LocksMsg(p, i) /\ LocksMeta(p, i)
  BY <1>1, <1>7, NoNewLocks DEF Stays
<1>12. Touched(p)' \subseteq Touched(p)
  BY <1>7, SameSessions DEF Stays
<1>13. ~overlap => Cares(p)'
  BY <1>1, <1>2, <1>3, <1>4, <1>7 DEF Still, Stays, Cares, Clear, Copying, Messages, Exists, TurnsOf, At
<1> QED
  BY <1>1, <1>2, <1>3, <1>5, <1>6, <1>10, <1>11, <1>12, <1>13, CalmCounts, KeepsStill

LEMMA CutSaveKeeps ==
    ASSUME IInv, SessionsInv', NEW p \in Requests, CutSave(p), ~Dies(p), ~GivesUp(p)
    PROVE  IInv'
<1>1. /\ SessionsInv /\ TypeOK /\ Shaped /\ Kept /\ Apart
      /\ proc[p] \in Proc /\ DOMAIN proc = Requests /\ ino \in [Files -> Nat]
      /\ Shape(proc[p]) /\ (~overlap => Cares(p))
      /\ ~At(p, "idle") /\ proc[p].n \in Names
      /\ proc[p].op \in {"cut"}
  BY Atoms, NamesOf, StagesOf DEF CutSave, At, Does
<1>2. /\ At(p, "cut") /\ said' = said /\ saved' = saved
      /\ dropped' = dropped \union (TurnsOf(Messages(proc[p].n)) \ TurnsOf(proc[p].mine))
      /\ overlap' = overlap /\ db' = db
  BY DEF CutSave, Ends, Moves, Becomes, At, Does, NotWritten, Dies, GivesUp, told, Calm
<1>3. /\ \A x \in Names : store'[sf(x)] = (IF x = proc[p].n THEN proc[p].mine ELSE store[sf(x)])
      /\ \A x \in Names : store'[mf(x)] = store[mf(x)]
      /\ FromMsgs(Fresh) /\ FromMetas(0) /\ Inodes
  <2>1. Put(sf(proc[p].n), proc[p].mine)
    BY <1>2 DEF CutSave, Ends, Moves, Becomes, At, Does, NotWritten, Dies, GivesUp
  <2> QED
    BY <1>1, <2>1, PutsMessages
<1>4. proc'[p] = [proc[p] EXCEPT !.at = "meta"]
  BY <1>1, <1>2 DEF CutSave, Ends, Moves, Becomes, At, Does, NotWritten, Dies, GivesUp
<1>6. Others(p) /\ proc' = [proc EXCEPT ![p] = proc'[p]]
  BY <1>1 DEF CutSave, Ends, Moves, Becomes, At, Does, NotWritten, Dies, GivesUp, Others
<1>7. proc'[p].at = "meta" /\ Stays(p) /\ proc'[p].mine = proc[p].mine
  BY <1>1, <1>4 DEF Proc, Stays
<1>5. proc' \in [Requests -> Proc]
  <2>1. proc'[p] \in Proc
    BY <1>1, <1>3, <1>4 DEF Proc
  <2> QED
    BY <1>1, <1>6, <2>1 DEF TypeOK
<1>9. proc'[p].mine \in Seq(saved')
  BY <1>1, <1>2, <1>7 DEF Shape, Calm
<1>10. Shape(proc[p])'
  BY <1>1, <1>2, <1>3, <1>7, <1>9 DEF Shape, Stages, Named, Locks, Stays, At
<1>11. LocksFree(p) /\ \A i : LocksMsg(p, i) /\ LocksMeta(p, i)
  BY <1>1, <1>7, NoNewLocks DEF Stays
<1>12. Touched(p)' \subseteq Touched(p)
  BY <1>7, SameSessions DEF Stays
<1>13. /\ said' \in Turns /\ saved' \subseteq 1 .. said'
       /\ saved \subseteq saved' /\ dropped' \subseteq saved'
       /\ overlap' = overlap /\ db' = db
  <2>1. TurnsOf(Messages(proc[p].n)) \subseteq saved
    BY <1>1, StoredAreSaved
  <2> QED
    BY <1>1, <1>2, <2>1 DEF TypeOK
<1>14. Kept' /\ Metas'
  <2>1. Kept'
    BY <1>1, <1>2, <1>3 DEF Kept, Shape, Calm
  <2>2. Metas'
    BY <1>1, <1>3 DEF TypeOK, Metas, Proc, Titles
  <2> QED
    BY <2>1, <2>2
<1>15. Apart'
  BY <1>1, <1>3, <1>6, <1>11, StayApart, FreshIsNeither
<1>16. Outside(p)
  BY <1>1, <1>2, <1>3, OwnFiles DEF Outside, Writers
<1>17. ~overlap => NoTurnLost'
  <2> SUFFICES ASSUME ~overlap PROVE Lossless
    BY <1>2, NoneLost DEF Calm
  <2>1. \A x \in Names : x # proc[p].n => Messages(x)' = Messages(x)
    BY <1>3 DEF Messages, Exists
  <2>2. \A x \in Names : x = proc[p].n => Messages(x)' = proc[p].mine
    BY <1>1, <1>3, NotAbsent DEF Messages, Exists, Proc
  <2> QED
    BY <1>1, <1>2, <2>1, <2>2 DEF Lossless, TurnsOf
<1>18. ~overlap => Cares(p)'
  BY <1>1, <1>2, <1>3, <1>7 DEF Stays, Cares, Clear, Copying, Messages, Exists, TurnsOf, At
<1> QED
  BY <1>3, <1>5, <1>6, <1>10, <1>11, <1>12, <1>13, <1>14, <1>15, <1>16, <1>17, <1>18, Keeps

LEMMA OpenFirstKeeps ==
    ASSUME IInv, SessionsInv', NEW p \in Requests, OpenFirst(p), ~Dies(p), ~GivesUp(p)
    PROVE  IInv'
<1>1. /\ SessionsInv /\ TypeOK /\ Shaped /\ Kept /\ Apart
      /\ proc[p] \in Proc /\ DOMAIN proc = Requests /\ ino \in [Files -> Nat]
      /\ Shape(proc[p]) /\ (~overlap => Cares(p))
      /\ ~At(p, "idle") /\ proc[p].n \in Names
      /\ proc[p].op \in {"cut", "sync"}
  BY Atoms, NamesOf, StagesOf DEF OpenFirst, At, Does
<1>2. At(p, "open") /\ Calm
  BY DEF OpenFirst, Ends, Moves, Becomes, At, Does, FirstLock, Dies, GivesUp, told, Calm
<1>3. PICK i \in {Fresh, ino[sf(proc[p].n)]} :
         /\ i \in Nat \ {0}
         /\ \A x \in Names : store'[sf(x)] = (IF x = proc[p].n /\ store[sf(x)] = Absent THEN <<>>
                                                 ELSE store[sf(x)])
         /\ \A x \in Names : store'[mf(x)] = store[mf(x)]
         /\ FromMsgs(i) /\ FromMetas(0) /\ Inodes
         /\ Becomes(p, [proc[p] EXCEPT !.at = "lock", !.wants = i,
                                       !.meta = (store[mf(proc[p].n)] # Absent)])
  <2>1. Opens(p, sf(proc[p].n), "lock")
    BY <1>1, FilesApart DEF OpenFirst, FirstLock, SecondLock
  <2> QED
    BY <1>1, <1>2, <2>1, OpensMessages DEF At
<1>4. proc'[p] = [proc[p] EXCEPT !.at = "lock", !.wants = i, !.meta = (store[mf(proc[p].n)] # Absent)]
  BY <1>1, <1>3 DEF Becomes
<1>6. Others(p) /\ proc' = [proc EXCEPT ![p] = proc'[p]]
  BY <1>1, <1>3 DEF Becomes, Others
<1>7. /\ proc'[p].at = "lock" /\ proc'[p].op = proc[p].op /\ proc'[p].n = proc[p].n
      /\ proc'[p].m = proc[p].m /\ proc'[p].mine = proc[p].mine /\ proc'[p].turn = proc[p].turn
      /\ proc'[p].meta = (store[mf(proc[p].n)] # Absent) /\ proc'[p].wants = i
      /\ proc'[p].holds = proc[p].holds
  BY <1>1, <1>4 DEF Proc, Stays
<1>5. proc' \in [Requests -> Proc]
  <2>1. proc'[p] \in Proc
    BY <1>1, <1>3, <1>4 DEF Proc
  <2> QED
    BY <1>1, <1>6, <2>1 DEF TypeOK
<1>9. proc'[p].mine \in Seq(saved')
  BY <1>1, <1>2, <1>7 DEF Shape, Calm
<1>10. Shape(proc[p])'
  BY <1>1, <1>2, <1>3, <1>7, <1>9 DEF Shape, Stages, Named, Locks, Stays, At
<1>12. Touched(p)' \subseteq Touched(p)
  BY <1>7, SameSessions DEF Stays
<1>13. /\ said' \in Turns /\ saved' \subseteq 1 .. said'
       /\ saved \subseteq saved' /\ dropped' \subseteq saved'
       /\ overlap' = overlap /\ db' = db
  BY <1>1, <1>2, CalmCounts
<1>14. Kept' /\ Metas'
  <2>1. Kept'
    <3>1. <<>> \in Seq(saved) /\ saved' = saved
      BY <1>2 DEF Calm
    <3> QED
      BY <1>1, <1>3, <3>1 DEF Kept
  <2>2. Metas'
    BY <1>1, <1>3 DEF TypeOK, Metas, Proc, Titles
  <2> QED
    BY <2>1, <2>2
<1>15. Apart' /\ LocksFree(p)
  <2>1. ~IsMeta(i)
    <3>1. CASE i = Fresh
      BY <1>1, <3>1, FreshIsNeither
    <3>2. CASE i = ino[sf(proc[p].n)]
      BY <1>1, <1>3, <3>2 DEF Apart, IsMsg
    <3> QED
      BY <1>3, <3>1, <3>2
  <2>2. LocksMsg(p, i) /\ LocksMeta(p, 0)
    BY <1>7 DEF LocksMsg, LocksMeta, MsgOf, MetaOf
  <2>3. LocksFree(p)
    BY <1>1, <1>7 DEF TypeOK, LocksFree
  <2> QED
    BY <1>1, <1>3, <1>6, <2>1, <2>2, <2>3, StayApart
<1>16. Outside(p)
  BY <1>1, <1>2, <1>3, OwnFiles DEF Outside, Writers
<1>17. ~overlap => NoTurnLost'
  <2>1. \A x \in Names : Messages(x)' = Messages(x)
    BY <1>3 DEF Messages, Exists
  <2> QED
    BY <1>2, <2>1, NoneLost DEF Calm, Lossless
<1>18. ~overlap => Cares(p)'
  <2>1. CASE proc[p].op = "cut"
    BY <1>7, <2>1 DEF Cares, Clear, Copying
  <2>2. CASE proc[p].op = "sync" /\ ~overlap
    <3>1. Exists(proc[p].n) /\ ~Exists(proc[p].m) /\ proc[p].m # proc[p].n /\ proc[p].m \in Names
      BY <1>1, <1>2, <2>2 DEF Cares, Clear, Shape, Named, At
    <3>2. /\ store'[sf(proc[p].n)] = store[sf(proc[p].n)] /\ store'[sf(proc[p].m)] = store[sf(proc[p].m)]
          /\ store[mf(proc[p].n)] # Absent => store'[mf(proc[p].n)] # Absent
      BY <1>1, <1>3, <3>1 DEF Exists
    <3>3. proc[p].meta /\ ~At(p, "open") => store[mf(proc[p].n)] # Absent
      BY <1>1, <1>2, <2>2 DEF Cares, Copying, At
    <3> QED
      BY <1>2, <1>7, <2>2, <3>1, <3>2, <3>3 DEF Cares, Clear, Copying, Exists, At
  <2> QED
    BY <1>1, <2>1, <2>2
<1> QED
  BY <1>3, <1>5, <1>6, <1>10, <1>12, <1>13, <1>14, <1>15, <1>16, <1>17, <1>18, Keeps

LEMMA OpenSecondKeeps ==
    ASSUME IInv, SessionsInv', NEW p \in Requests, OpenSecond(p), ~Dies(p), ~GivesUp(p)
    PROVE  IInv'
<1>1. /\ SessionsInv /\ TypeOK /\ Shaped /\ Kept /\ Apart
      /\ proc[p] \in Proc /\ DOMAIN proc = Requests /\ ino \in [Files -> Nat]
      /\ Shape(proc[p]) /\ (~overlap => Cares(p))
      /\ ~At(p, "idle") /\ proc[p].n \in Names
      /\ proc[p].op \in {"cut", "sync"}
  BY Atoms, NamesOf, StagesOf DEF OpenSecond, At, Does
<1>2. At(p, "openMeta") /\ Calm
  BY DEF OpenSecond, Ends, Moves, Becomes, At, Does, FirstLock, SecondLock, Dies, GivesUp, told, Calm
<1>3. PICK i \in {Fresh, ino[mf(proc[p].n)]} :
         /\ i \in Nat \ {0}
         /\ \A x \in Names : store'[sf(x)] = store[sf(x)]
         /\ \A x \in Names : store'[mf(x)] = (IF x = proc[p].n /\ store[mf(x)] = Absent THEN NoTitle
                                                 ELSE store[mf(x)])
         /\ FromMsgs(0) /\ FromMetas(i) /\ Inodes
         /\ Becomes(p, [proc[p] EXCEPT !.at = "lockMeta", !.wants = i, !.meta = proc[p].meta])
  <2>1. Opens(p, mf(proc[p].n), "lockMeta")
    BY <1>1, FilesApart DEF OpenSecond, FirstLock, SecondLock
  <2> QED
    BY <1>1, <1>2, <2>1, OpensMeta DEF At
<1>4. proc'[p] = [proc[p] EXCEPT !.at = "lockMeta", !.wants = i, !.meta = proc[p].meta]
  BY <1>1, <1>3 DEF Becomes
<1>6. Others(p) /\ proc' = [proc EXCEPT ![p] = proc'[p]]
  BY <1>1, <1>3 DEF Becomes, Others
<1>7. /\ proc'[p].at = "lockMeta" /\ proc'[p].op = proc[p].op /\ proc'[p].n = proc[p].n
      /\ proc'[p].m = proc[p].m /\ proc'[p].mine = proc[p].mine /\ proc'[p].turn = proc[p].turn
      /\ proc'[p].meta = proc[p].meta /\ proc'[p].wants = i /\ proc'[p].holds = proc[p].holds
  BY <1>1, <1>4 DEF Proc, Stays
<1>5. proc' \in [Requests -> Proc]
  <2>1. proc'[p] \in Proc
    BY <1>1, <1>3, <1>4 DEF Proc
  <2> QED
    BY <1>1, <1>6, <2>1 DEF TypeOK
<1>9. proc'[p].mine \in Seq(saved')
  BY <1>1, <1>2, <1>7 DEF Shape, Calm
<1>10. Shape(proc[p])'
  BY <1>1, <1>2, <1>3, <1>7, <1>9 DEF Shape, Stages, Named, Locks, Stays, At
<1>12. Touched(p)' \subseteq Touched(p)
  BY <1>7, SameSessions DEF Stays
<1>13. /\ said' \in Turns /\ saved' \subseteq 1 .. said'
       /\ saved \subseteq saved' /\ dropped' \subseteq saved'
       /\ overlap' = overlap /\ db' = db
  BY <1>1, <1>2, CalmCounts
<1>14. Kept' /\ Metas'
  <2>1. Kept'
    BY <1>1, <1>2, <1>3 DEF Kept, Shape, Calm
  <2>2. Metas'
    BY <1>1, <1>3 DEF TypeOK, Metas, Proc, Titles
  <2> QED
    BY <2>1, <2>2
<1>15. Apart' /\ LocksFree(p)
  <2>1. ~IsMsg(i)
    <3>1. CASE i = Fresh
      BY <1>1, <3>1, FreshIsNeither
    <3>2. CASE i = ino[mf(proc[p].n)]
      BY <1>1, <1>3, <3>2 DEF Apart, IsMeta
    <3> QED
      BY <1>3, <3>1, <3>2
  <2>2. LocksMsg(p, 0) /\ LocksMeta(p, i)
    BY <1>2, <1>7 DEF LocksMsg, LocksMeta, IsMsg, MsgOf, MetaOf, At
  <2>3. LocksFree(p)
    BY <1>1, <1>7 DEF TypeOK, LocksFree
  <2> QED
    BY <1>1, <1>3, <1>6, <2>1, <2>2, <2>3, StayApart
<1>16. Outside(p)
  BY <1>1, <1>2, <1>3, OwnFiles, SessionsAssumption DEF Outside, Writers
<1>17. ~overlap => NoTurnLost'
  <2>1. \A x \in Names : Messages(x)' = Messages(x)
    BY <1>3 DEF Messages, Exists
  <2> QED
    BY <1>2, <2>1, NoneLost DEF Calm, Lossless
<1>18. ~overlap => Cares(p)'
  <2>1. CASE proc[p].op = "cut"
    BY <1>7, <2>1 DEF Cares, Clear, Copying
  <2>2. CASE proc[p].op = "sync" /\ ~overlap
    <3>1. Exists(proc[p].n) /\ ~Exists(proc[p].m) /\ proc[p].m # proc[p].n /\ proc[p].m \in Names
      BY <1>1, <1>2, <2>2 DEF Cares, Clear, Shape, Named, At
    <3>2. /\ store'[sf(proc[p].n)] = store[sf(proc[p].n)] /\ store'[sf(proc[p].m)] = store[sf(proc[p].m)]
          /\ store[mf(proc[p].n)] # Absent => store'[mf(proc[p].n)] # Absent
      BY <1>1, <1>3, <3>1 DEF Exists
    <3>3. proc[p].meta /\ ~At(p, "open") => store[mf(proc[p].n)] # Absent
      BY <1>1, <1>2, <2>2 DEF Cares, Copying, At
    <3> QED
      BY <1>2, <1>7, <2>2, <3>1, <3>2, <3>3 DEF Cares, Clear, Copying, Exists, At
  <2> QED
    BY <1>1, <2>1, <2>2
<1> QED
  BY <1>3, <1>5, <1>6, <1>10, <1>12, <1>13, <1>14, <1>15, <1>16, <1>17, <1>18, Keeps

LEMMA AcquireKeeps ==
    ASSUME IInv, SessionsInv', NEW p \in Requests, Acquire(p), ~Dies(p), ~GivesUp(p)
    PROVE  IInv'
<1>1. /\ SessionsInv /\ TypeOK /\ Shaped /\ Kept /\ Apart
      /\ proc[p] \in Proc /\ DOMAIN proc = Requests /\ ino \in [Files -> Nat]
      /\ Shape(proc[p]) /\ (~overlap => Cares(p))
      /\ ~At(p, "idle") /\ proc[p].n \in Names
      /\ proc[p].op \in {"cut", "sync"}
  BY Atoms, NamesOf, StagesOf DEF Acquire, At, Does
<1>2. /\ (At(p, "lock") \/ At(p, "lockMeta")) /\ ~Blocked(p)
      /\ Calm
  BY DEF Acquire, Ends, Moves, Becomes, At, Does, Dies, GivesUp, told, Calm
<1>3. Still
  BY DEF Acquire, Ends, Moves, Becomes, At, Does, Dies, GivesUp, Still
<1> DEFINE at == IF At(p, "lock") /\ (proc[p].op = "cut" \/ proc[p].meta) THEN "openMeta" ELSE "load"
           holds == proc[p].holds \union {proc[p].wants}
<1>4. proc'[p] = [proc[p] EXCEPT !.at = at, !.wants = 0, !.holds = holds]
  BY <1>1, <1>2 DEF Acquire, Ends, Moves, Becomes, At, Does, Dies, GivesUp
<1>6. Others(p) /\ proc' = [proc EXCEPT ![p] = proc'[p]]
  BY <1>1 DEF Acquire, Ends, Moves, Becomes, At, Does, Dies, GivesUp, Others
<1>8. at \in {"openMeta", "load"} /\ holds \in SUBSET Nat
  BY <1>1, <1>2 DEF Proc, Titles
<1>7. /\ proc'[p].at = (IF At(p, "lock") /\ (proc[p].op = "cut" \/ proc[p].meta) THEN "openMeta"
                        ELSE "load")
      /\ proc'[p].op = proc[p].op /\ proc'[p].n = proc[p].n /\ proc'[p].m = proc[p].m
      /\ proc'[p].mine = proc[p].mine /\ proc'[p].turn = proc[p].turn
      /\ proc'[p].meta = proc[p].meta /\ proc'[p].wants = 0
      /\ proc'[p].holds = proc[p].holds \union {proc[p].wants}
  BY <1>1, <1>4 DEF Proc, Stays
<1> HIDE DEF at, holds
<1>5. proc' \in [Requests -> Proc]
  <2>1. proc'[p] \in Proc
    <3>1. [proc[p] EXCEPT !.at = at, !.wants = 0] \in Proc
      BY <1>1, <1>8 DEF Proc
    <3>2. \A r \in Proc : [r EXCEPT !.holds = holds] \in Proc
      BY <1>8 DEF Proc
    <3> QED
      BY <1>4, <3>1, <3>2
  <2> QED
    BY <1>1, <1>6, <2>1 DEF TypeOK
<1>9. proc'[p].mine \in Seq(saved')
  BY <1>1, <1>2, <1>7 DEF Shape, Calm
<1>10. Shape(proc[p])'
  <2>1. Locks(proc'[p])
    <3>1. CASE At(p, "lock")
      <4>1. proc'[p].holds = {proc[p].wants} /\ proc[p].wants \in Nat \ {0}
        BY <1>1, <1>7, <3>1 DEF Shape, Locks, Proc, At
      <4> QED
        BY <1>7, <4>1 DEF Locks
    <3>2. CASE At(p, "lockMeta")
      <4>1. PICK a \in Nat : proc[p].holds \subseteq {a}
        BY <1>1, <3>2 DEF Shape, Locks, At
      <4>2. /\ proc'[p].holds \subseteq {a, proc[p].wants} /\ proc[p].wants \in Nat \ {0}
            /\ 0 \notin proc'[p].holds /\ proc'[p].at = "load"
        BY <1>1, <1>7, <3>2, <4>1 DEF Shape, Locks, Proc, At
      <4> QED
        BY <1>7, <4>2 DEF Locks
    <3> QED
      BY <1>2, <3>1, <3>2
  <2> QED
    BY <1>1, <1>2, <1>7, <1>9, <2>1 DEF Shape, Stages, Named, At
<1>12. Touched(p)' \subseteq Touched(p)
  BY <1>7, SameSessions DEF Stays
<1>13. ~overlap => Cares(p)'
  BY <1>1, <1>2, <1>3, <1>7 DEF Still, Stays, Cares, Clear, Copying, Messages, Exists, TurnsOf, At
<1>11. LocksFree(p) /\ LocksMsg(p, 0) /\ LocksMeta(p, 0)
  <2>1. LocksFree(p)
    BY <1>1, <1>2, <1>7 DEF LocksFree, TypeOK, Blocked
  <2>2. LocksMsg(p, 0)
    BY <1>1, <1>2, <1>7 DEF LocksMsg, MsgOf, IsMsg, Shape, Locks, At
  <2>3. LocksMeta(p, 0)
    BY <1>1, <1>2, <1>7 DEF LocksMeta, MetaOf
  <2> QED
    BY <2>1, <2>2, <2>3
<1> QED
  BY <1>1, <1>2, <1>3, <1>5, <1>6, <1>10, <1>11, <1>12, <1>13, CalmCounts, KeepsStill

LEMMA DeleteCheckKeeps ==
    ASSUME IInv, SessionsInv', NEW p \in Requests, DeleteCheck(p), ~Dies(p), ~GivesUp(p)
    PROVE  IInv'
<1>1. /\ SessionsInv /\ TypeOK /\ Shaped /\ Kept /\ Apart
      /\ proc[p] \in Proc /\ DOMAIN proc = Requests /\ ino \in [Files -> Nat]
      /\ Shape(proc[p]) /\ (~overlap => Cares(p))
      /\ ~At(p, "idle") /\ proc[p].n \in Names
      /\ proc[p].op \in {"delete"}
  BY Atoms, NamesOf, StagesOf DEF DeleteCheck, At, Does
<1>2. At(p, "check") /\ proc[p].op = "delete" /\ Calm
  BY DEF DeleteCheck, Ends, Moves, Becomes, At, Does, Dies, GivesUp, told, Calm
<1>3. Still
  BY DEF DeleteCheck, Ends, Moves, Becomes, At, Does, Dies, GivesUp, Still
<1>4. proc'[p] = [proc[p] EXCEPT !.at = "delete"]
  BY <1>1, <1>2 DEF DeleteCheck, Ends, Moves, Becomes, At, Does, Dies, GivesUp
<1>6. Others(p) /\ proc' = [proc EXCEPT ![p] = proc'[p]]
  BY <1>1 DEF DeleteCheck, Ends, Moves, Becomes, At, Does, Dies, GivesUp, Others
<1>7. proc'[p].at = "delete" /\ Stays(p) /\ proc'[p].mine = proc[p].mine
  BY <1>1, <1>4 DEF Proc, Stays
<1>5. proc' \in [Requests -> Proc]
  <2>1. proc'[p] \in Proc
    BY <1>1, <1>3, <1>4 DEF Proc
  <2> QED
    BY <1>1, <1>6, <2>1 DEF TypeOK
<1>9. proc'[p].mine \in Seq(saved')
  BY <1>1, <1>2, <1>7 DEF Shape, Calm
<1>10. Shape(proc[p])'
  BY <1>1, <1>2, <1>3, <1>7, <1>9 DEF Shape, Stages, Named, Locks, Stays, At
<1>11. LocksFree(p) /\ \A i : LocksMsg(p, i) /\ LocksMeta(p, i)
  BY <1>1, <1>7, NoNewLocks DEF Stays
<1>12. Touched(p)' \subseteq Touched(p)
  BY <1>7, SameSessions DEF Stays
<1>13. ~overlap => Cares(p)'
  BY <1>1, <1>2, <1>3, <1>7 DEF Still, Stays, Cares, Clear, Copying, Messages, Exists, TurnsOf, At
<1> QED
  BY <1>1, <1>2, <1>3, <1>5, <1>6, <1>10, <1>11, <1>12, <1>13, CalmCounts, KeepsStill

LEMMA DeleteKeeps ==
    ASSUME IInv, SessionsInv', NEW p \in Requests, Delete(p), ~Dies(p), ~GivesUp(p)
    PROVE  IInv'
<1>1. /\ SessionsInv /\ TypeOK /\ Shaped /\ Kept /\ Apart
      /\ proc[p] \in Proc /\ DOMAIN proc = Requests /\ ino \in [Files -> Nat]
      /\ Shape(proc[p]) /\ (~overlap => Cares(p))
      /\ ~At(p, "idle") /\ proc[p].n \in Names
      /\ proc[p].op \in {"delete"}
  BY Atoms, NamesOf, StagesOf DEF Delete, At, Does
<1>2. /\ At(p, "delete") /\ said' = said /\ saved' = saved
      /\ dropped' = dropped \union TurnsOf(Messages(proc[p].n)) /\ overlap' = overlap /\ db' = db
  BY DEF Delete, Ends, Moves, Becomes, At, Does, Dies, GivesUp, told, Calm
<1>3. /\ \A x \in Names : store'[sf(x)] = (IF x = proc[p].n THEN Absent ELSE store[sf(x)])
      /\ FromMsgs(0) /\ FromMetas(0) /\ Inodes
      /\ \A x \in Names : store'[mf(x)] = (IF x = proc[p].n /\ db THEN Absent ELSE store[mf(x)])
  <2>1. CASE db
    <3>1. Unlink({sf(proc[p].n), mf(proc[p].n)})
      BY <2>1 DEF Delete
    <3> QED
      BY <1>1, <2>1, <3>1, UnlinksOnly, FilesApart
  <2>2. CASE ~db
    <3>1. Unlink({sf(proc[p].n)}) /\ Exists(proc[p].n)
      BY <1>1, <2>2 DEF Delete, Dies, At, told, Messages, TurnsOf, Exists
    <3> QED
      BY <1>1, <2>2, <3>1, UnlinksOnly, FilesApart
  <2> QED
    BY <2>1, <2>2
<1>4. \/ proc'[p] = Idle /\ db
      \/ proc'[p] = [proc[p] EXCEPT !.at = "deleteMeta"] /\ ~db
  BY <1>1, <1>2 DEF Delete, Ends, Moves, Becomes, At, Does, Dies, GivesUp, told, Messages, TurnsOf,
                    Exists
<1>6. Others(p) /\ proc' = [proc EXCEPT ![p] = proc'[p]]
  BY <1>1 DEF Delete, Ends, Moves, Becomes, At, Does, Dies, GivesUp, Others
<1>8. proc'[p] \in Proc
  BY <1>1, <1>4, IdleTyped, AtChanges
<1>5. proc' \in [Requests -> Proc]
  BY <1>1, <1>6, <1>8 DEF TypeOK
<1>9. saved' = saved
  BY <1>2 DEF Calm
<1>10. /\ Shape(proc[p])' /\ LocksFree(p) /\ (\A i : LocksMsg(p, i) /\ LocksMeta(p, i))
       /\ Touched(p)' \subseteq Touched(p) /\ (~overlap => Cares(p)')
  <2>1. CASE proc'[p] = Idle
    BY <2>1, Ended
  <2>2. CASE proc'[p] = [proc[p] EXCEPT !.at = "deleteMeta"]
    <3>1. proc'[p].at = "deleteMeta" /\ proc'[p].mine = proc[p].mine /\ Stays(p)
      BY <1>1, <2>2 DEF Proc, Stays
    <3>2. Shape(proc[p])'
      BY <1>1, <1>2, <1>9, <2>2, <3>1 DEF Shape, Stages, Named, Locks, Stays, At
    <3>3. LocksFree(p) /\ \A i : LocksMsg(p, i) /\ LocksMeta(p, i)
      BY <1>1, <3>1, NoNewLocks DEF Stays
    <3>4. Touched(p)' \subseteq Touched(p)
      BY <3>1, SameSessions DEF Stays
    <3>5. ~overlap => Cares(p)'
      BY <1>1, <1>2, <1>3, <2>2, <3>1 DEF Stays, Cares, Clear, Copying, Messages, Exists, TurnsOf, At
    <3> QED
      BY <3>2, <3>3, <3>4, <3>5
  <2> QED
    BY <1>4, <2>1, <2>2
<1>13. /\ said' \in Turns /\ saved' \subseteq 1 .. said'
       /\ saved \subseteq saved' /\ dropped' \subseteq saved'
       /\ overlap' = overlap /\ db' = db
  <2>1. TurnsOf(Messages(proc[p].n)) \subseteq saved
    BY <1>1, StoredAreSaved
  <2> QED
    BY <1>1, <1>2, <2>1 DEF TypeOK
<1>14. Kept' /\ Metas'
  <2>1. Kept'
    BY <1>1, <1>2, <1>3 DEF Kept, Shape, Calm
  <2>2. Metas'
    BY <1>1, <1>3 DEF TypeOK, Metas, Proc, Titles
  <2> QED
    BY <2>1, <2>2
<1>15. Apart'
  BY <1>1, <1>3, <1>6, <1>10, StayApart, FreshIsNeither
<1>16. Outside(p)
  BY <1>1, <1>2, <1>3, OwnFiles DEF Outside, Writers
<1>17. ~overlap => NoTurnLost'
  <2> SUFFICES ASSUME ~overlap PROVE Lossless
    BY <1>2, NoneLost
  <2>1. \A x \in Names : x # proc[p].n => Messages(x)' = Messages(x)
    BY <1>3 DEF Messages, Exists
  <2> QED
    BY <1>1, <1>2, <2>1 DEF Lossless, TurnsOf
<1> QED
  BY <1>3, <1>5, <1>6, <1>10, <1>13, <1>14, <1>15, <1>16, <1>17, Keeps

LEMMA DeleteMetaKeeps ==
    ASSUME IInv, SessionsInv', NEW p \in Requests, DeleteMeta(p), ~Dies(p), ~GivesUp(p)
    PROVE  IInv'
<1>1. /\ SessionsInv /\ TypeOK /\ Shaped /\ Kept /\ Apart
      /\ proc[p] \in Proc /\ DOMAIN proc = Requests /\ ino \in [Files -> Nat]
      /\ Shape(proc[p]) /\ (~overlap => Cares(p))
      /\ ~At(p, "idle") /\ proc[p].n \in Names
      /\ proc[p].op \in {"delete"}
  BY Atoms, NamesOf, StagesOf DEF DeleteMeta, At, Does
<1>2. At(p, "deleteMeta") /\ Calm
  BY DEF DeleteMeta, Ends, Moves, Becomes, At, Does, Dies, GivesUp, told, Calm
<1>3. /\ \A x \in Names : store'[sf(x)] = store[sf(x)]
      /\ \A x \in Names : store'[mf(x)] = (IF x = proc[p].n THEN Absent ELSE store[mf(x)])
      /\ FromMsgs(0) /\ FromMetas(0) /\ Inodes
  <2>1. Unlink({mf(proc[p].n)})
    BY <1>2 DEF DeleteMeta, Ends, Moves, Becomes, At, Does, Dies, GivesUp
  <2> QED
    BY <1>1, <2>1, UnlinksOnly, FilesApart
<1>4. proc'[p] = Idle /\ proc' = [proc EXCEPT ![p] = Idle]
  BY <1>1, <1>2 DEF DeleteMeta, Ends, Moves, Becomes, At, Does, Dies, GivesUp
<1>5. proc' \in [Requests -> Proc] /\ Others(p)
  BY <1>1, <1>4, IdleTyped DEF TypeOK, Others
<1>13. /\ said' \in Turns /\ saved' \subseteq 1 .. said'
       /\ saved \subseteq saved' /\ dropped' \subseteq saved'
       /\ overlap' = overlap /\ db' = db
  BY <1>1, <1>2, CalmCounts
<1>14. Kept' /\ Metas'
  <2>1. Kept'
    BY <1>1, <1>2, <1>3 DEF Kept, Shape, Calm
  <2>2. Metas'
    BY <1>1, <1>3 DEF TypeOK, Metas, Proc, Titles
  <2> QED
    BY <2>1, <2>2
<1>15. Apart'
  BY <1>1, <1>3, <1>5, <1>4, Ended, StayApart, FreshIsNeither
<1>16. Outside(p)
  BY <1>1, <1>2, <1>3, OwnFiles DEF Outside, Writers
<1>17. ~overlap => NoTurnLost'
  <2>1. \A x \in Names : Messages(x)' = Messages(x)
    BY <1>3 DEF Messages, Exists
  <2> QED
    BY <1>2, <2>1, NoneLost DEF Calm, Lossless
<1> QED
  BY <1>3, <1>4, <1>5, <1>13, <1>14, <1>15, <1>16, <1>17, Ended, Keeps

LEMMA InitCheckKeeps ==
    ASSUME IInv, SessionsInv', NEW p \in Requests, InitCheck(p), ~Dies(p), ~GivesUp(p)
    PROVE  IInv'
<1>1. /\ SessionsInv /\ TypeOK /\ Shaped /\ Kept /\ Apart
      /\ proc[p] \in Proc /\ DOMAIN proc = Requests /\ ino \in [Files -> Nat]
      /\ Shape(proc[p]) /\ (~overlap => Cares(p))
      /\ ~At(p, "idle") /\ proc[p].n \in Names
      /\ proc[p].op \in {"init"}
  BY Atoms, NamesOf, StagesOf DEF InitCheck, At, Does
<1>2. At(p, "check") /\ proc[p].op = "init" /\ ~Exists(proc[p].n) /\ Calm
  BY DEF InitCheck, Ends, Moves, Becomes, At, Does, Dies, GivesUp, told, Calm
<1>3. Still
  BY DEF InitCheck, Ends, Moves, Becomes, At, Does, Dies, GivesUp, Still
<1>4. proc'[p] = [proc[p] EXCEPT !.at = "reset"]
  BY <1>1, <1>2 DEF InitCheck, Ends, Moves, Becomes, At, Does, Dies, GivesUp
<1>6. Others(p) /\ proc' = [proc EXCEPT ![p] = proc'[p]]
  BY <1>1 DEF InitCheck, Ends, Moves, Becomes, At, Does, Dies, GivesUp, Others
<1>7. proc'[p].at = "reset" /\ Stays(p) /\ proc'[p].mine = proc[p].mine
  BY <1>1, <1>4 DEF Proc, Stays
<1>5. proc' \in [Requests -> Proc]
  <2>1. proc'[p] \in Proc
    BY <1>1, <1>3, <1>4 DEF Proc
  <2> QED
    BY <1>1, <1>6, <2>1 DEF TypeOK
<1>9. proc'[p].mine \in Seq(saved')
  BY <1>1, <1>2, <1>7 DEF Shape, Calm
<1>10. Shape(proc[p])'
  BY <1>1, <1>2, <1>3, <1>7, <1>9 DEF Shape, Stages, Named, Locks, Stays, At
<1>11. LocksFree(p) /\ \A i : LocksMsg(p, i) /\ LocksMeta(p, i)
  BY <1>1, <1>7, NoNewLocks DEF Stays
<1>12. Touched(p)' \subseteq Touched(p)
  BY <1>7, SameSessions DEF Stays
<1>13. ~overlap => Cares(p)'
  BY <1>1, <1>2, <1>3, <1>7 DEF Still, Stays, Cares, Clear, Copying, Messages, Exists, TurnsOf, At
<1> QED
  BY <1>1, <1>2, <1>3, <1>5, <1>6, <1>10, <1>11, <1>12, <1>13, CalmCounts, KeepsStill

LEMMA ResetKeeps ==
    ASSUME IInv, SessionsInv', NEW p \in Requests, Reset(p), ~Dies(p), ~GivesUp(p)
    PROVE  IInv'
<1>1. /\ SessionsInv /\ TypeOK /\ Shaped /\ Kept /\ Apart
      /\ proc[p] \in Proc /\ DOMAIN proc = Requests /\ ino \in [Files -> Nat]
      /\ Shape(proc[p]) /\ (~overlap => Cares(p))
      /\ ~At(p, "idle") /\ proc[p].n \in Names
      /\ proc[p].op \in {"init"}
  BY Atoms, NamesOf, StagesOf DEF Reset, At, Does
<1>2. At(p, "reset") /\ Calm
  BY DEF Reset, Ends, Moves, Becomes, At, Does, Dies, GivesUp, told, Calm
<1>3. /\ \A x \in Names : store'[sf(x)] = (IF x = proc[p].n THEN Absent ELSE store[sf(x)])
      /\ \A x \in Names :
            store'[mf(x)] \in {store[mf(x)], IF x = proc[p].n THEN Absent ELSE store[mf(x)]}
      /\ FromMsgs(0) /\ FromMetas(0) /\ Inodes
  <2>1. CASE Exists(proc[p].n)
    <3>1. Unlink({sf(proc[p].n), mf(proc[p].n)})
      BY <2>1 DEF Reset
    <3> QED
      BY <1>1, <3>1, UnlinksOnly, FilesApart
  <2>2. CASE ~Exists(proc[p].n)
    <3>1. store' = store /\ ino' = ino
      BY <2>2 DEF Reset
    <3> QED
      BY <1>1, <2>2, <3>1 DEF FromMsgs, FromMetas, Inodes, Exists
  <2> QED
    BY <2>1, <2>2
<1>4. proc'[p] = [proc[p] EXCEPT !.at = "create"]
  BY <1>1, <1>2 DEF Reset, Ends, Moves, Becomes, At, Does, Dies, GivesUp
<1>6. Others(p) /\ proc' = [proc EXCEPT ![p] = proc'[p]]
  BY <1>1 DEF Reset, Ends, Moves, Becomes, At, Does, Dies, GivesUp, Others
<1>7. proc'[p].at = "create" /\ Stays(p) /\ proc'[p].mine = proc[p].mine
  BY <1>1, <1>4 DEF Proc, Stays
<1>5. proc' \in [Requests -> Proc]
  <2>1. proc'[p] \in Proc
    BY <1>1, <1>3, <1>4 DEF Proc
  <2> QED
    BY <1>1, <1>6, <2>1 DEF TypeOK
<1>9. proc'[p].mine \in Seq(saved')
  BY <1>1, <1>2, <1>7 DEF Shape, Calm
<1>10. Shape(proc[p])'
  BY <1>1, <1>2, <1>3, <1>7, <1>9 DEF Shape, Stages, Named, Locks, Stays, At
<1>11. LocksFree(p) /\ \A i : LocksMsg(p, i) /\ LocksMeta(p, i)
  BY <1>1, <1>7, NoNewLocks DEF Stays
<1>12. Touched(p)' \subseteq Touched(p)
  BY <1>7, SameSessions DEF Stays
<1>13. /\ said' \in Turns /\ saved' \subseteq 1 .. said'
       /\ saved \subseteq saved' /\ dropped' \subseteq saved'
       /\ overlap' = overlap /\ db' = db
  BY <1>1, <1>2, CalmCounts
<1>14. Kept' /\ Metas'
  <2>1. Kept'
    BY <1>1, <1>2, <1>3 DEF Kept, Shape, Calm
  <2>2. Metas'
    BY <1>1, <1>3 DEF TypeOK, Metas, Proc, Titles
  <2> QED
    BY <2>1, <2>2
<1>15. Apart'
  BY <1>1, <1>3, <1>6, <1>11, StayApart, FreshIsNeither
<1>16. Outside(p)
  BY <1>1, <1>2, <1>3, OwnFiles DEF Outside, Writers
<1>17. ~overlap => NoTurnLost'
  <2> SUFFICES ASSUME ~overlap PROVE Lossless
    BY <1>2, NoneLost DEF Calm
  <2>1. \A x \in Names : x # proc[p].n => Messages(x)' = Messages(x)
    BY <1>3 DEF Messages, Exists
  <2>2. TurnsOf(Messages(proc[p].n)) = {}
    BY <1>1, <1>2 DEF Cares, Messages, TurnsOf, At
  <2> QED
    BY <1>1, <1>2, <2>1, <2>2 DEF Lossless, TurnsOf
<1>18. ~overlap => Cares(p)'
  BY <1>1, <1>2, <1>3, <1>7 DEF Stays, Cares, Clear, Copying, Messages, Exists, TurnsOf, At
<1> QED
  BY <1>3, <1>5, <1>6, <1>10, <1>11, <1>12, <1>13, <1>14, <1>15, <1>16, <1>17, <1>18, Keeps

LEMMA CreateKeeps ==
    ASSUME IInv, SessionsInv', NEW p \in Requests, Create(p), ~Dies(p), ~GivesUp(p)
    PROVE  IInv'
<1>1. /\ SessionsInv /\ TypeOK /\ Shaped /\ Kept /\ Apart
      /\ proc[p] \in Proc /\ DOMAIN proc = Requests /\ ino \in [Files -> Nat]
      /\ Shape(proc[p]) /\ (~overlap => Cares(p))
      /\ ~At(p, "idle") /\ proc[p].n \in Names
      /\ proc[p].op \in {"init"}
  BY Atoms, NamesOf, StagesOf DEF Create, At, Does
<1>2. At(p, "create") /\ Calm
  BY DEF Create, Ends, Moves, Becomes, At, Does, Dies, GivesUp, told, Calm
<1>3. /\ \A x \in Names : store'[sf(x)] = (IF x = proc[p].n THEN <<>> ELSE store[sf(x)])
      /\ \A x \in Names : store'[mf(x)] = store[mf(x)]
      /\ FromMsgs(Fresh) /\ FromMetas(0) /\ Inodes
  <2>1. Put(sf(proc[p].n), <<>>)
    BY <1>2 DEF Create, Ends, Moves, Becomes, At, Does, Dies, GivesUp
  <2> QED
    BY <1>1, <2>1, PutsMessages
<1>4. proc'[p] = [proc[p] EXCEPT !.at = "meta"]
  BY <1>1, <1>2 DEF Create, Ends, Moves, Becomes, At, Does, Dies, GivesUp
<1>6. Others(p) /\ proc' = [proc EXCEPT ![p] = proc'[p]]
  BY <1>1 DEF Create, Ends, Moves, Becomes, At, Does, Dies, GivesUp, Others
<1>7. proc'[p].at = "meta" /\ Stays(p) /\ proc'[p].mine = proc[p].mine
  BY <1>1, <1>4 DEF Proc, Stays
<1>5. proc' \in [Requests -> Proc]
  <2>1. proc'[p] \in Proc
    BY <1>1, <1>3, <1>4 DEF Proc
  <2> QED
    BY <1>1, <1>6, <2>1 DEF TypeOK
<1>9. proc'[p].mine \in Seq(saved')
  BY <1>1, <1>2, <1>7 DEF Shape, Calm
<1>10. Shape(proc[p])'
  BY <1>1, <1>2, <1>3, <1>7, <1>9 DEF Shape, Stages, Named, Locks, Stays, At
<1>11. LocksFree(p) /\ \A i : LocksMsg(p, i) /\ LocksMeta(p, i)
  BY <1>1, <1>7, NoNewLocks DEF Stays
<1>12. Touched(p)' \subseteq Touched(p)
  BY <1>7, SameSessions DEF Stays
<1>13. /\ said' \in Turns /\ saved' \subseteq 1 .. said'
       /\ saved \subseteq saved' /\ dropped' \subseteq saved'
       /\ overlap' = overlap /\ db' = db
  BY <1>1, <1>2, CalmCounts
<1>14. Kept' /\ Metas'
  <2>1. Kept'
    <3>1. <<>> \in Seq(saved) /\ saved' = saved
      BY <1>2 DEF Calm
    <3> QED
      BY <1>1, <1>3, <3>1 DEF Kept
  <2>2. Metas'
    BY <1>1, <1>3 DEF TypeOK, Metas, Proc, Titles
  <2> QED
    BY <2>1, <2>2
<1>15. Apart'
  BY <1>1, <1>3, <1>6, <1>11, StayApart, FreshIsNeither
<1>16. Outside(p)
  BY <1>1, <1>2, <1>3, OwnFiles DEF Outside, Writers
<1>17. ~overlap => NoTurnLost'
  <2> SUFFICES ASSUME ~overlap PROVE Lossless
    BY <1>2, NoneLost DEF Calm
  <2>1. \A x \in Names : x # proc[p].n => Messages(x)' = Messages(x)
    BY <1>3 DEF Messages, Exists
  <2>2. TurnsOf(Messages(proc[p].n)) = {}
    BY <1>1, <1>2 DEF Cares, Messages, TurnsOf, At
  <2> QED
    BY <1>1, <1>2, <2>1, <2>2 DEF Lossless, TurnsOf
<1>18. ~overlap => Cares(p)'
  BY <1>1, <1>2, <1>3, <1>7 DEF Stays, Cares, Clear, Copying, Messages, Exists, TurnsOf, At
<1> QED
  BY <1>3, <1>5, <1>6, <1>10, <1>11, <1>12, <1>13, <1>14, <1>15, <1>16, <1>17, <1>18, Keeps

LEMMA RenameCheckKeeps ==
    ASSUME IInv, SessionsInv', NEW p \in Requests, RenameCheck(p), ~Dies(p), ~GivesUp(p)
    PROVE  IInv'
<1>1. /\ SessionsInv /\ TypeOK /\ Shaped /\ Kept /\ Apart
      /\ proc[p] \in Proc /\ DOMAIN proc = Requests /\ ino \in [Files -> Nat]
      /\ Shape(proc[p]) /\ (~overlap => Cares(p))
      /\ ~At(p, "idle") /\ proc[p].n \in Names /\ proc[p].m \in Names
      /\ proc[p].op \in {"rename", "sync"}
  BY Atoms, NamesOf, StagesOf DEF RenameCheck, At, Does, Chats, OpNames, Shape, Named
<1>2. /\ At(p, "fetch") \/ (At(p, "check") /\ proc[p].op = "rename")
      /\ Exists(proc[p].n) /\ ~Exists(proc[p].m) /\ proc[p].m # proc[p].n
      /\ Calm
  BY DEF RenameCheck, Ends, Moves, Becomes, At, Does, Target, Dies, GivesUp, told, Calm
<1>3. Still
  BY DEF RenameCheck, Ends, Moves, Becomes, At, Does, Target, Dies, GivesUp, Still
<1> DEFINE at == IF db THEN "insert" ELSE "move"
<1>4. proc'[p] = [proc[p] EXCEPT !.at = at, !.mine = Messages(proc[p].n), !.title = Title(proc[p].n)]
  BY <1>1, <1>2 DEF RenameCheck, Ends, Moves, Becomes, At, Does, Target, Dies, GivesUp
<1>6. Others(p) /\ proc' = [proc EXCEPT ![p] = proc'[p]]
  BY <1>1 DEF RenameCheck, Ends, Moves, Becomes, At, Does, Target, Dies, GivesUp, Others
<1>8. Messages(proc[p].n) \in Seq(Turns) /\ Title(proc[p].n) \in Titles
  BY <1>1, <1>2, MessagesTyped, TitleTyped DEF Proc, Titles
<1>7. /\ proc'[p].at = (IF db THEN "insert" ELSE "move") /\ Stays(p)
      /\ proc'[p].mine = Messages(proc[p].n)
  BY <1>1, <1>4 DEF Proc, Stays
<1>5. proc' \in [Requests -> Proc]
  <2>1. proc'[p] \in Proc
    BY <1>1, <1>3, <1>4, <1>8 DEF Proc
  <2> QED
    BY <1>1, <1>6, <2>1 DEF TypeOK
<1>9. proc'[p].mine \in Seq(saved')
  BY <1>1, <1>2, <1>7, StoredAreSaved DEF Calm
<1>10. Shape(proc[p])'
  BY <1>1, <1>2, <1>3, <1>7, <1>9 DEF Shape, Stages, Named, Locks, Stays, At
<1>11. LocksFree(p) /\ \A i : LocksMsg(p, i) /\ LocksMeta(p, i)
  BY <1>1, <1>7, NoNewLocks DEF Stays
<1>12. Touched(p)' \subseteq Touched(p)
  BY <1>7, SameSessions DEF Stays
<1>13. ~overlap => Cares(p)'
  BY <1>1, <1>2, <1>3, <1>4, <1>7 DEF Still, Stays, Cares, Clear, Copying, Messages, Exists, TurnsOf, At
<1> QED
  BY <1>1, <1>2, <1>3, <1>5, <1>6, <1>10, <1>11, <1>12, <1>13, CalmCounts, KeepsStill

LEMMA MoveMessagesKeeps ==
    ASSUME IInv, SessionsInv', NEW p \in Requests, MoveMessages(p), ~Dies(p), ~GivesUp(p)
    PROVE  IInv'
<1>1. /\ SessionsInv /\ TypeOK /\ Shaped /\ Kept /\ Apart
      /\ proc[p] \in Proc /\ DOMAIN proc = Requests /\ ino \in [Files -> Nat]
      /\ Shape(proc[p]) /\ (~overlap => Cares(p))
      /\ ~At(p, "idle") /\ proc[p].n \in Names /\ proc[p].m \in Names
      /\ proc[p].op \in {"rename", "sync"}
  BY Atoms, NamesOf, StagesOf DEF MoveMessages, At, Does
<1>2. At(p, "move") /\ Exists(proc[p].n) /\ Calm
  BY DEF MoveMessages, Ends, Moves, Becomes, At, Does, Replace, Exists, Dies, GivesUp, told, Calm
<1>3. /\ \A x \in Names :
            store'[sf(x)] = (IF x = proc[p].n THEN Absent
                             ELSE IF x = proc[p].m THEN store[sf(proc[p].n)] ELSE store[sf(x)])
      /\ \A x \in Names : store'[mf(x)] = store[mf(x)]
      /\ FromMsgs(0) /\ FromMetas(0) /\ Inodes
  <2>1. Replace(p, sf(proc[p].n), sf(proc[p].m))
    BY DEF MoveMessages
  <2> QED
    BY <1>1, <1>2, <2>1, ReplacesMessages
<1>4. proc'[p] = [proc[p] EXCEPT !.at = "moveMeta"]
  BY <1>1, <1>2 DEF MoveMessages, Ends, Moves, Becomes, At, Does, Replace, Exists, Dies, GivesUp
<1>6. Others(p) /\ proc' = [proc EXCEPT ![p] = proc'[p]]
  BY <1>1 DEF MoveMessages, Ends, Moves, Becomes, At, Does, Replace, Exists, Dies, GivesUp, Others
<1>7. proc'[p].at = "moveMeta" /\ Stays(p) /\ proc'[p].mine = proc[p].mine
  BY <1>1, <1>4 DEF Proc, Stays
<1>5. proc' \in [Requests -> Proc]
  <2>1. proc'[p] \in Proc
    BY <1>1, <1>3, <1>4 DEF Proc
  <2> QED
    BY <1>1, <1>6, <2>1 DEF TypeOK
<1>9. proc'[p].mine \in Seq(saved')
  BY <1>1, <1>2, <1>7 DEF Shape, Calm
<1>10. Shape(proc[p])'
  BY <1>1, <1>2, <1>3, <1>7, <1>9 DEF Shape, Stages, Named, Locks, Stays, At
<1>11. LocksFree(p) /\ \A i : LocksMsg(p, i) /\ LocksMeta(p, i)
  BY <1>1, <1>7, NoNewLocks DEF Stays
<1>12. Touched(p)' \subseteq Touched(p)
  BY <1>7, SameSessions DEF Stays
<1>13. /\ said' \in Turns /\ saved' \subseteq 1 .. said'
       /\ saved \subseteq saved' /\ dropped' \subseteq saved'
       /\ overlap' = overlap /\ db' = db
  BY <1>1, <1>2, CalmCounts
<1>14. Kept' /\ Metas'
  <2>1. Kept'
    BY <1>1, <1>2, <1>3 DEF Kept, Shape, Calm
  <2>2. Metas'
    BY <1>1, <1>3 DEF TypeOK, Metas, Proc, Titles
  <2> QED
    BY <2>1, <2>2
<1>15. Apart'
  BY <1>1, <1>3, <1>6, <1>11, StayApart, FreshIsNeither
<1>16. Outside(p)
  BY <1>1, <1>2, <1>3, OwnFiles DEF Outside, Writers
<1>17. ~overlap => NoTurnLost'
  <2> SUFFICES ASSUME ~overlap PROVE Lossless
    BY <1>2, NoneLost DEF Calm
  <2>1. proc[p].m # proc[p].n /\ TurnsOf(Messages(proc[p].m)) = {}
    BY <1>1, <1>2 DEF Cares, Clear, Messages, TurnsOf, At
  <2>2. \A x \in Names : x \notin {proc[p].n, proc[p].m} => Messages(x)' = Messages(x)
    BY <1>3 DEF Messages, Exists
  <2>3. \A x \in Names : x = proc[p].m => Messages(x)' = Messages(proc[p].n)
    BY <1>1, <1>2, <1>3, <2>1 DEF Messages, Exists
  <2> QED
    BY <1>1, <2>1, <2>2, <2>3 DEF Lossless, TurnsOf
<1>18. ~overlap => Cares(p)'
  BY <1>1, <1>2, <1>3, <1>7 DEF Stays, Cares, Clear, Copying, Messages, Exists, TurnsOf, At
<1> QED
  BY <1>3, <1>5, <1>6, <1>10, <1>11, <1>12, <1>13, <1>14, <1>15, <1>16, <1>17, <1>18, Keeps

LEMMA MoveMetaKeeps ==
    ASSUME IInv, SessionsInv', NEW p \in Requests, MoveMeta(p), ~Dies(p), ~GivesUp(p)
    PROVE  IInv'
<1>1. /\ SessionsInv /\ TypeOK /\ Shaped /\ Kept /\ Apart
      /\ proc[p] \in Proc /\ DOMAIN proc = Requests /\ ino \in [Files -> Nat]
      /\ Shape(proc[p]) /\ (~overlap => Cares(p))
      /\ ~At(p, "idle") /\ proc[p].n \in Names /\ proc[p].m \in Names
      /\ proc[p].op \in {"rename", "sync"}
  BY Atoms, NamesOf, StagesOf DEF MoveMeta, At, Does
<1>2. At(p, "moveMeta") /\ Calm
  BY DEF MoveMeta, Ends, Moves, Becomes, At, Does, Dies, GivesUp, told, Calm
<1>3. /\ \A x \in Names : store'[sf(x)] = store[sf(x)]
      /\ \A x \in Names : store'[mf(x)] \in {store[mf(x)], store[mf(proc[p].n)], Absent}
      /\ \A x \in Names : x # proc[p].n /\ store[mf(x)] # Absent => store'[mf(x)] # Absent
      /\ FromMsgs(0) /\ FromMetas(0) /\ Inodes
  <2>1. Replace(p, mf(proc[p].n), mf(proc[p].m))
    BY DEF MoveMeta
  <2> QED
    BY <1>1, <2>1, ReplacesMeta
<1>4. proc'[p] = Idle /\ proc' = [proc EXCEPT ![p] = Idle]
  BY <1>1, <1>2 DEF MoveMeta, Ends, Moves, Becomes, At, Does, Dies, GivesUp
<1>5. proc' \in [Requests -> Proc] /\ Others(p)
  BY <1>1, <1>4, IdleTyped DEF TypeOK, Others
<1>13. /\ said' \in Turns /\ saved' \subseteq 1 .. said'
       /\ saved \subseteq saved' /\ dropped' \subseteq saved'
       /\ overlap' = overlap /\ db' = db
  BY <1>1, <1>2, CalmCounts
<1>14. Kept' /\ Metas'
  <2>1. Kept'
    BY <1>1, <1>2, <1>3 DEF Kept, Shape, Calm
  <2>2. Metas'
    BY <1>1, <1>3 DEF TypeOK, Metas, Proc, Titles
  <2> QED
    BY <2>1, <2>2
<1>15. Apart'
  BY <1>1, <1>3, <1>5, <1>4, Ended, StayApart, FreshIsNeither
<1>16. Outside(p)
  BY <1>1, <1>2, <1>3, OwnFiles, SessionsAssumption DEF Outside, Writers, Proc, Titles
<1>17. ~overlap => NoTurnLost'
  <2>1. \A x \in Names : Messages(x)' = Messages(x)
    BY <1>3 DEF Messages, Exists
  <2> QED
    BY <1>2, <2>1, NoneLost DEF Calm, Lossless
<1> QED
  BY <1>3, <1>4, <1>5, <1>13, <1>14, <1>15, <1>16, <1>17, Ended, Keeps

LEMMA InsertRowKeeps ==
    ASSUME IInv, SessionsInv', NEW p \in Requests, InsertRow(p), ~Dies(p), ~GivesUp(p)
    PROVE  IInv'
<1>1. /\ SessionsInv /\ TypeOK /\ Shaped /\ Kept /\ Apart
      /\ proc[p] \in Proc /\ DOMAIN proc = Requests /\ ino \in [Files -> Nat]
      /\ Shape(proc[p]) /\ (~overlap => Cares(p))
      /\ ~At(p, "idle") /\ proc[p].n \in Names /\ proc[p].m \in Names
      /\ proc[p].op \in {"rename", "sync"}
  BY Atoms, NamesOf, StagesOf DEF InsertRow, At, Does
<1>2. At(p, "insert") /\ Calm
  BY DEF InsertRow, Ends, Moves, Becomes, At, Does, Dies, GivesUp, told, Calm
<1>3. /\ \A x \in Names : store'[sf(x)] = (IF x = proc[p].m THEN proc[p].mine ELSE store[sf(x)])
      /\ \A x \in Names : store'[mf(x)] = (IF x = proc[p].m THEN proc[p].title ELSE store[mf(x)])
      /\ FromMsgs(0) /\ FromMetas(0) /\ Inodes
  <2>1. /\ DOMAIN store = Files
        /\ store' = [store EXCEPT ![sf(proc[p].m)] = proc[p].mine, ![mf(proc[p].m)] = proc[p].title]
    BY <1>1 DEF InsertRow, SessionsInv, SoundStore
  <2>2. ino' = ino
    BY DEF InsertRow
  <2>3. FromMsgs(0) /\ FromMetas(0) /\ Inodes
    BY <1>1, <2>2 DEF FromMsgs, FromMetas, Inodes
  <2> QED
    BY <1>1, <2>1, <2>3, FilesApart
<1>4. proc'[p] = [proc[p] EXCEPT !.at = "drop"]
  BY <1>1, <1>2 DEF InsertRow, Ends, Moves, Becomes, At, Does, Dies, GivesUp
<1>6. Others(p) /\ proc' = [proc EXCEPT ![p] = proc'[p]]
  BY <1>1 DEF InsertRow, Ends, Moves, Becomes, At, Does, Dies, GivesUp, Others
<1>7. proc'[p].at = "drop" /\ Stays(p) /\ proc'[p].mine = proc[p].mine
  BY <1>1, <1>4 DEF Proc, Stays
<1>5. proc' \in [Requests -> Proc]
  <2>1. proc'[p] \in Proc
    BY <1>1, <1>3, <1>4 DEF Proc
  <2> QED
    BY <1>1, <1>6, <2>1 DEF TypeOK
<1>9. proc'[p].mine \in Seq(saved')
  BY <1>1, <1>2, <1>7 DEF Shape, Calm
<1>10. Shape(proc[p])'
  BY <1>1, <1>2, <1>3, <1>7, <1>9 DEF Shape, Stages, Named, Locks, Stays, At
<1>11. LocksFree(p) /\ \A i : LocksMsg(p, i) /\ LocksMeta(p, i)
  BY <1>1, <1>7, NoNewLocks DEF Stays
<1>12. Touched(p)' \subseteq Touched(p)
  BY <1>7, SameSessions DEF Stays
<1>13. /\ said' \in Turns /\ saved' \subseteq 1 .. said'
       /\ saved \subseteq saved' /\ dropped' \subseteq saved'
       /\ overlap' = overlap /\ db' = db
  BY <1>1, <1>2, CalmCounts
<1>14. Kept' /\ Metas'
  <2>1. Kept'
    BY <1>1, <1>2, <1>3 DEF Kept, Shape, Calm
  <2>2. Metas'
    BY <1>1, <1>3 DEF TypeOK, Metas, Proc, Titles
  <2> QED
    BY <2>1, <2>2
<1>15. Apart'
  BY <1>1, <1>3, <1>6, <1>11, StayApart, FreshIsNeither
<1>16. Outside(p)
  BY <1>1, <1>2, <1>3, OwnFiles, SessionsAssumption DEF Outside, Writers, Proc, Titles
<1>17. ~overlap => NoTurnLost'
  <2> SUFFICES ASSUME ~overlap PROVE Lossless
    BY <1>2, NoneLost DEF Calm
  <2>1. \A x \in Names : x # proc[p].m => Messages(x)' = Messages(x)
    BY <1>3 DEF Messages, Exists
  <2>2. TurnsOf(Messages(proc[p].m)) = {}
    BY <1>1, <1>2 DEF Cares, Clear, Messages, TurnsOf, At
  <2> QED
    BY <1>1, <1>2, <2>1, <2>2 DEF Lossless, TurnsOf
<1>18. ~overlap => Cares(p)'
  BY <1>1, <1>2, <1>3, <1>7 DEF Stays, Cares, Clear, Copying, Messages, Exists, TurnsOf, At
<1> QED
  BY <1>3, <1>5, <1>6, <1>10, <1>11, <1>12, <1>13, <1>14, <1>15, <1>16, <1>17, <1>18, Keeps

LEMMA DropRowKeeps ==
    ASSUME IInv, SessionsInv', NEW p \in Requests, DropRow(p), ~Dies(p), ~GivesUp(p)
    PROVE  IInv'
<1>1. /\ SessionsInv /\ TypeOK /\ Shaped /\ Kept /\ Apart
      /\ proc[p] \in Proc /\ DOMAIN proc = Requests /\ ino \in [Files -> Nat]
      /\ Shape(proc[p]) /\ (~overlap => Cares(p))
      /\ ~At(p, "idle") /\ proc[p].n \in Names /\ proc[p].m \in Names
      /\ proc[p].op \in {"rename", "sync"}
  BY Atoms, NamesOf, StagesOf DEF DropRow, At, Does
<1>2. At(p, "drop") /\ Calm
  BY DEF DropRow, Ends, Moves, Becomes, At, Does, Dies, GivesUp, told, Calm
<1>3. /\ \A x \in Names : store'[sf(x)] = (IF x = proc[p].n THEN Absent ELSE store[sf(x)])
      /\ \A x \in Names : store'[mf(x)] = (IF x = proc[p].n THEN Absent ELSE store[mf(x)])
      /\ FromMsgs(0) /\ FromMetas(0) /\ Inodes
  <2>1. Unlink({sf(proc[p].n), mf(proc[p].n)})
    BY <1>2 DEF DropRow, Ends, Moves, Becomes, At, Does, Dies, GivesUp
  <2> QED
    BY <1>1, <2>1, UnlinksOnly, FilesApart
<1>4. proc'[p] = Idle /\ proc' = [proc EXCEPT ![p] = Idle]
  BY <1>1, <1>2 DEF DropRow, Ends, Moves, Becomes, At, Does, Dies, GivesUp
<1>5. proc' \in [Requests -> Proc] /\ Others(p)
  BY <1>1, <1>4, IdleTyped DEF TypeOK, Others
<1>13. /\ said' \in Turns /\ saved' \subseteq 1 .. said'
       /\ saved \subseteq saved' /\ dropped' \subseteq saved'
       /\ overlap' = overlap /\ db' = db
  BY <1>1, <1>2, CalmCounts
<1>14. Kept' /\ Metas'
  <2>1. Kept'
    BY <1>1, <1>2, <1>3 DEF Kept, Shape, Calm
  <2>2. Metas'
    BY <1>1, <1>3 DEF TypeOK, Metas, Proc, Titles
  <2> QED
    BY <2>1, <2>2
<1>15. Apart'
  BY <1>1, <1>3, <1>5, <1>4, Ended, StayApart, FreshIsNeither
<1>16. Outside(p)
  BY <1>1, <1>2, <1>3, OwnFiles DEF Outside, Writers
<1>17. ~overlap => NoTurnLost'
  <2> SUFFICES ASSUME ~overlap PROVE Lossless
    BY <1>2, NoneLost DEF Calm
  <2>1. proc[p].m # proc[p].n /\ Messages(proc[p].m) = Messages(proc[p].n)
    BY <1>1, <1>2 DEF Cares, At
  <2>2. \A x \in Names : x # proc[p].n => Messages(x)' = Messages(x)
    BY <1>3 DEF Messages, Exists
  <2> QED
    BY <1>1, <2>1, <2>2 DEF Lossless, TurnsOf
<1> QED
  BY <1>3, <1>4, <1>5, <1>13, <1>14, <1>15, <1>16, <1>17, Ended, Keeps

LEMMA SyncCheckKeeps ==
    ASSUME IInv, SessionsInv', NEW p \in Requests, SyncCheck(p), ~Dies(p), ~GivesUp(p)
    PROVE  IInv'
<1>1. /\ SessionsInv /\ TypeOK /\ Shaped /\ Kept /\ Apart
      /\ proc[p] \in Proc /\ DOMAIN proc = Requests /\ ino \in [Files -> Nat]
      /\ Shape(proc[p]) /\ (~overlap => Cares(p))
      /\ ~At(p, "idle") /\ proc[p].n \in Names
      /\ proc[p].op \in {"sync"}
  BY Atoms, NamesOf, StagesOf DEF SyncCheck, At, Does
<1>2. At(p, "check") /\ proc[p].op = "sync" /\ Exists(proc[p].n) /\ Calm
  BY DEF SyncCheck, Ends, Moves, Becomes, At, Does, Target, Dies, GivesUp, told, Calm
<1>3. Still
  BY DEF SyncCheck, Ends, Moves, Becomes, At, Does, Target, Dies, GivesUp, Still
<1>4. PICK m \in Names :
         /\ proc'[p] = [proc[p] EXCEPT !.at = IF db THEN "fetch" ELSE "open", !.m = m,
                                       !.title = Title(proc[p].n)]
         /\ m # proc[p].n /\ ~Exists(m)
  BY <1>1, <1>2 DEF SyncCheck, Ends, Moves, Becomes, At, Does, Target, Dies, GivesUp
<1>6. Others(p) /\ proc' = [proc EXCEPT ![p] = proc'[p]]
  BY <1>1 DEF SyncCheck, Ends, Moves, Becomes, At, Does, Target, Dies, GivesUp, Others
<1>8. Title(proc[p].n) \in Titles /\ m \in Titles
  BY <1>1, <1>2, TitleTyped DEF Proc, Titles
<1>7. /\ proc'[p].at = (IF db THEN "fetch" ELSE "open") /\ proc'[p].op = proc[p].op
      /\ proc'[p].n = proc[p].n /\ proc'[p].m = m /\ proc'[p].mine = proc[p].mine
      /\ proc'[p].turn = proc[p].turn /\ proc'[p].meta = proc[p].meta
      /\ proc'[p].wants = proc[p].wants /\ proc'[p].holds = proc[p].holds
  BY <1>1, <1>4 DEF Proc, Stays
<1>5. proc' \in [Requests -> Proc]
  <2>1. proc'[p] \in Proc
    BY <1>1, <1>3, <1>4, <1>8 DEF Proc
  <2> QED
    BY <1>1, <1>6, <2>1 DEF TypeOK
<1>9. proc'[p].mine \in Seq(saved')
  BY <1>1, <1>2, <1>7 DEF Shape, Calm
<1>10. Shape(proc[p])'
  BY <1>1, <1>2, <1>3, <1>7, <1>9 DEF Shape, Stages, Named, Locks, Stays, At
<1>11. LocksFree(p) /\ \A i : LocksMsg(p, i) /\ LocksMeta(p, i)
  BY <1>1, <1>7, NoNewLocks DEF Stays
<1>12. Touched(p)' \subseteq Touched(p)
  BY <1>1, <1>7 DEF Touched, Touches
<1>13. ~overlap => Cares(p)'
  BY <1>1, <1>2, <1>3, <1>4, <1>7 DEF Still, Stays, Cares, Clear, Copying, Messages, Exists, TurnsOf, At
<1> QED
  BY <1>1, <1>2, <1>3, <1>5, <1>6, <1>10, <1>11, <1>12, <1>13, CalmCounts, KeepsStill

LEMMA MergeCheckKeeps ==
    ASSUME IInv, SessionsInv', NEW p \in Requests, MergeCheck(p), ~Dies(p), ~GivesUp(p)
    PROVE  IInv'
<1>1. /\ SessionsInv /\ TypeOK /\ Shaped /\ Kept /\ Apart
      /\ proc[p] \in Proc /\ DOMAIN proc = Requests /\ ino \in [Files -> Nat]
      /\ Shape(proc[p]) /\ (~overlap => Cares(p))
      /\ ~At(p, "idle") /\ proc[p].n \in Names /\ proc[p].m \in Names
      /\ proc[p].op \in {"merge"}
  BY Atoms, NamesOf, StagesOf DEF MergeCheck, At, Does, Chats, OpNames, Shape, Named
<1>2. /\ At(p, "check") /\ proc[p].op = "merge"
      /\ Exists(proc[p].n) /\ ~Exists(proc[p].m) /\ proc[p].m # proc[p].n
      /\ Calm
  BY DEF MergeCheck, Ends, Moves, Becomes, At, Does, Target, Dies, GivesUp, told, Calm
<1>3. Still
  BY DEF MergeCheck, Ends, Moves, Becomes, At, Does, Target, Dies, GivesUp, Still
<1>4. proc'[p] = [proc[p] EXCEPT !.at = "load", !.meta = TRUE]
  BY <1>1, <1>2 DEF MergeCheck, Ends, Moves, Becomes, At, Does, Target, Dies, GivesUp
<1>6. Others(p) /\ proc' = [proc EXCEPT ![p] = proc'[p]]
  BY <1>1 DEF MergeCheck, Ends, Moves, Becomes, At, Does, Target, Dies, GivesUp, Others
<1>7. /\ proc'[p].at = "load" /\ proc'[p].op = proc[p].op /\ proc'[p].n = proc[p].n
      /\ proc'[p].m = proc[p].m /\ proc'[p].mine = proc[p].mine /\ proc'[p].turn = proc[p].turn
      /\ proc'[p].meta = TRUE /\ proc'[p].wants = proc[p].wants /\ proc'[p].holds = proc[p].holds
  BY <1>1, <1>4 DEF Proc, Stays
<1>5. proc' \in [Requests -> Proc]
  <2>1. proc'[p] \in Proc
    BY <1>1, <1>3, <1>4 DEF Proc
  <2> QED
    BY <1>1, <1>6, <2>1 DEF TypeOK
<1>9. proc'[p].mine \in Seq(saved')
  BY <1>1, <1>2, <1>7 DEF Shape, Calm
<1>10. Shape(proc[p])'
  BY <1>1, <1>2, <1>3, <1>7, <1>9 DEF Shape, Stages, Named, Locks, Stays, At
<1>11. LocksFree(p) /\ \A i : LocksMsg(p, i) /\ LocksMeta(p, i)
  BY <1>1, <1>7, NoNewLocks DEF Stays
<1>12. Touched(p)' \subseteq Touched(p)
  BY <1>7, SameSessions DEF Stays
<1>13. ~overlap => Cares(p)'
  BY <1>1, <1>2, <1>3, <1>7 DEF Still, Stays, Cares, Clear, Copying, Messages, Exists, TurnsOf, At
<1> QED
  BY <1>1, <1>2, <1>3, <1>5, <1>6, <1>10, <1>11, <1>12, <1>13, CalmCounts, KeepsStill

LEMMA CopyLoadKeeps ==
    ASSUME IInv, SessionsInv', NEW p \in Requests, CopyLoad(p), ~Dies(p), ~GivesUp(p)
    PROVE  IInv'
<1>1. /\ SessionsInv /\ TypeOK /\ Shaped /\ Kept /\ Apart
      /\ proc[p] \in Proc /\ DOMAIN proc = Requests /\ ino \in [Files -> Nat]
      /\ Shape(proc[p]) /\ (~overlap => Cares(p))
      /\ ~At(p, "idle") /\ proc[p].n \in Names /\ proc[p].m \in Names
      /\ proc[p].op \in {"sync", "merge"}
  BY Atoms, NamesOf, StagesOf DEF CopyLoad, At, Does, Chats, OpNames, Shape, Named
<1>2. At(p, "load") /\ proc[p].op \in {"sync", "merge"} /\ Calm
  BY DEF CopyLoad, Ends, Moves, Becomes, At, Does, Dies, GivesUp, told, Calm
<1>3. Still
  BY DEF CopyLoad, Ends, Moves, Becomes, At, Does, Dies, GivesUp, Still
<1> DEFINE title == IF proc[p].op = "merge" THEN Title(proc[p].n) ELSE proc[p].title
<1>4. proc'[p] = [proc[p] EXCEPT !.at = "copy", !.mine = Messages(proc[p].n), !.title = title]
  BY <1>1, <1>2 DEF CopyLoad, Ends, Moves, Becomes, At, Does, Dies, GivesUp
<1>6. Others(p) /\ proc' = [proc EXCEPT ![p] = proc'[p]]
  BY <1>1 DEF CopyLoad, Ends, Moves, Becomes, At, Does, Dies, GivesUp, Others
<1>8. Messages(proc[p].n) \in Seq(Turns) /\ title \in Titles
  BY <1>1, <1>2, MessagesTyped, TitleTyped DEF Proc, Titles
<1>7. proc'[p].at = "copy" /\ Stays(p) /\ proc'[p].mine = Messages(proc[p].n)
  BY <1>1, <1>4 DEF Proc, Stays
<1> HIDE DEF title
<1>5. proc' \in [Requests -> Proc]
  <2>1. proc'[p] \in Proc
    BY <1>1, <1>3, <1>4, <1>8 DEF Proc
  <2> QED
    BY <1>1, <1>6, <2>1 DEF TypeOK
<1>9. proc'[p].mine \in Seq(saved')
  BY <1>1, <1>2, <1>7, StoredAreSaved DEF Calm
<1>10. Shape(proc[p])'
  BY <1>1, <1>2, <1>3, <1>7, <1>9 DEF Shape, Stages, Named, Locks, Stays, At
<1>11. LocksFree(p) /\ \A i : LocksMsg(p, i) /\ LocksMeta(p, i)
  BY <1>1, <1>7, NoNewLocks DEF Stays
<1>12. Touched(p)' \subseteq Touched(p)
  BY <1>7, SameSessions DEF Stays
<1>13. ~overlap => Cares(p)'
  BY <1>1, <1>2, <1>3, <1>7 DEF Still, Stays, Cares, Clear, Copying, Messages, Exists, TurnsOf, At
<1> QED
  BY <1>1, <1>2, <1>3, <1>5, <1>6, <1>10, <1>11, <1>12, <1>13, CalmCounts, KeepsStill

LEMMA CopyKeeps ==
    ASSUME IInv, SessionsInv', NEW p \in Requests, Copy(p), ~Dies(p), ~GivesUp(p)
    PROVE  IInv'
<1>1. /\ SessionsInv /\ TypeOK /\ Shaped /\ Kept /\ Apart
      /\ proc[p] \in Proc /\ DOMAIN proc = Requests /\ ino \in [Files -> Nat]
      /\ Shape(proc[p]) /\ (~overlap => Cares(p))
      /\ ~At(p, "idle") /\ proc[p].n \in Names /\ proc[p].m \in Names
      /\ proc[p].op \in {"sync", "merge"}
  BY Atoms, NamesOf, StagesOf DEF Copy, At, Does
<1>2. At(p, "copy") /\ Calm
  BY DEF Copy, Ends, Moves, Becomes, At, Does, Copied, CopyFails, Dies, GivesUp, told, Calm
<1>3. /\ \A x \in Names : store'[sf(x)] = (IF x = proc[p].m THEN proc[p].mine ELSE store[sf(x)])
      /\ \A x \in Names : store'[mf(x)] = store[mf(x)]
      /\ FromMsgs(Fresh) /\ FromMetas(0) /\ Inodes
  <2>1. Put(sf(proc[p].m), proc[p].mine)
    BY <1>2 DEF Copy, Ends, Moves, Becomes, At, Does, Copied, CopyFails, Dies, GivesUp
  <2> QED
    BY <1>1, <2>1, PutsMessages
<1>4. \/ proc[p].op # "sync" /\ proc'[p] = Idle
      \/ proc[p].op = "sync" /\ proc'[p] = [proc[p] EXCEPT !.at = "unlink"]
      \/ proc[p].meta /\ proc'[p] = [proc[p] EXCEPT !.at = "copyMeta"]
  BY <1>1, <1>2 DEF Copy, Ends, Moves, Becomes, At, Does, Copied, CopyFails, Dies, GivesUp
<1>6. Others(p) /\ proc' = [proc EXCEPT ![p] = proc'[p]]
  BY <1>1 DEF Copy, Ends, Moves, Becomes, At, Does, Copied, CopyFails, Dies, GivesUp, Others
<1>8. proc'[p] \in Proc
  <2>1. \A at \in {"unlink", "copyMeta"} : [proc[p] EXCEPT !.at = at] \in Proc
    BY <1>1 DEF Proc
  <2> QED
    BY <1>4, <2>1, IdleTyped
<1>5. proc' \in [Requests -> Proc]
  BY <1>1, <1>6, <1>8 DEF TypeOK
<1>9. saved' = saved
  BY <1>2 DEF Calm
<1>10. /\ Shape(proc[p])' /\ LocksFree(p) /\ (\A i : LocksMsg(p, i) /\ LocksMeta(p, i))
       /\ Touched(p)' \subseteq Touched(p) /\ (~overlap => Cares(p)')
  <2>1. CASE proc'[p] = Idle
    BY <2>1, Ended
  <2>2. CASE proc[p].op = "sync" /\ proc'[p] = [proc[p] EXCEPT !.at = "unlink"]
    <3>1. proc'[p].at = "unlink" /\ proc'[p].mine = proc[p].mine /\ Stays(p)
      BY <1>1, <2>2 DEF Proc, Stays
    <3>2. Shape(proc[p])'
      BY <1>1, <1>2, <1>9, <2>2, <3>1 DEF Shape, Stages, Named, Locks, Stays, At
    <3>3. LocksFree(p) /\ \A i : LocksMsg(p, i) /\ LocksMeta(p, i)
      BY <1>1, <3>1, NoNewLocks DEF Stays
    <3>4. Touched(p)' \subseteq Touched(p)
      BY <3>1, SameSessions DEF Stays
    <3>5. ~overlap => Cares(p)'
      BY <1>1, <1>2, <1>3, <2>2, <3>1 DEF Stays, Cares, Clear, Copying, Messages, Exists, TurnsOf, At
    <3> QED
      BY <3>2, <3>3, <3>4, <3>5
  <2>3. CASE proc[p].meta /\ proc'[p] = [proc[p] EXCEPT !.at = "copyMeta"]
    <3>1. proc'[p].at = "copyMeta" /\ proc'[p].mine = proc[p].mine /\ Stays(p)
      BY <1>1, <2>3, AtChanges
    <3>2. Shape(proc[p])'
      BY <1>1, <1>2, <1>9, <2>3, <3>1 DEF Shape, Stages, Named, Locks, Stays, At
    <3>3. LocksFree(p) /\ \A i : LocksMsg(p, i) /\ LocksMeta(p, i)
      BY <1>1, <3>1, NoNewLocks DEF Stays
    <3>4. Touched(p)' \subseteq Touched(p)
      BY <3>1, SameSessions DEF Stays
    <3>5. ~overlap => Cares(p)'
      BY <1>1, <1>2, <1>3, <2>3, <3>1 DEF Stays, Cares, Clear, Copying, Messages, Exists, TurnsOf, At
    <3> QED
      BY <3>2, <3>3, <3>4, <3>5
  <2> QED
    BY <1>4, <2>1, <2>2, <2>3
<1>13. /\ said' \in Turns /\ saved' \subseteq 1 .. said'
       /\ saved \subseteq saved' /\ dropped' \subseteq saved'
       /\ overlap' = overlap /\ db' = db
  BY <1>1, <1>2, CalmCounts
<1>14. Kept' /\ Metas'
  <2>1. Kept'
    BY <1>1, <1>2, <1>3 DEF Kept, Shape, Calm
  <2>2. Metas'
    BY <1>1, <1>3 DEF TypeOK, Metas, Proc, Titles
  <2> QED
    BY <2>1, <2>2
<1>15. Apart'
  BY <1>1, <1>3, <1>6, <1>10, StayApart, FreshIsNeither
<1>16. Outside(p)
  BY <1>1, <1>2, <1>3, OwnFiles DEF Outside, Writers
<1>17. ~overlap => NoTurnLost'
  <2> SUFFICES ASSUME ~overlap PROVE Lossless
    BY <1>2, NoneLost DEF Calm
  <2>1. \A x \in Names : x # proc[p].m => Messages(x)' = Messages(x)
    BY <1>3 DEF Messages, Exists
  <2>2. TurnsOf(Messages(proc[p].m)) = {}
    BY <1>1, <1>2 DEF Cares, Clear, Messages, TurnsOf, At
  <2> QED
    BY <1>1, <1>2, <2>1, <2>2 DEF Lossless, TurnsOf
<1> QED
  BY <1>3, <1>5, <1>6, <1>10, <1>13, <1>14, <1>15, <1>16, <1>17, Keeps

LEMMA CopyMetaKeeps ==
    ASSUME IInv, SessionsInv', NEW p \in Requests, CopyMeta(p), ~Dies(p), ~GivesUp(p)
    PROVE  IInv'
<1>1. /\ SessionsInv /\ TypeOK /\ Shaped /\ Kept /\ Apart
      /\ proc[p] \in Proc /\ DOMAIN proc = Requests /\ ino \in [Files -> Nat]
      /\ Shape(proc[p]) /\ (~overlap => Cares(p))
      /\ ~At(p, "idle") /\ proc[p].n \in Names /\ proc[p].m \in Names
      /\ proc[p].op \in {"sync", "merge"}
  BY Atoms, NamesOf, StagesOf DEF CopyMeta, At, Does
<1>2. At(p, "copyMeta") /\ Calm
  BY DEF CopyMeta, Ends, Moves, Becomes, At, Does, Copied, CopyFails, Dies, GivesUp, told, Calm
<1>3. /\ \A x \in Names : store'[sf(x)] = store[sf(x)]
      /\ \A x \in Names : store'[mf(x)] = (IF x = proc[p].m THEN proc[p].title ELSE store[mf(x)])
      /\ FromMsgs(0) /\ FromMetas(Fresh) /\ Inodes
  <2>1. Put(mf(proc[p].m), proc[p].title)
    BY <1>2 DEF CopyMeta, Ends, Moves, Becomes, At, Does, Copied, CopyFails, Dies, GivesUp
  <2> QED
    BY <1>1, <2>1, PutsMeta
<1>4. \/ proc[p].op # "sync" /\ proc'[p] = Idle
      \/ proc[p].op = "sync" /\ proc'[p] = [proc[p] EXCEPT !.at = "unlink"]
  BY <1>1, <1>2 DEF CopyMeta, Ends, Moves, Becomes, At, Does, Copied, CopyFails, Dies, GivesUp
<1>6. Others(p) /\ proc' = [proc EXCEPT ![p] = proc'[p]]
  BY <1>1 DEF CopyMeta, Ends, Moves, Becomes, At, Does, Copied, CopyFails, Dies, GivesUp, Others
<1>8. proc'[p] \in Proc
  BY <1>1, <1>4, IdleTyped, AtChanges
<1>5. proc' \in [Requests -> Proc]
  BY <1>1, <1>6, <1>8 DEF TypeOK
<1>9. saved' = saved
  BY <1>2 DEF Calm
<1>10. /\ Shape(proc[p])' /\ LocksFree(p) /\ (\A i : LocksMsg(p, i) /\ LocksMeta(p, i))
       /\ Touched(p)' \subseteq Touched(p) /\ (~overlap => Cares(p)')
  <2>1. CASE proc'[p] = Idle
    BY <2>1, Ended
  <2>2. CASE proc[p].op = "sync" /\ proc'[p] = [proc[p] EXCEPT !.at = "unlink"]
    <3>1. proc'[p].at = "unlink" /\ proc'[p].mine = proc[p].mine /\ Stays(p)
      BY <1>1, <2>2 DEF Proc, Stays
    <3>2. Shape(proc[p])'
      BY <1>1, <1>2, <1>9, <2>2, <3>1 DEF Shape, Stages, Named, Locks, Stays, At
    <3>3. LocksFree(p) /\ \A i : LocksMsg(p, i) /\ LocksMeta(p, i)
      BY <1>1, <3>1, NoNewLocks DEF Stays
    <3>4. Touched(p)' \subseteq Touched(p)
      BY <3>1, SameSessions DEF Stays
    <3>5. ~overlap => Cares(p)'
      BY <1>1, <1>2, <1>3, <2>2, <3>1 DEF Stays, Cares, Clear, Copying, Messages, Exists, TurnsOf, At
    <3> QED
      BY <3>2, <3>3, <3>4, <3>5
  <2> QED
    BY <1>4, <2>1, <2>2
<1>13. /\ said' \in Turns /\ saved' \subseteq 1 .. said'
       /\ saved \subseteq saved' /\ dropped' \subseteq saved'
       /\ overlap' = overlap /\ db' = db
  BY <1>1, <1>2, CalmCounts
<1>14. Kept' /\ Metas'
  <2>1. Kept'
    BY <1>1, <1>2, <1>3 DEF Kept, Shape, Calm
  <2>2. Metas'
    BY <1>1, <1>3 DEF TypeOK, Metas, Proc, Titles
  <2> QED
    BY <2>1, <2>2
<1>15. Apart'
  BY <1>1, <1>3, <1>6, <1>10, StayApart, FreshIsNeither
<1>16. Outside(p)
  BY <1>1, <1>2, <1>3, OwnFiles, SessionsAssumption DEF Outside, Writers, Proc, Titles
<1>17. ~overlap => NoTurnLost'
  <2>1. \A x \in Names : Messages(x)' = Messages(x)
    BY <1>3 DEF Messages, Exists
  <2> QED
    BY <1>2, <2>1, NoneLost DEF Calm, Lossless
<1> QED
  BY <1>3, <1>5, <1>6, <1>10, <1>13, <1>14, <1>15, <1>16, <1>17, Keeps

LEMMA UnlinkOldKeeps ==
    ASSUME IInv, SessionsInv', NEW p \in Requests, UnlinkOld(p), ~Dies(p), ~GivesUp(p)
    PROVE  IInv'
<1>1. /\ SessionsInv /\ TypeOK /\ Shaped /\ Kept /\ Apart
      /\ proc[p] \in Proc /\ DOMAIN proc = Requests /\ ino \in [Files -> Nat]
      /\ Shape(proc[p]) /\ (~overlap => Cares(p))
      /\ ~At(p, "idle") /\ proc[p].n \in Names /\ proc[p].m \in Names
      /\ proc[p].op \in {"sync"}
  BY Atoms, NamesOf, StagesOf DEF UnlinkOld, At, Does
<1>2. At(p, "unlink") /\ Exists(proc[p].n) /\ Calm
  BY DEF UnlinkOld, Ends, Moves, Becomes, At, Does, Dies, GivesUp, told, Calm
<1>3. /\ \A x \in Names : store'[sf(x)] = (IF x = proc[p].n THEN Absent ELSE store[sf(x)])
      /\ \A x \in Names : store'[mf(x)] = store[mf(x)]
      /\ FromMsgs(0) /\ FromMetas(0) /\ Inodes
  <2>1. Unlink({sf(proc[p].n)})
    BY <1>2 DEF UnlinkOld, Ends, Moves, Becomes, At, Does, Dies, GivesUp
  <2> QED
    BY <1>1, <2>1, UnlinksOnly, FilesApart
<1>4. \/ proc'[p] = Idle
      \/ proc[p].meta /\ proc'[p] = [proc[p] EXCEPT !.at = "unlinkMeta"]
  BY <1>1, <1>2 DEF UnlinkOld, Ends, Moves, Becomes, At, Does, Dies, GivesUp
<1>6. Others(p) /\ proc' = [proc EXCEPT ![p] = proc'[p]]
  BY <1>1 DEF UnlinkOld, Ends, Moves, Becomes, At, Does, Dies, GivesUp, Others
<1>8. proc'[p] \in Proc
  BY <1>1, <1>4, IdleTyped, AtChanges
<1>5. proc' \in [Requests -> Proc]
  BY <1>1, <1>6, <1>8 DEF TypeOK
<1>9. saved' = saved
  BY <1>2 DEF Calm
<1>10. /\ Shape(proc[p])' /\ LocksFree(p) /\ (\A i : LocksMsg(p, i) /\ LocksMeta(p, i))
       /\ Touched(p)' \subseteq Touched(p) /\ (~overlap => Cares(p)')
  <2>1. CASE proc'[p] = Idle
    BY <2>1, Ended
  <2>2. CASE proc[p].meta /\ proc'[p] = [proc[p] EXCEPT !.at = "unlinkMeta"]
    <3>1. proc'[p].at = "unlinkMeta" /\ proc'[p].mine = proc[p].mine /\ Stays(p)
      BY <1>1, <2>2, AtChanges
    <3>2. Shape(proc[p])'
      BY <1>1, <1>2, <1>9, <2>2, <3>1 DEF Shape, Stages, Named, Locks, Stays, At
    <3>3. LocksFree(p) /\ \A i : LocksMsg(p, i) /\ LocksMeta(p, i)
      BY <1>1, <3>1, NoNewLocks DEF Stays
    <3>4. Touched(p)' \subseteq Touched(p)
      BY <3>1, SameSessions DEF Stays
    <3>5. ~overlap => Cares(p)'
      BY <1>1, <1>2, <1>3, <2>2, <3>1 DEF Stays, Cares, Clear, Copying, Messages, Exists, TurnsOf, At
    <3> QED
      BY <3>2, <3>3, <3>4, <3>5
  <2> QED
    BY <1>4, <2>1, <2>2
<1>13. /\ said' \in Turns /\ saved' \subseteq 1 .. said'
       /\ saved \subseteq saved' /\ dropped' \subseteq saved'
       /\ overlap' = overlap /\ db' = db
  BY <1>1, <1>2, CalmCounts
<1>14. Kept' /\ Metas'
  <2>1. Kept'
    BY <1>1, <1>2, <1>3 DEF Kept, Shape, Calm
  <2>2. Metas'
    BY <1>1, <1>3 DEF TypeOK, Metas, Proc, Titles
  <2> QED
    BY <2>1, <2>2
<1>15. Apart'
  BY <1>1, <1>3, <1>6, <1>10, StayApart, FreshIsNeither
<1>16. Outside(p)
  BY <1>1, <1>2, <1>3, OwnFiles DEF Outside, Writers
<1>17. ~overlap => NoTurnLost'
  <2> SUFFICES ASSUME ~overlap PROVE Lossless
    BY <1>2, NoneLost DEF Calm
  <2>1. proc[p].m # proc[p].n /\ Messages(proc[p].m) = Messages(proc[p].n)
    BY <1>1, <1>2 DEF Cares, At
  <2>2. \A x \in Names : x # proc[p].n => Messages(x)' = Messages(x)
    BY <1>3 DEF Messages, Exists
  <2> QED
    BY <1>1, <2>1, <2>2 DEF Lossless, TurnsOf
<1> QED
  BY <1>3, <1>5, <1>6, <1>10, <1>13, <1>14, <1>15, <1>16, <1>17, Keeps

LEMMA UnlinkOldMetaKeeps ==
    ASSUME IInv, SessionsInv', NEW p \in Requests, UnlinkOldMeta(p), ~Dies(p), ~GivesUp(p)
    PROVE  IInv'
<1>1. /\ SessionsInv /\ TypeOK /\ Shaped /\ Kept /\ Apart
      /\ proc[p] \in Proc /\ DOMAIN proc = Requests /\ ino \in [Files -> Nat]
      /\ Shape(proc[p]) /\ (~overlap => Cares(p))
      /\ ~At(p, "idle") /\ proc[p].n \in Names /\ proc[p].m \in Names
      /\ proc[p].op \in {"sync"}
  BY Atoms, NamesOf, StagesOf DEF UnlinkOldMeta, At, Does
<1>2. At(p, "unlinkMeta") /\ Calm
  BY DEF UnlinkOldMeta, Ends, Moves, Becomes, At, Does, Dies, GivesUp, told, Calm
<1>3. /\ \A x \in Names : store'[sf(x)] = store[sf(x)]
      /\ \A x \in Names : store'[mf(x)] = (IF x = proc[p].n THEN Absent ELSE store[mf(x)])
      /\ FromMsgs(0) /\ FromMetas(0) /\ Inodes
  <2>1. Unlink({mf(proc[p].n)})
    BY <1>2 DEF UnlinkOldMeta, Ends, Moves, Becomes, At, Does, Dies, GivesUp
  <2> QED
    BY <1>1, <2>1, UnlinksOnly, FilesApart
<1>4. proc'[p] = Idle /\ proc' = [proc EXCEPT ![p] = Idle]
  BY <1>1, <1>2 DEF UnlinkOldMeta, Ends, Moves, Becomes, At, Does, Dies, GivesUp
<1>5. proc' \in [Requests -> Proc] /\ Others(p)
  BY <1>1, <1>4, IdleTyped DEF TypeOK, Others
<1>13. /\ said' \in Turns /\ saved' \subseteq 1 .. said'
       /\ saved \subseteq saved' /\ dropped' \subseteq saved'
       /\ overlap' = overlap /\ db' = db
  BY <1>1, <1>2, CalmCounts
<1>14. Kept' /\ Metas'
  <2>1. Kept'
    BY <1>1, <1>2, <1>3 DEF Kept, Shape, Calm
  <2>2. Metas'
    BY <1>1, <1>3 DEF TypeOK, Metas, Proc, Titles
  <2> QED
    BY <2>1, <2>2
<1>15. Apart'
  BY <1>1, <1>3, <1>5, <1>4, Ended, StayApart, FreshIsNeither
<1>16. Outside(p)
  BY <1>1, <1>2, <1>3, OwnFiles DEF Outside, Writers
<1>17. ~overlap => NoTurnLost'
  <2>1. \A x \in Names : Messages(x)' = Messages(x)
    BY <1>3 DEF Messages, Exists
  <2> QED
    BY <1>2, <2>1, NoneLost DEF Calm, Lossless
<1> QED
  BY <1>3, <1>4, <1>5, <1>13, <1>14, <1>15, <1>16, <1>17, Ended, Keeps

LEMMA CleanupKeeps ==
    ASSUME IInv, SessionsInv', NEW p \in Requests, Cleanup(p), ~Dies(p), ~GivesUp(p)
    PROVE  IInv'
<1>1. /\ SessionsInv /\ TypeOK /\ Shaped /\ Kept /\ Apart
      /\ proc[p] \in Proc /\ DOMAIN proc = Requests /\ ino \in [Files -> Nat]
      /\ Shape(proc[p]) /\ (~overlap => Cares(p))
      /\ ~At(p, "idle") /\ proc[p].n \in Names /\ proc[p].m \in Names
      /\ proc[p].op \in {"sync", "merge"}
  BY Atoms, NamesOf, StagesOf DEF Cleanup, At, Does
<1>2. At(p, "cleanup") /\ Calm
  BY DEF Cleanup, Ends, Moves, Becomes, At, Does, Dies, GivesUp, told, Calm
<1>3. /\ \A x \in Names : store'[sf(x)] = (IF x = proc[p].m THEN Absent ELSE store[sf(x)])
      /\ \A x \in Names : store'[mf(x)] = (IF x = proc[p].m THEN Absent ELSE store[mf(x)])
      /\ FromMsgs(0) /\ FromMetas(0) /\ Inodes
  <2>1. Unlink({sf(proc[p].m), mf(proc[p].m)})
    BY <1>2 DEF Cleanup, Ends, Moves, Becomes, At, Does, Dies, GivesUp
  <2> QED
    BY <1>1, <2>1, UnlinksOnly, FilesApart
<1>4. proc'[p] = Idle /\ proc' = [proc EXCEPT ![p] = Idle]
  BY <1>1, <1>2 DEF Cleanup, Ends, Moves, Becomes, At, Does, Dies, GivesUp
<1>5. proc' \in [Requests -> Proc] /\ Others(p)
  BY <1>1, <1>4, IdleTyped DEF TypeOK, Others
<1>13. /\ said' \in Turns /\ saved' \subseteq 1 .. said'
       /\ saved \subseteq saved' /\ dropped' \subseteq saved'
       /\ overlap' = overlap /\ db' = db
  BY <1>1, <1>2, CalmCounts
<1>14. Kept' /\ Metas'
  <2>1. Kept'
    BY <1>1, <1>2, <1>3 DEF Kept, Shape, Calm
  <2>2. Metas'
    BY <1>1, <1>3 DEF TypeOK, Metas, Proc, Titles
  <2> QED
    BY <2>1, <2>2
<1>15. Apart'
  BY <1>1, <1>3, <1>5, <1>4, Ended, StayApart, FreshIsNeither
<1>16. Outside(p)
  BY <1>1, <1>2, <1>3, OwnFiles DEF Outside, Writers
<1>17. ~overlap => NoTurnLost'
  <2> SUFFICES ASSUME ~overlap PROVE Lossless
    BY <1>2, NoneLost DEF Calm
  <2>1. proc[p].m # proc[p].n /\ TurnsOf(Messages(proc[p].m)) \subseteq TurnsOf(Messages(proc[p].n))
    BY <1>1, <1>2 DEF Cares, At
  <2>2. \A x \in Names : x # proc[p].m => Messages(x)' = Messages(x)
    BY <1>3 DEF Messages, Exists
  <2> QED
    BY <1>1, <2>1, <2>2 DEF Lossless, TurnsOf
<1> QED
  BY <1>3, <1>4, <1>5, <1>13, <1>14, <1>15, <1>16, <1>17, Ended, Keeps

-----------------------------------------------------------------------------
(* The invariant *)

LEMMA StartsSound == Init => IInv
<1> SUFFICES ASSUME Init PROVE IInv
  OBVIOUS
<1>1. PICK n \in Names, title \in Titles :
        /\ db \in Backends
        /\ store = [f \in Files |-> IF f = sf(n) THEN <<1>> ELSE IF f = mf(n) THEN title ELSE Absent]
        /\ ino = [f \in Files |-> IF db THEN 0 ELSE IF f = sf(n) THEN 1 ELSE IF f = mf(n) THEN 2 ELSE 0]
        /\ proc = [p \in Requests |-> Idle]
        /\ said = 1 /\ seen = << <<>> >> /\ saved = {1} /\ dropped = {} /\ overlap = FALSE
  BY DEF Init
<1> HIDE DEF Init
<1>2. SessionsInv
  BY InitInv
<1>3. /\ \A x \in Names : store[sf(x)] = (IF x = n THEN <<1>> ELSE Absent)
      /\ \A x \in Names : store[mf(x)] = (IF x = n THEN title ELSE Absent)
      /\ \A x \in Names : ino[sf(x)] \in {0, 1}
      /\ \A x \in Names : ino[mf(x)] \in {0, 2}
  BY <1>1, FilesApart
<1>4. <<1>> \in Seq(saved) /\ <<1>> \in Seq(Turns) /\ 1 \in Turns
  BY <1>1, SessionsAssumption DEF Turns
<1>5. \A p \in Requests : proc[p] = Idle
  BY <1>1
<1>6. /\ Idle \in Proc /\ Idle.op = "none" /\ Idle.at = "idle" /\ Idle.mine = <<>>
      /\ Idle.wants = 0 /\ Idle.holds = {}
  BY IdleTyped DEF Idle
<1>7. TypeOK
  <2>1. ino \in [Files -> Nat] /\ db \in BOOLEAN /\ proc \in [Requests -> Proc]
    BY <1>1, <1>6, SessionsAssumption
  <2>2. said \in Turns /\ Len(seen) = said /\ saved \subseteq 1 .. said
    BY <1>1, <1>4
  <2>3. \A p, q \in Requests : proc[p].holds \cap proc[q].holds = {}
    BY <1>5, <1>6
  <2> QED
    BY <1>1, <1>3, <1>4, <1>5, <2>1, <2>2, <2>3 DEF TypeOK
<1>8. Shaped
  <2>1. Idle.mine \in Seq(saved)
    BY <1>6
  <2> QED
    BY <1>5, <1>6, <2>1 DEF Shaped, Shape, Stages, Named, Locks
<1>9. Kept
  BY <1>3, <1>4 DEF Kept
<1>10. Apart
  BY <1>3, <1>5, <1>6 DEF Apart, IsMsg, IsMeta, MsgOf, MetaOf
<1>11. Alone
  BY <1>5, <1>6 DEF Alone, Touched, Touches, Writers
<1>12. Careful
  BY <1>5, <1>6 DEF Careful, Cares, Clear, Copying
<1>13. TurnsSurvive
  <2>1. Messages(n) = <<1>>
    BY <1>3, <1>4, NotAbsent DEF Messages, Exists
  <2>2. 1 \in TurnsOf(Messages(n))
    BY <2>1 DEF TurnsOf
  <2> QED
    BY <1>1, <2>2 DEF TurnsSurvive, NoTurnLost
<1> QED
  BY <1>2, <1>7, <1>8, <1>9, <1>10, <1>11, <1>12, <1>13 DEF IInv

LEMMA Stutters == ASSUME IInv, UNCHANGED vars PROVE IInv'
<1>1. SessionsInv'
  BY StepInv DEF IInv
<1>2. TypeOK'
  BY DEF IInv, TypeOK, At, vars, told, asked
<1>3. Shaped' /\ Kept'
  BY DEF IInv, Shaped, Shape, Named, Locks, Kept, vars, told, asked
<1>4. Apart' /\ Alone'
  BY DEF IInv, Apart, IsMsg, IsMeta, MsgOf, MetaOf, Alone, Touched, vars, told, asked
<1>5. Careful'
  <2>1. proc' = proc /\ store' = store /\ overlap' = overlap
    BY DEF vars, told, asked
  <2>2. ASSUME NEW p \in Requests, Cares(p) PROVE Cares(p)'
    <3> DEFINE n == proc[p].n  m == proc[p].m
    <3>1. /\ Messages(n)' = Messages(n) /\ Messages(m)' = Messages(m)
          /\ Exists(n)' = Exists(n) /\ Exists(m)' = Exists(m)
      BY <2>1 DEF Messages, Exists
    <3>2. TurnsOf(Messages(n))' = TurnsOf(Messages(n)) /\ TurnsOf(Messages(m))' = TurnsOf(Messages(m))
      BY <3>1 DEF TurnsOf
    <3> QED
      BY <2>1, <2>2, <3>1, <3>2 DEF Cares, Clear
  <2> QED
    BY <2>1, <2>2 DEF IInv, Careful
<1>6. TurnsSurvive'
  BY DEF IInv, TurnsSurvive, NoTurnLost, Messages, Exists, TurnsOf, vars, told, asked
<1> QED
  BY <1>1, <1>2, <1>3, <1>4, <1>5, <1>6 DEF IInv

LEMMA EachStepKeeps == IInv /\ [Next]_vars => IInv'
<1> SUFFICES ASSUME IInv, [Next]_vars PROVE IInv'
  OBVIOUS
<1>1. SessionsInv'
  BY StepInv DEF IInv
<1>2. ASSUME NEW p \in Requests, Work(p) PROVE IInv'
  <2>1. CASE Dies(p)
    BY <1>1, <2>1, DiesKeeps
  <2>2. CASE GivesUp(p)
    BY <1>1, <2>2, GivesUpKeeps
  <2>3. CASE ~Dies(p) /\ ~GivesUp(p)
    <3>1. CASE ReadMeta(p) \/ WriteMeta(p) \/ Label(p)
      BY <1>1, <2>3, <3>1, ReadMetaKeeps, WriteMetaKeeps, LabelKeeps
    <3>2. CASE ChatLoad(p) \/ Answer(p) \/ ChatSave(p)
      BY <1>1, <2>3, <3>2, ChatLoadKeeps, AnswerKeeps, ChatSaveKeeps
    <3>3. CASE OpenFirst(p) \/ OpenSecond(p) \/ Acquire(p)
      BY <1>1, <2>3, <3>3, OpenFirstKeeps, OpenSecondKeeps, AcquireKeeps
    <3>4. ~TimeOut(p)
      BY <2>3 DEF TimeOut, Dies, At, told, asked
    <3>5. CASE CutCheck(p) \/ CutLoad(p) \/ CutSave(p)
      BY <1>1, <2>3, <3>5, CutCheckKeeps, CutLoadKeeps, CutSaveKeeps
    <3>6. CASE DeleteCheck(p) \/ Delete(p) \/ DeleteMeta(p)
      BY <1>1, <2>3, <3>6, DeleteCheckKeeps, DeleteKeeps, DeleteMetaKeeps
    <3>7. CASE InitCheck(p) \/ Reset(p) \/ Create(p)
      BY <1>1, <2>3, <3>7, InitCheckKeeps, ResetKeeps, CreateKeeps
    <3>8. CASE RenameCheck(p) \/ MoveMessages(p) \/ MoveMeta(p) \/ InsertRow(p) \/ DropRow(p)
      BY <1>1, <2>3, <3>8, RenameCheckKeeps, MoveMessagesKeeps, MoveMetaKeeps,
         InsertRowKeeps, DropRowKeeps
    <3>9. CASE SyncCheck(p) \/ MergeCheck(p) \/ CopyLoad(p) \/ Copy(p) \/ CopyMeta(p)
      BY <1>1, <2>3, <3>9, SyncCheckKeeps, MergeCheckKeeps, CopyLoadKeeps, CopyKeeps, CopyMetaKeeps
    <3>10. CASE UnlinkOld(p) \/ UnlinkOldMeta(p) \/ Cleanup(p)
      BY <1>1, <2>3, <3>10, UnlinkOldKeeps, UnlinkOldMetaKeeps, CleanupKeeps
    <3> QED
      BY <1>2, <3>1, <3>2, <3>3, <3>4, <3>5, <3>6, <3>7, <3>8, <3>9, <3>10 DEF Work
  <2> QED
    BY <2>1, <2>2, <2>3
<1>3. ASSUME NEW p \in Requests, Crash(p) PROVE IInv'
  BY <1>1, <1>3, DiesKeeps DEF Crash, Dies
<1>4. CASE UNCHANGED vars
  BY <1>4, Stutters
<1> QED
  BY <1>1, <1>2, <1>3, <1>4, StartKeeps DEF Next

\* Requests that go wrong, in whatever order, leave every session a conversation or nothing, every
\* request the locks of at most two files that nobody else has locked, and every turn that counts
\* as removed a turn that had been saved.
THEOREM SessionsAreTyped == Spec => []TypeOK
BY StartsSound, EachStepKeeps, PTL DEF Spec, IInv

\* An edit and a sync never wait for each other, whichever sessions they are about and wherever a
\* rename carries a file one of them has locked: what waits for metadata holds only messages.
THEOREM NoTwoWaitForEachOther == Spec => []NoLockCycle
<1>1. IInv => NoLockCycle
  <2> SUFFICES ASSUME IInv, NEW p \in Requests, NEW q \in Requests,
                      proc[p].wants \in proc[q].holds, proc[q].wants \in proc[p].holds
               PROVE  FALSE
    BY DEF NoLockCycle
  <2>1. Locks(proc[p]) /\ Locks(proc[q]) /\ proc[p].wants \in Nat
    BY DEF IInv, TypeOK, Proc, Shaped, Shape
  <2>2. At(p, "lockMeta") /\ At(q, "lockMeta")
    BY <2>1 DEF Locks, At
  <2>3. IsMeta(proc[p].wants) /\ IsMsg(proc[p].wants)
    BY <2>2 DEF IsMeta, IsMsg, MetaOf, MsgOf, At
  <2> QED
    BY <2>1, <2>3 DEF IInv, Apart, Locks
<1> QED
  BY <1>1, StartsSound, EachStepKeeps, PTL DEF Spec

\* As long as no two requests are at work on the messages of one session, a rename, a sync or a merge
\* that is killed or fails half way, and any number of them, leaves every turn in some session.
THEOREM TurnsStay == Spec => []TurnsSurvive
<1>1. IInv => TurnsSurvive
  BY DEF IInv
<1> QED
  BY <1>1, StartsSound, EachStepKeeps, PTL DEF Spec

=============================================================================
