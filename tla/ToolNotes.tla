----------------------------- MODULE ToolNotes -----------------------------
(***************************************************************************)
(* The store of tool notes (src/toolNotes.ts): one file shared by the      *)
(* processes of a user, changed under a file lock, read without one, and   *)
(* cleaned up in the background from what a read saw.  A note is what its  *)
(* checks tell apart: when it was written and whether it is well-formed.   *)
(* Outside src: proper-lockfile.  A holder is taken to keep its lock while *)
(* it lives; the lock of a dead one goes stale.                            *)
(***************************************************************************)
EXTENDS Naturals, Sequences, FiniteSets

CONSTANTS
  Worker,             \* requests and background cleanups, of any process
  KeyOrder,           \* the keys, pairs of package and tool, as the code sorts them
  MaxNotesPerPackage, MaxNotesGlobal,
  Ttl,                \* NOTE_TTL_DAYS, in ticks
  MaxTime             \* a bound

VARIABLES
  file,      \* the notes of the file, by key
  readable,  \* "ok", "malformed", or "blocked": another version, too large, unreadable
  lock,      \* who holds the file lock, or Nobody
  work,      \* [st, kind, key, seen, discard, next] of each worker
  now

vars == <<file, readable, lock, work, now>>

Key == {KeyOrder[i] : i \in DOMAIN KeyOrder}
Nobody == "nobody"
NoNotes == [k \in {} |-> 0]

Only(f, keys) == [k \in DOMAIN f \cap keys |-> f[k]]

(* isValidLiveEntry                                                        *)
IsLive(e) == e.valid /\ e.at <= now /\ now < e.at + Ttl
LiveIn(f) == {k \in DOMAIN f : IsLive(f[k])}

SamePackage(keys, k) == {x \in keys : x[1] = k[1]}
HasRoom(keys, k) ==
  /\ Cardinality(keys) < MaxNotesGlobal
  /\ Cardinality(SamePackage(keys, k)) < MaxNotesPerPackage

(* The keys of `more` that fit beside `keys`, in the order of the keys.    *)
Fill(keys, more) ==
  LET upTo[i \in 0..Len(KeyOrder)] ==
        IF i = 0 THEN keys
        ELSE LET k == KeyOrder[i] IN
             IF k \in more /\ HasRoom(upTo[i-1], k) THEN upTo[i-1] \union {k} ELSE upTo[i-1]
  IN upTo[Len(KeyOrder)]

(* analyzeNotes                                                            *)
Visible(f)   == Fill({}, LiveIn(f))
Discard(f)   == DOMAIN f \ Visible(f)
OverQuota(f) == LiveIn(f) # Visible(f)

(* readFileState: a malformed file has no notes.                           *)
Contents == IF readable = "ok" THEN file ELSE NoNotes

(* The keys that changed since they were seen.                             *)
ChangedSince(seen, f) ==
  {k \in DOMAIN f : k \notin DOMAIN seen \/ seen[k] # f[k]}

(* Everything that was to be discarded goes, changed or not: a mutant.     *)
ReconcileByKey(f, w) == Only(f, DOMAIN f \ w.discard)

(* reconcileObservedCompaction: what changed since the read has the first  *)
(* claim on the quota; the rest fills up.  If the changed ones do not fit, *)
(* the cleanup is given up.                                                *)
Reconciled(f, w) ==
  LET changed  == ChangedSince(w.seen, f)
      retained == DOMAIN f \ (w.discard \ changed)
      first    == Fill({}, changed \cap LiveIn(f))
  IN IF changed \cap LiveIn(f) \subseteq first
       THEN Only(f, (retained \ LiveIn(f)) \union Fill(first, retained \cap LiveIn(f)))
       ELSE f

-----------------------------------------------------------------------------
(* What each mutation makes of the file once it holds the lock; the file   *)
(* as it is if it writes nothing.                                          *)
Recorded(k) ==
  LET all  == Contents
      over == OverQuota(all)
      base == IF over THEN all ELSE Only(all, Visible(all))
  IN IF k \in DOMAIN base \/ (~over /\ HasRoom(DOMAIN base, k))
       THEN [x \in DOMAIN base \union {k} |->
               IF x = k THEN [at |-> now, valid |-> TRUE] ELSE base[x]]
       ELSE file

Removed(k) ==
  LET all  == Contents
      base == IF OverQuota(all) THEN all ELSE Only(all, Visible(all))
  IN Only(base, DOMAIN base \ {k})

Cleaned(w) == IF Discard(Contents) = {} THEN file ELSE Reconciled(Contents, w)

(* compactSnapshotEntries                                                  *)
Pruned(w) == Only(Contents, {k \in DOMAIN Contents :
                               k \notin DOMAIN w.seen \/ w.seen[k] # Contents[k]})

Mutated(w) ==
  CASE w.kind = "record"  -> Recorded(w.key)
    [] w.kind = "remove"  -> Removed(w.key)
    [] w.kind = "cleanup" -> Cleaned(w)
    [] w.kind = "prune"   -> Pruned(w)

Idle == [st |-> "idle", kind |-> "none", key |-> KeyOrder[1], seen |-> NoNotes,
         discard |-> {}, next |-> NoNotes]

Goto(w, r) == work' = [work EXCEPT ![w] = r]

-----------------------------------------------------------------------------
Record(w) ==
  /\ work[w].st = "idle"
  /\ \E k \in Key, kind \in {"record", "remove"} :
       Goto(w, [Idle EXCEPT !.st = "locking", !.kind = kind, !.key = k])
  /\ UNCHANGED <<file, readable, lock, now>>

(* readSnapshot finds something to discard: a cleanup starts.              *)
Observe(w) ==
  /\ work[w].st = "idle"
  /\ readable = "ok"
  /\ Discard(file) # {}
  /\ Goto(w, [Idle EXCEPT !.st = "locking", !.kind = "cleanup", !.seen = file,
                          !.discard = Discard(file)])
  /\ UNCHANGED <<file, readable, lock, now>>

(* get_tool_details found a note written for another schema.               *)
FindStale(w) ==
  /\ work[w].st = "idle"
  /\ readable = "ok"
  /\ \E k \in Visible(file) :
       Goto(w, [Idle EXCEPT !.st = "locking", !.kind = "prune", !.seen = Only(file, {k})])
  /\ UNCHANGED <<file, readable, lock, now>>

(* The lock file is not looked at: a mutant.                               *)
LockIgnored == TRUE

(* Nobody holds the lock, or a process that has died since.                *)
LockIsFree == lock \notin {w \in Worker : work[w].st # "dead"}

(* withLockedMutation, up to the write.                                    *)
Lock(w) ==
  /\ work[w].st = "locking"
  /\ LockIsFree
  /\ IF readable = "blocked" \/ (readable = "ok" /\ Mutated(work[w]) = file)
       THEN Goto(w, Idle) /\ lock' = Nobody
       ELSE /\ Goto(w, [work[w] EXCEPT !.st = "writing", !.next = Mutated(work[w])])
            /\ lock' = w
  /\ UNCHANGED <<file, readable, now>>

(* ELOCKED: the retries are used up.                                       *)
Contended(w) ==
  /\ work[w].st = "locking"
  /\ lock # Nobody
  /\ Goto(w, Idle)
  /\ UNCHANGED <<file, readable, lock, now>>

(* atomicWrite and the release of the lock.                                *)
Write(w) ==
  /\ work[w].st = "writing"
  /\ file' = work[w].next
  /\ readable' = "ok"
  /\ lock' = Nobody
  /\ Goto(w, Idle)
  /\ UNCHANGED now

(* The write fails: the file stays, the lock is released.                  *)
WriteFails(w) ==
  /\ work[w].st = "writing"
  /\ lock' = Nobody
  /\ Goto(w, Idle)
  /\ UNCHANGED <<file, readable, now>>

Crash(w) ==
  /\ work[w].st = "writing"
  /\ Goto(w, [Idle EXCEPT !.st = "dead"])
  /\ UNCHANGED <<file, readable, lock, now>>

Tick == now < MaxTime /\ now' = now + 1 /\ UNCHANGED <<file, readable, lock, work>>

-----------------------------------------------------------------------------
(* The file may have been edited by hand: notes beyond the caps, notes     *)
(* that are not valid, or not JSON at all.                                 *)
Init ==
  /\ file \in UNION {[keys -> [at : {0}, valid : BOOLEAN]] : keys \in SUBSET Key}
  /\ readable \in {"ok", "malformed", "blocked"}
  /\ readable # "ok" => file = NoNotes
  /\ lock = Nobody
  /\ work = [w \in Worker |-> Idle]
  /\ now = 0

Next ==
  \/ \E w \in Worker :
       \/ Record(w) \/ Observe(w) \/ FindStale(w) \/ Lock(w) \/ Contended(w)
       \/ Write(w) \/ WriteFails(w) \/ Crash(w)
  \/ Tick

Spec == Init /\ [][Next]_vars

-----------------------------------------------------------------------------
Entry == [at : 0..MaxTime, valid : BOOLEAN]

TypeOK ==
  /\ DOMAIN file \subseteq Key /\ \A k \in DOMAIN file : file[k] \in Entry
  /\ readable \in {"ok", "malformed", "blocked"}
  /\ lock \in Worker \union {Nobody}
  /\ \A w \in Worker : /\ work[w].st \in {"idle", "locking", "writing", "dead"}
                       /\ work[w].st = "writing" => lock = w
  /\ now \in 0..MaxTime

(* A live note leaves the file, or is changed, only by a request for that  *)
(* note or by a cleanup that had seen the very note: "cleanup can restore  *)
(* caps without deleting a write made after the read snapshot", whatever   *)
(* other processes did in between.                                         *)
Addressed(w, k) ==
  /\ work[w].st = "writing" /\ work'[w].st = "idle"
  /\ \/ work[w].kind \in {"record", "remove"} /\ work[w].key = k
     \/ k \in DOMAIN work[w].seen /\ work[w].seen[k] = file[k]

NotesAreKept ==
  [][\A k \in LiveIn(file) :
       k \notin DOMAIN file' \/ file'[k] # file[k] => \E w \in Worker : Addressed(w, k)]_vars
=============================================================================
