-------------------------- MODULE ConfigurationProofs --------------------------
(***************************************************************************)
(* Proofs about Configuration: the raw entries and the packages in force   *)
(* stay in step, a package keeps its identity, and a spawn has the env of  *)
(* its time, for any files, packages and readers.                          *)
(***************************************************************************)
EXTENDS Configuration, FiniteSetTheorems, SequenceTheorems, TLAPS

-----------------------------------------------------------------------------
(* Induction on a set of numbers, from the well-foundedness of <.          *)

LEMMA SetInduction ==
  ASSUME NEW T, 0 \in T, \A n \in Nat : n \in T => n + 1 \in T
  PROVE  Nat \subseteq T
<1> DEFINE R == {ss \in Nat \X Nat : ss[1] < ss[2]}
           U == Nat \ T
<1>1. IsWellFoundedOn(R, Nat)
  BY NatLessThanWellFounded DEF OpToRel
<1>2. \A x, y \in Nat : x < y => <<x, y>> \in R
  OBVIOUS
<1> SUFFICES ASSUME U # {} PROVE FALSE
  OBVIOUS
<1> HIDE DEF R
<1>3. PICK x \in U : \A y \in U : <<y, x>> \notin R
  BY <1>1, WFMin
<1>4. x \in Nat /\ x # 0 /\ x - 1 \in Nat /\ x - 1 < x /\ (x - 1) + 1 = x
  OBVIOUS
<1>5. x - 1 \notin T
  BY <1>4
<1> QED
  BY <1>2, <1>3, <1>4, <1>5

-----------------------------------------------------------------------------
(* Reading the files at one moment.                                        *)

Files == Cardinality(File)

Start == [todo |-> <<Root>>, seen |-> {}, got |-> Nothing, ok |-> TRUE]

LEMMA FilesType == Files \in Nat
BY FS_CardinalityType, ConfigurationAssumption DEF Files

(* The recursion of Reading has a solution.                                *)
LEMMA ReadingExists ==
  ASSUME NEW d
  PROVE  \E g : g = [n \in 0..Files |-> IF n = 0 THEN Start ELSE LoadNext(d, g[n - 1])]
<1> DEFINE
      Upto(k) == \E g : g = [n \in 0..k |-> IF n = 0 THEN Start ELSE LoadNext(d, g[n - 1])]
      T == {k \in Nat : Upto(k)}
<1>1. 0 \in T
  <2> DEFINE g == [m \in 0..0 |-> Start]
  <2>1. g = [n \in 0..0 |-> IF n = 0 THEN Start ELSE LoadNext(d, g[n - 1])]
    OBVIOUS
  <2> QED
    BY <2>1
<1>2. \A k \in Nat : k \in T => k + 1 \in T
  <2> SUFFICES ASSUME NEW k \in Nat, k \in T PROVE Upto(k + 1)
    OBVIOUS
  <2>1. PICK g : g = [n \in 0..k |-> IF n = 0 THEN Start ELSE LoadNext(d, g[n - 1])]
    OBVIOUS
  <2> DEFINE h == [n \in 0..k+1 |-> IF n = k + 1 THEN LoadNext(d, g[k]) ELSE g[n]]
  <2>2. \A n \in 0..k+1 : h[n] = IF n = 0 THEN Start ELSE LoadNext(d, h[n - 1])
    <3> TAKE n \in 0..k+1
    <3>1. CASE n = k + 1
      BY <3>1
    <3>2. CASE n # k + 1
      <4>1. h[n] = g[n] /\ n \in 0..k
        BY <3>2
      <4>2. g[n] = IF n = 0 THEN Start ELSE LoadNext(d, g[n - 1])
        BY <2>1, <4>1
      <4>3. n # 0 => h[n - 1] = g[n - 1]
        BY <4>1
      <4> QED
        BY <4>1, <4>2, <4>3
    <3> QED
      BY <3>1, <3>2
  <2>3. h = [n \in 0..k+1 |-> h[n]]
    OBVIOUS
  <2> HIDE DEF h
  <2>4. h = [n \in 0..k+1 |-> IF n = 0 THEN Start ELSE LoadNext(d, h[n - 1])]
    BY <2>2, <2>3
  <2> QED
    BY <2>4
<1> HIDE DEF T
<1>3. Nat \subseteq T
  BY <1>1, <1>2, SetInduction
<1> QED
  BY <1>3, FilesType DEF T

LEMMA ReadingIs ==
  ASSUME NEW d
  PROVE  Reading(d) =
           [n \in 0..Files |-> IF n = 0 THEN Start ELSE LoadNext(d, Reading(d)[n - 1])]
<1> DEFINE
      Is(g) == g = [n \in 0..Files |-> IF n = 0 THEN Start ELSE LoadNext(d, g[n - 1])]
<1>1. \E g : Is(g)
  BY ReadingExists
<1>2. Reading(d) = CHOOSE g : Is(g)
  BY Zenon DEF Reading, Start, Files
<1>3. Is(CHOOSE g : Is(g))
  <2> HIDE DEF Is
  <2> QED
    BY <1>1, Zenon
<1> QED
  BY <1>2, <1>3

LEMMA ReadingStep ==
  ASSUME NEW d
  PROVE  /\ Reading(d)[0] = Start
         /\ \A n \in 0..Files : n # Files => Reading(d)[n + 1] = LoadNext(d, Reading(d)[n])
<1> DEFINE g == Reading(d)
<1>1. g = [n \in 0..Files |-> IF n = 0 THEN Start ELSE LoadNext(d, g[n - 1])]
  BY ReadingIs
<1> HIDE DEF g
<1>2. g[0] = Start
  BY <1>1, FilesType
<1>3. ASSUME NEW n \in 0..Files, n # Files PROVE g[n + 1] = LoadNext(d, g[n])
  <2>1. n + 1 \in 0..Files /\ n + 1 # 0 /\ (n + 1) - 1 = n
    BY <1>3, FilesType
  <2> QED
    BY <1>1, <2>1
<1> QED
  BY <1>2, <1>3 DEF g

LEMMA ReadingEnds ==
  ASSUME NEW d, NEW n \in 0..Files,
         ~Reading(d)[n].ok \/ Reading(d)[n].todo = <<>>
  PROVE  Reading(d)[Files] = Reading(d)[n]
<1> DEFINE T == {k \in Nat : n + k \in 0..Files => Reading(d)[n + k] = Reading(d)[n]}
<1>1. 0 \in T
  BY FilesType
<1>2. \A k \in Nat : k \in T => k + 1 \in T
  <2> SUFFICES ASSUME NEW k \in Nat, k \in T, n + (k + 1) \in 0..Files
               PROVE  Reading(d)[n + (k + 1)] = Reading(d)[n]
    OBVIOUS
  <2>1. n + k \in 0..Files /\ n + k # Files /\ (n + k) + 1 = n + (k + 1)
    BY FilesType
  <2>2. Reading(d)[n + k] = Reading(d)[n]
    BY <2>1
  <2>3. Reading(d)[n + (k + 1)] = LoadNext(d, Reading(d)[n])
    BY <2>1, <2>2, ReadingStep
  <2> QED
    BY <2>3 DEF LoadNext
<1> HIDE DEF T
<1>3. Files - n \in T
  BY <1>1, <1>2, SetInduction, FilesType
<1> QED
  BY <1>3, FilesType DEF T

Entry == UNION {UNION {{c.servers[s] : s \in DOMAIN c.servers} : c \in Contents[f] \ {Broken}}
                : f \in File}

IsMaps(g) ==
  /\ g = [servers |-> g.servers, homes |-> g.homes, disabled |-> g.disabled]
  /\ IsFiniteSet(DOMAIN g.servers) /\ DOMAIN g.servers \subseteq Server
  /\ \A s \in DOMAIN g.servers : g.servers[s] \in Entry

IsDisk(d) == \A f \in File : d[f] \in Contents[f] \cup {Absent}

LEMMA EntryShape == \A e \in Entry : IsEntry(e)
BY ConfigurationAssumption DEF Entry, IsContent

LEMMA NothingIsMaps == IsMaps(Nothing)
BY FS_EmptySet DEF IsMaps, Nothing, NoMap

LEMMA FileHolds ==
  ASSUME NEW d, IsDisk(d), NEW f \in File, d[f] \notin {Absent, Broken}
  PROVE  /\ IsContent(d[f])
         /\ \A s \in DOMAIN d[f].servers : d[f].servers[s] \in Entry
BY ConfigurationAssumption DEF IsDisk, Entry

LEMMA MergeIsMaps ==
  ASSUME NEW d, IsDisk(d), NEW f \in File, d[f] \notin {Absent, Broken}, NEW g, IsMaps(g)
  PROVE  IsMaps(MergePackages(g, d[f]))
<1> DEFINE s == Override(g.servers, d[f].servers)
<1>1. IsContent(d[f]) /\ \A x \in DOMAIN d[f].servers : d[f].servers[x] \in Entry
  BY FileHolds
<1>2. DOMAIN s = DOMAIN g.servers \cup DOMAIN d[f].servers
  BY DEF Override
<1>3. IsFiniteSet(DOMAIN s) /\ DOMAIN s \subseteq Server
  BY <1>1, <1>2, FS_Union DEF IsMaps, IsContent
<1>4. \A x \in DOMAIN s : s[x] \in Entry
  BY <1>1 DEF IsMaps, Override
<1> HIDE DEF s
<1> QED
  BY <1>3, <1>4 DEF IsMaps, MergePackages, s

(* Each file of a reading that goes on has been read once.                 *)
IsReading(w, n) ==
  /\ w = [todo |-> w.todo, seen |-> w.seen, got |-> w.got, ok |-> w.ok]
  /\ w.todo \in Seq(File) /\ w.seen \subseteq File /\ IsMaps(w.got) /\ w.ok \in BOOLEAN
  /\ w.ok /\ w.todo # <<>> => Cardinality(w.seen) = n

LEMMA ReadingType ==
  ASSUME NEW d, IsDisk(d)
  PROVE  \A n \in 0..Files : IsReading(Reading(d)[n], n)
<1> DEFINE R(n) == Reading(d)[n]
           T == {n \in Nat : n \in 0..Files => IsReading(R(n), n)}
<1>1. 0 \in T
  <2>1. R(0) = Start
    BY ReadingStep
  <2>2. IsReading(Start, 0)
    BY NothingIsMaps, FS_EmptySet, ConfigurationAssumption DEF IsReading, Start
  <2> QED
    BY <2>1, <2>2
<1>2. \A n \in Nat : n \in T => n + 1 \in T
  <2> SUFFICES ASSUME NEW n \in Nat, n \in T, n + 1 \in 0..Files
               PROVE  IsReading(R(n + 1), n + 1)
    OBVIOUS
  <2>1. n \in 0..Files /\ n # Files
    BY FilesType
  <2> DEFINE w == R(n)
  <2>2. IsReading(w, n)
    BY <2>1
  <2>3. R(n + 1) = LoadNext(d, w)
    BY <2>1, ReadingStep
  <2> HIDE DEF w
  <2>4. CASE ~w.ok \/ w.todo = <<>>
    <3>1. LoadNext(d, w) = w
      BY <2>4 DEF LoadNext
    <3>2. IsReading(w, n + 1)
      BY <2>2, <2>4 DEF IsReading
    <3> QED
      BY <2>3, <3>1, <3>2
  <2>5. CASE w.ok /\ w.todo # <<>>
    <3> DEFINE f == Head(w.todo)
    <3>1. f \in File /\ Tail(w.todo) \in Seq(File)
      BY <2>2, <2>5 DEF IsReading
    <3>2. CASE d[f] \in {Absent, Broken} \/ f \in w.seen
      <4>1. LoadNext(d, w) = [w EXCEPT !.ok = FALSE]
        BY <2>5, <3>2 DEF LoadNext
      <4> QED
        BY <2>2, <2>3, <4>1 DEF IsReading
    <3>3. CASE ~(d[f] \in {Absent, Broken} \/ f \in w.seen)
      <4>1. LoadNext(d, w) =
              [todo |-> d[f].configPaths \o Tail(w.todo), seen |-> w.seen \cup {f},
               got |-> MergePackages(w.got, d[f]), ok |-> TRUE]
        BY <2>5, <3>3 DEF LoadNext
      <4>2. d[f].configPaths \in Seq(File)
        BY <3>1, <3>3, FileHolds DEF IsContent
      <4>3. IsMaps(MergePackages(w.got, d[f]))
        BY <2>2, <3>1, <3>3, MergeIsMaps DEF IsReading
      <4>4. IsFiniteSet(w.seen)
        BY <2>2, FS_Subset, ConfigurationAssumption DEF IsReading
      <4>5. Cardinality(w.seen \cup {f}) = n + 1
        <5>1. Cardinality(w.seen) = n /\ f \notin w.seen
          BY <2>2, <2>5, <3>3 DEF IsReading
        <5> HIDE DEF f
        <5> QED
          BY <4>4, <5>1, FS_AddElement
      <4> DEFINE v == LoadNext(d, w)
      <4>6. v.todo \in Seq(File)
        BY <3>1, <4>1, <4>2, ConcatProperties
      <4>7. v.seen \subseteq File
        BY <2>2, <3>1, <4>1 DEF IsReading
      <4> QED
        BY <2>3, <4>1, <4>3, <4>5, <4>6, <4>7 DEF IsReading
    <3> QED
      BY <3>2, <3>3
  <2> QED
    BY <2>4, <2>5
<1> HIDE DEF T
<1>3. Nat \subseteq T
  BY <1>1, <1>2, SetInduction
<1> QED
  BY <1>3, FilesType DEF T

LEMMA LoadIs ==
  ASSUME NEW d, IsDisk(d)
  PROVE  /\ Load(d).ok <=> Reading(d)[Files].ok /\ Reading(d)[Files].todo = <<>>
         /\ Load(d).got = Reading(d)[Files].got
         /\ IsMaps(Load(d).got)
<1> DEFINE w == Reading(d)[Files]
<1>1. IsReading(w, Files)
  BY ReadingType, FilesType
<1>2. Load(d) = [w EXCEPT !.ok = w.ok /\ w.todo = <<>>]
  BY DEF Load, Files
<1> HIDE DEF w
<1>3. Load(d).got = w.got /\ (Load(d).ok <=> w.ok /\ w.todo = <<>>)
  BY <1>1, <1>2 DEF IsReading
<1> QED
  BY <1>1, <1>3 DEF IsReading, w

(* A task has read the files in the order of a whole reading, so far.      *)
OnCourse(d, r) ==
  \E n \in 0..Files :
    Reading(d)[n] = [todo |-> r.todo, seen |-> r.seen, got |-> r.got, ok |-> TRUE]

LEMMA CourseBegins ==
  ASSUME NEW d, NEW r, r.todo = <<Root>>, r.seen = {}, r.got = Nothing
  PROVE  OnCourse(d, r)
<1>1. 0 \in 0..Files /\ Reading(d)[0] = Start
  BY ReadingStep, FilesType
<1>2. Start = [todo |-> r.todo, seen |-> r.seen, got |-> r.got, ok |-> TRUE]
  BY DEF Start
<1> QED
  BY <1>1, <1>2 DEF OnCourse

LEMMA CourseGoesOn ==
  ASSUME NEW d, IsDisk(d), NEW r, OnCourse(d, r), r.todo # <<>>,
         d[Head(r.todo)] \notin {Absent, Broken}, Head(r.todo) \notin r.seen,
         NEW v, v.todo = d[Head(r.todo)].configPaths \o Tail(r.todo),
         v.seen = r.seen \cup {Head(r.todo)},
         v.got = MergePackages(r.got, d[Head(r.todo)])
  PROVE  OnCourse(d, v)
<1>1. PICK n \in 0..Files :
        Reading(d)[n] = [todo |-> r.todo, seen |-> r.seen, got |-> r.got, ok |-> TRUE]
  BY DEF OnCourse
<1> DEFINE w == Reading(d)[n]
<1>2. IsReading(w, n)
  BY ReadingType
<1>3. n # Files
  <2> SUFFICES ASSUME n = Files PROVE FALSE
    OBVIOUS
  <2>1. w.todo = r.todo /\ w.seen = r.seen /\ w.ok
    BY <1>1
  <2>2. Cardinality(r.seen) = Files /\ r.seen \subseteq File /\ Head(r.todo) \in File
    BY <1>2, <2>1 DEF IsReading
  <2>3. r.seen = File
    BY <2>2, FS_Subset, ConfigurationAssumption DEF Files
  <2> QED
    BY <2>2, <2>3
<1>4. n + 1 \in 0..Files /\ Reading(d)[n + 1] = LoadNext(d, Reading(d)[n])
  BY <1>3, ReadingStep, FilesType
<1>5. LoadNext(d, Reading(d)[n]) =
        [todo |-> v.todo, seen |-> v.seen, got |-> v.got, ok |-> TRUE]
  BY <1>1 DEF LoadNext
<1> QED
  BY <1>4, <1>5 DEF OnCourse

LEMMA CourseFails ==
  ASSUME NEW d, IsDisk(d), NEW r, OnCourse(d, r), r.todo # <<>>,
         d[Head(r.todo)] \in {Absent, Broken} \/ Head(r.todo) \in r.seen
  PROVE  ~Load(d).ok
<1>1. PICK n \in 0..Files :
        Reading(d)[n] = [todo |-> r.todo, seen |-> r.seen, got |-> r.got, ok |-> TRUE]
  BY DEF OnCourse
<1>2. CASE n = Files
  BY <1>1, <1>2, LoadIs
<1>3. CASE n # Files
  <2>1. n + 1 \in 0..Files /\ Reading(d)[n + 1] = LoadNext(d, Reading(d)[n])
    BY <1>3, ReadingStep, FilesType
  <2>2. ~LoadNext(d, Reading(d)[n]).ok
    BY <1>1 DEF LoadNext
  <2>3. Reading(d)[Files] = Reading(d)[n + 1]
    BY <2>1, <2>2, ReadingEnds
  <2> QED
    BY <2>1, <2>2, <2>3, LoadIs
<1> QED
  BY <1>2, <1>3

LEMMA CourseEnds ==
  ASSUME NEW d, IsDisk(d), NEW r, OnCourse(d, r), r.todo = <<>>
  PROVE  r.got = Load(d).got
<1>1. PICK n \in 0..Files :
        Reading(d)[n] = [todo |-> r.todo, seen |-> r.seen, got |-> r.got, ok |-> TRUE]
  BY DEF OnCourse
<1>2. Reading(d)[Files] = Reading(d)[n]
  BY <1>1, ReadingEnds
<1> QED
  BY <1>1, <1>2, LoadIs

-----------------------------------------------------------------------------
(* Entries as packages.                                                    *)

Package == [id : Server, entry : Entry]

LEMMA SetToSeqIs ==
  ASSUME NEW S, IsFiniteSet(S)
  PROVE  /\ SetToSeq(S) \in Seq(S)
         /\ \A i, j \in DOMAIN SetToSeq(S) : SetToSeq(S)[i] = SetToSeq(S)[j] => i = j
<1> DEFINE D == 1..Cardinality(S)
           s == SetToSeq(S)
<1>1. Cardinality(S) \in Nat /\ ExistsBijection(D, S)
  BY FS_CardinalityType
<1>2. \E f \in [D -> S] : IsInjective(f)
  BY <1>1 DEF ExistsBijection, Bijection, Injection
<1>3. s \in [D -> S] /\ IsInjective(s)
  BY <1>2 DEF SetToSeq
<1> HIDE DEF s
<1>4. s \in Seq(S)
  BY <1>1, <1>3
<1> QED
  BY <1>3, <1>4 DEF IsInjective, s

LEMMA UsableIs ==
  ASSUME NEW g, IsMaps(g)
  PROVE  /\ IsFiniteSet(Usable(g)) /\ Usable(g) \subseteq DOMAIN g.servers
         /\ \A s \in Usable(g) : s \in Server /\ g.servers[s] \in Entry /\ Valid(g.servers[s])
BY FS_Subset DEF IsMaps, Usable, ValidIds

LEMMA AsPackagesIs ==
  ASSUME NEW g, IsMaps(g), NEW ids, ids \subseteq Usable(g)
  PROVE  /\ AsPackages(g, ids) \in Seq(Package)
         /\ \A i \in DOMAIN AsPackages(g, ids) :
              LET p == AsPackages(g, ids)[i] IN p.id \in ids /\ p.entry = g.servers[p.id]
         /\ \A i, j \in DOMAIN AsPackages(g, ids) :
              AsPackages(g, ids)[i].id = AsPackages(g, ids)[j].id => i = j
<1> DEFINE order == SetToSeq(ids)
           ps == AsPackages(g, ids)
<1>1. IsFiniteSet(ids) /\ \A s \in ids : s \in Server /\ g.servers[s] \in Entry
  BY UsableIs, FS_Subset
<1>2. order \in Seq(ids) /\ \A i, j \in DOMAIN order : order[i] = order[j] => i = j
  BY <1>1, SetToSeqIs
<1>3. ps = [i \in DOMAIN order |-> [id |-> order[i], entry |-> g.servers[order[i]]]]
  BY DEF AsPackages
<1> HIDE DEF order, ps
<1>4. DOMAIN ps = DOMAIN order /\ \A i \in DOMAIN order :
        ps[i].id = order[i] /\ ps[i].entry = g.servers[order[i]] /\ order[i] \in ids
  BY <1>2, <1>3
<1>5. ps \in Seq(Package)
  <2>1. \A i \in DOMAIN order : ps[i] \in Package
    BY <1>1, <1>2, <1>3 DEF Package
  <2>2. ps \in [1..Len(order) -> Package] /\ Len(order) \in Nat
    BY <1>2, <1>3, <2>1
  <2> QED
    BY <2>2
<1> QED
  BY <1>2, <1>4, <1>5 DEF ps

-----------------------------------------------------------------------------
(* The inductive invariant.                                                *)

Pc == {"idle", "policy", "queued", "packages", "rehoming", "restarting", "spawning"}

IsTask(r) ==
  /\ r = [pc |-> r.pc, todo |-> r.todo, seen |-> r.seen, got |-> r.got, asOf |-> r.asOf,
          added |-> r.added, rehome |-> r.rehome, spawn |-> r.spawn, of |-> r.of, at |-> r.at]
  /\ r.pc \in Pc /\ r.todo \in Seq(File) /\ r.asOf \in Nat

Shape ==
  /\ IsDisk(disk) /\ DOMAIN disk = File /\ edits \in Nat
  /\ DOMAIN task = Task /\ \A t \in Task : IsTask(task[t]) /\ task[t].asOf <= edits
  /\ config = [servers |-> config.servers, homes |-> config.homes]

InQueue(t) == t \in Range(queue)

(* A reconciliation is under way, whether it reads, restarts or admits.    *)
Running(t) == InQueue(t) /\ ~At(t, "queued")

Queued(t) ==
  /\ task[t].pc \in {"queued", "packages", "rehoming"} => InQueue(t)
  /\ task[t].pc \in {"idle", "policy", "spawning"} => ~InQueue(t)
  /\ Running(t) => t = Head(queue)
  /\ At(t, "policy") => t \in Loading \ Spawning
  /\ At(t, "spawning") => t \in Spawning

QueueInv ==
  /\ queue \in Seq(Loading)
  /\ \A i, j \in DOMAIN queue : queue[i] = queue[j] => i = j
  /\ \A t \in Task : Queued(t)

(* The packages in force are the valid ones of the raw configuration.      *)
PackageInv ==
  /\ packages \in Seq(Package)
  /\ \A i, j \in DOMAIN packages : packages[i].id = packages[j].id => i = j
  /\ \A i \in DOMAIN packages :
       /\ packages[i].id \in DOMAIN config.servers
       /\ packages[i].entry = config.servers[packages[i].id]
       /\ Valid(packages[i].entry)

(* What a task remembers across its awaits is still so.                    *)
Remembers(t) ==
  LET r == task[t] IN
  /\ At(t, "restarting") => r.at \in DOMAIN packages /\ packages[r.at].id = r.of
  /\ Running(t) => IsMaps(r.got)
  /\ Running(t) /\ ~At(t, "packages") => r.added \subseteq Usable(r.got) \ Ids(packages)
  /\ t \in Spawning /\ (InQueue(t) \/ At(t, "spawning")) => r.spawn \in Ids(packages)

TaskInv == \A t \in Task : Remembers(t)

(* The packages have the env of the files as they are, where it may change.*)
EnvOfFiles ==
  Load(disk).ok =>
    \A i \in DOMAIN packages :
      LET id == packages[i].id  now == Load(disk).got IN
      id \in Usable(now) /\ SameButEnv(packages[i].entry, now.servers[id])
        => packages[i].entry.env = now.servers[id].env

(* A spawn that began after the last edit is behind t, or was.             *)
Awaited(t) ==
  \E u \in Spawning : task[u].asOf = edits /\ (u = t \/ At(u, "spawning"))

Follows(t) ==
  IF At(t, "packages") THEN OnCourse(disk, task[t]) ELSE task[t].got = Load(disk).got

FreshInv ==
  ~terminal =>
    /\ \A u \in Spawning : At(u, "spawning") /\ task[u].asOf = edits => EnvOfFiles
    /\ \A t \in Task : Running(t) /\ Awaited(t) => Follows(t)

IInv == Shape /\ QueueInv /\ PackageInv /\ TaskInv /\ FreshInv

-----------------------------------------------------------------------------
(* Queues without repetitions.                                             *)

Once(q) == \A i, j \in DOMAIN q : q[i] = q[j] => i = j

LEMMA AppendOnce ==
  ASSUME NEW S, NEW q \in Seq(S), NEW x \in S, x \notin Range(q), Once(q)
  PROVE  /\ Append(q, x) \in Seq(S) /\ Once(Append(q, x))
         /\ Range(Append(q, x)) = Range(q) \cup {x}
         /\ \A y \in Range(q) : Head(Append(q, x)) = Head(q)
<1> DEFINE r == Append(q, x)
<1>1. r \in Seq(S) /\ Len(r) = Len(q) + 1 /\ Len(q) \in Nat
  OBVIOUS
<1>2. r[Len(q) + 1] = x /\ \A i \in 1..Len(q) : r[i] = q[i]
  OBVIOUS
<1>3. DOMAIN r = 1..(Len(q) + 1) /\ DOMAIN q = 1..Len(q)
  OBVIOUS
<1> HIDE DEF r
<1>4. Once(r)
  BY <1>1, <1>2, <1>3 DEF Once, Range
<1>5. Range(r) = Range(q) \cup {x}
  <2>1. \A y \in Range(r) : y \in Range(q) \cup {x}
    BY <1>1, <1>2, <1>3 DEF Range
  <2>2. \A y \in Range(q) : y \in Range(r)
    <3> TAKE y \in Range(q)
    <3>1. PICK i \in 1..Len(q) : y = q[i]
      BY <1>3 DEF Range
    <3>2. i \in DOMAIN r /\ r[i] = y
      BY <1>1, <1>2, <1>3, <3>1
    <3> QED
      BY <3>2 DEF Range
  <2>3. x \in Range(r)
    BY <1>1, <1>2, <1>3 DEF Range
  <2> QED
    BY <2>1, <2>2, <2>3
<1>6. ASSUME NEW y \in Range(q) PROVE Head(r) = Head(q)
  <2>1. 1 \in 1..Len(q)
    BY <1>1, <1>3, <1>6 DEF Range
  <2> QED
    BY <1>2, <2>1
<1> QED
  BY <1>1, <1>4, <1>5, <1>6 DEF r

LEMMA TailOnce ==
  ASSUME NEW S, NEW q \in Seq(S), q # <<>>, Once(q)
  PROVE  /\ Tail(q) \in Seq(S) /\ Once(Tail(q))
         /\ Range(Tail(q)) = Range(q) \ {Head(q)}
<1> DEFINE r == Tail(q)
<1>1. r \in Seq(S) /\ Len(r) = Len(q) - 1 /\ Len(q) \in Nat /\ Len(q) >= 1
  OBVIOUS
<1>2. Head(q) = q[1] /\ \A i \in 1..(Len(q) - 1) : r[i] = q[i + 1]
  OBVIOUS
<1>3. DOMAIN r = 1..(Len(q) - 1) /\ DOMAIN q = 1..Len(q)
  BY <1>1
<1> HIDE DEF r
<1>4. Once(r)
  <2> SUFFICES ASSUME NEW i \in DOMAIN r, NEW j \in DOMAIN r, r[i] = r[j]
               PROVE  i = j
    BY DEF Once
  <2>1. q[i + 1] = q[j + 1] /\ i + 1 \in DOMAIN q /\ j + 1 \in DOMAIN q
    BY <1>1, <1>2, <1>3
  <2> QED
    BY <1>1, <1>3, <2>1 DEF Once
<1>5. \A y \in Range(r) : y \in Range(q) \ {Head(q)}
  <2> TAKE y \in Range(r)
  <2>1. PICK i \in DOMAIN r : y = r[i]
    BY DEF Range
  <2>2. y = q[i + 1] /\ i + 1 \in DOMAIN q /\ 1 \in DOMAIN q /\ i + 1 # 1
    BY <1>1, <1>2, <1>3, <2>1
  <2> QED
    BY <1>2, <2>2 DEF Once, Range
<1>6. \A y \in Range(q) \ {Head(q)} : y \in Range(r)
  <2> TAKE y \in Range(q) \ {Head(q)}
  <2>1. PICK i \in DOMAIN q : y = q[i]
    BY DEF Range
  <2>2. i # 1 /\ i - 1 \in DOMAIN r /\ (i - 1) + 1 = i
    BY <1>1, <1>2, <1>3, <2>1
  <2>3. r[i - 1] = y
    BY <1>2, <1>3, <2>1, <2>2
  <2> QED
    BY <2>2, <2>3 DEF Range
<1> QED
  BY <1>1, <1>4, <1>5, <1>6 DEF r

-----------------------------------------------------------------------------
(* How a step moves a task: outside the queue, into it, at its head, or out*)
(* of it.                                                                  *)

Changes(t) ==
  /\ DOMAIN task' = Task /\ \A u \in Task \ {t} : task'[u] = task[u]
  /\ IsTask(task'[t]) /\ task'[t].asOf <= edits

SameFiles == UNCHANGED <<disk, edits, terminal>>

SamePackages ==
  /\ packages' = packages /\ config'.servers = config.servers
  /\ config' = [servers |-> config'.servers, homes |-> config'.homes]

KnowsIndex(r) == r.at \in DOMAIN packages /\ packages[r.at].id = r.of

Outside(t) ==
  /\ SameFiles /\ SamePackages /\ Changes(t)
  /\ queue' = queue /\ ~InQueue(t)
  /\ task'[t].pc \in {"idle", "policy", "restarting"}
  /\ task'[t].pc = "policy" => t \in Loading \ Spawning
  /\ task'[t].pc = "restarting" => KnowsIndex(task'[t])

Asks(t) ==
  /\ SameFiles /\ SamePackages /\ Changes(t)
  /\ t \in Loading /\ ~InQueue(t) /\ queue' = Append(queue, t)
  /\ task'[t].pc = "queued"
  /\ t \in Spawning => task'[t].spawn \in Ids(packages)

Runs(t) ==
  /\ SameFiles /\ SamePackages /\ Changes(t)
  /\ InQueue(t) /\ t = Head(queue) /\ queue' = queue
  /\ task'[t].pc \in {"packages", "rehoming", "restarting"}
  /\ task'[t].asOf = task[t].asOf /\ task'[t].spawn = task[t].spawn
  /\ IsMaps(task'[t].got)
  /\ task'[t].pc # "packages" => task'[t].added \subseteq Usable(task'[t].got) \ Ids(packages)
  /\ task'[t].pc = "restarting" => KnowsIndex(task'[t])
  /\ ~terminal /\ Awaited(t) => Follows(t)'

Leaves(t) ==
  /\ SameFiles /\ Changes(t)
  /\ InQueue(t) /\ t = Head(queue) /\ queue' = Tail(queue)
  /\ task'[t].pc = IF t \in Spawning THEN "spawning" ELSE "idle"
  /\ t \in Spawning => task'[t].asOf = task[t].asOf /\ task'[t].spawn = task[t].spawn
  /\ PackageInv'
  /\ config' = [servers |-> config'.servers, homes |-> config'.homes]
  /\ \A i \in DOMAIN packages : i \in DOMAIN packages' /\ packages'[i].id = packages[i].id
  /\ ~terminal /\ Awaited(t) => EnvOfFiles'

LEMMA ChangesShape ==
  ASSUME Shape, NEW t \in Task, SameFiles, Changes(t),
         config' = [servers |-> config'.servers, homes |-> config'.homes]
  PROVE  Shape'
BY DEF Shape, SameFiles, Changes

LEMMA SamePackageInv ==
  ASSUME PackageInv, SamePackages
  PROVE  PackageInv'
BY DEF PackageInv, SamePackages

LEMMA IdsKept ==
  ASSUME PackageInv,
         \A i \in DOMAIN packages : i \in DOMAIN packages' /\ packages'[i].id = packages[i].id
  PROVE  Ids(packages) \subseteq Ids(packages')
BY DEF Ids

LEMMA OutsideKeeps ==
  ASSUME IInv, NEW t \in Task, Outside(t)
  PROVE  IInv'
<1>1. Shape'
  BY ChangesShape DEF IInv, Outside, SamePackages
<1>2. QueueInv'
  <2>1. \A u \in Task : Queued(u)'
    <3> TAKE u \in Task
    <3>1. CASE u = t
      BY <3>1 DEF Queued, Outside, InQueue, Running, At
    <3>2. CASE u # t
      BY <3>2 DEF IInv, QueueInv, Queued, Outside, Changes, InQueue, Running, At
    <3> QED
      BY <3>1, <3>2
  <2> QED
    BY <2>1 DEF IInv, QueueInv, Outside
<1>3. PackageInv'
  BY SamePackageInv DEF IInv, Outside
<1>4. TaskInv'
  <2> SUFFICES ASSUME NEW u \in Task PROVE Remembers(u)'
    BY DEF TaskInv
  <2>1. CASE u = t
    BY <2>1 DEF Remembers, Outside, SamePackages, KnowsIndex, InQueue, Running, At
  <2>2. CASE u # t
    BY <2>2 DEF IInv, TaskInv, Remembers, Outside, SamePackages, Changes, InQueue, Running, At,
                Ids
  <2> QED
    BY <2>1, <2>2
<1>5. FreshInv'
  <2> SUFFICES ASSUME ~terminal PROVE FreshInv'
    BY DEF FreshInv, Outside, SameFiles
  <2>1. \A u \in Task : task'[u].pc \in {"queued", "spawning"} \/ (Running(u))' =>
          u # t /\ task'[u] = task[u]
    BY DEF Outside, Changes, Running, InQueue
  <2>2. EnvOfFiles' <=> EnvOfFiles
    BY DEF EnvOfFiles, Outside, SameFiles, SamePackages
  <2>3. ASSUME NEW u \in Spawning, At(u, "spawning")', task'[u].asOf = edits' PROVE EnvOfFiles'
    BY <2>1, <2>2, <2>3 DEF IInv, FreshInv, Outside, SameFiles, At, Task, Loading
  <2>4. ASSUME NEW u \in Task, Running(u)', Awaited(u)' PROVE Follows(u)'
    <3>1. u # t /\ task'[u] = task[u]
      BY <2>1, <2>4
    <3>2. Running(u)
      BY <2>4, <3>1 DEF Running, InQueue, Outside, At
    <3>3. Awaited(u)
      BY <2>1, <2>4, <3>1 DEF Awaited, Outside, SameFiles, At, Task, Loading
    <3>4. Follows(u)
      BY <3>2, <3>3 DEF IInv, FreshInv
    <3> QED
      BY <3>1, <3>4 DEF Follows, Outside, SameFiles, At
  <2> QED
    BY <2>3, <2>4 DEF FreshInv
<1> QED
  BY <1>1, <1>2, <1>3, <1>4, <1>5 DEF IInv

LEMMA AsksKeeps ==
  ASSUME IInv, NEW t \in Task, Asks(t)
  PROVE  IInv'
<1> USE DEF Asks
<1>1. Shape'
  BY ChangesShape DEF IInv, SamePackages
<1>2. /\ queue' \in Seq(Loading) /\ Once(queue') /\ Range(queue') = Range(queue) \cup {t}
      /\ \A y \in Range(queue) : Head(queue') = Head(queue)
  BY AppendOnce DEF IInv, QueueInv, Once, InQueue
<1>3. QueueInv'
  <2>1. \A u \in Task : Queued(u)'
    <3> TAKE u \in Task
    <3>1. CASE u = t
      BY <1>2, <3>1 DEF Queued, InQueue, Running, At
    <3>2. CASE u # t
      BY <1>2, <3>2 DEF IInv, QueueInv, Queued, Changes, InQueue, Running, At
    <3> QED
      BY <3>1, <3>2
  <2> QED
    BY <1>2, <2>1 DEF QueueInv, Once
<1>4. PackageInv'
  BY SamePackageInv DEF IInv
<1>5. TaskInv'
  <2> SUFFICES ASSUME NEW u \in Task PROVE Remembers(u)'
    BY DEF TaskInv
  <2>1. CASE u = t
    BY <1>2, <2>1 DEF Remembers, SamePackages, InQueue, Running, At, Ids
  <2>2. CASE u # t
    BY <1>2, <2>2 DEF IInv, TaskInv, Remembers, SamePackages, Changes, InQueue, Running, At, Ids
  <2> QED
    BY <2>1, <2>2
<1>6. FreshInv'
  <2> SUFFICES ASSUME ~terminal PROVE FreshInv'
    BY DEF FreshInv, SameFiles
  <2>1. \A u \in Task : task'[u].pc = "spawning" \/ (Running(u))' => u # t /\ task'[u] = task[u]
    BY DEF Changes, Running, InQueue, At
  <2>2. EnvOfFiles' <=> EnvOfFiles
    BY DEF EnvOfFiles, SameFiles, SamePackages
  <2>3. ASSUME NEW u \in Spawning, At(u, "spawning")', task'[u].asOf = edits' PROVE EnvOfFiles'
    BY <2>1, <2>2, <2>3 DEF IInv, FreshInv, SameFiles, At, Task, Loading
  <2>4. ASSUME NEW u \in Task, Running(u)', Awaited(u)' PROVE Follows(u)'
    <3>1. u # t /\ task'[u] = task[u]
      BY <2>1, <2>4
    <3>2. Running(u)
      BY <1>2, <2>4, <3>1 DEF Running, InQueue, At
    <3>3. Awaited(u)
      BY <2>1, <2>4, <3>1 DEF Awaited, SameFiles, At, Task, Loading
    <3>4. Follows(u)
      BY <3>2, <3>3 DEF IInv, FreshInv
    <3> QED
      BY <3>1, <3>4 DEF Follows, SameFiles, At
  <2> QED
    BY <2>3, <2>4 DEF FreshInv
<1> QED
  BY <1>1, <1>3, <1>4, <1>5, <1>6 DEF IInv

LEMMA OnlyHeadRuns ==
  ASSUME QueueInv, NEW t \in Task, NEW u \in Task, t = Head(queue), Running(u)
  PROVE  u = t
BY DEF QueueInv, Queued

LEMMA RunsKeeps ==
  ASSUME IInv, NEW t \in Task, Runs(t)
  PROVE  IInv'
<1> USE DEF Runs
<1>1. Shape'
  BY ChangesShape DEF IInv, SamePackages
<1>2. QueueInv'
  <2>1. \A u \in Task : Queued(u)'
    <3> TAKE u \in Task
    <3>1. CASE u = t
      BY <3>1 DEF Queued, InQueue, Running, At
    <3>2. CASE u # t
      BY <3>2 DEF IInv, QueueInv, Queued, Changes, InQueue, Running, At
    <3> QED
      BY <3>1, <3>2
  <2> QED
    BY <2>1 DEF IInv, QueueInv
<1>3. PackageInv'
  BY SamePackageInv DEF IInv
<1>4. TaskInv'
  <2> SUFFICES ASSUME NEW u \in Task PROVE Remembers(u)'
    BY DEF TaskInv
  <2>1. CASE u = t
    <3>1. t \in Spawning => task[t].spawn \in Ids(packages)
      BY DEF IInv, TaskInv, Remembers
    <3> QED
      BY <2>1, <3>1 DEF Remembers, SamePackages, KnowsIndex, InQueue, Running, At, Ids
  <2>2. CASE u # t
    BY <2>2 DEF IInv, TaskInv, Remembers, SamePackages, Changes, InQueue, Running, At, Ids
  <2> QED
    BY <2>1, <2>2
<1>5. FreshInv'
  <2> SUFFICES ASSUME ~terminal PROVE FreshInv'
    BY DEF FreshInv, SameFiles
  <2>1. \A u \in Task : task'[u].pc = "spawning" => u # t /\ task'[u] = task[u]
    BY DEF Changes
  <2>2. EnvOfFiles' <=> EnvOfFiles
    BY DEF EnvOfFiles, SameFiles, SamePackages
  <2>3. ASSUME NEW u \in Spawning, At(u, "spawning")', task'[u].asOf = edits' PROVE EnvOfFiles'
    BY <2>1, <2>2, <2>3 DEF IInv, FreshInv, SameFiles, At, Task, Loading
  <2>4. ASSUME NEW u \in Task, Running(u)', Awaited(u)' PROVE Follows(u)'
    <3>1. u = t
      <4>1. u # t => Running(u)
        BY <2>4 DEF Running, InQueue, At, Changes
      <4> QED
        BY <4>1, OnlyHeadRuns DEF IInv
    <3>2. Awaited(t)
      BY <2>1, <2>4, <3>1 DEF Awaited, SameFiles, At, Task, Loading
    <3> QED
      BY <3>1, <3>2
  <2> QED
    BY <2>3, <2>4 DEF FreshInv
<1> QED
  BY <1>1, <1>2, <1>3, <1>4, <1>5 DEF IInv

LEMMA LeavesKeeps ==
  ASSUME IInv, NEW t \in Task, Leaves(t)
  PROVE  IInv'
<1> USE DEF Leaves
<1>1. Shape'
  BY ChangesShape DEF IInv
<1>2. queue' \in Seq(Loading) /\ Once(queue') /\ Range(queue') = Range(queue) \ {t}
  <2>1. queue \in Seq(Loading) /\ queue # <<>> /\ Once(queue)
    BY DEF IInv, QueueInv, Once, InQueue, Range
  <2> QED
    BY <2>1, TailOnce
<1>3. \A u \in Task : ~Running(u)'
  <2> SUFFICES ASSUME NEW u \in Task, Running(u)' PROVE FALSE
    OBVIOUS
  <2>1. u # t
    BY <1>2 DEF Running, InQueue
  <2>2. Running(u)
    BY <1>2, <2>1 DEF Running, InQueue, At, Changes
  <2> QED
    BY <2>1, <2>2, OnlyHeadRuns DEF IInv
<1>4. QueueInv'
  <2>1. \A u \in Task : Queued(u)'
    <3> TAKE u \in Task
    <3>1. CASE u = t
      BY <1>2, <1>3, <3>1 DEF Queued, InQueue, At
    <3>2. CASE u # t
      BY <1>2, <1>3, <3>2 DEF IInv, QueueInv, Queued, Changes, InQueue, At
    <3> QED
      BY <3>1, <3>2
  <2> QED
    BY <1>2, <2>1 DEF QueueInv, Once
<1>5. Ids(packages) \subseteq Ids(packages')
  BY IdsKept DEF IInv
<1>6. TaskInv'
  <2> SUFFICES ASSUME NEW u \in Task PROVE Remembers(u)'
    BY DEF TaskInv
  <2>1. CASE u = t
    <3>1. t \in Spawning => task[t].spawn \in Ids(packages)
      BY DEF IInv, TaskInv, Remembers
    <3> QED
      BY <1>2, <1>3, <1>5, <2>1, <3>1 DEF Remembers, InQueue, At, Ids
  <2>2. CASE u # t
    <3>1. Remembers(u) /\ task'[u] = task[u] /\ (InQueue(u)' <=> InQueue(u))
      BY <1>2, <2>2 DEF IInv, TaskInv, Changes, InQueue
    <3> QED
      BY <1>3, <1>5, <3>1 DEF Remembers, At, Ids
  <2> QED
    BY <2>1, <2>2
<1>7. FreshInv'
  <2> SUFFICES ASSUME ~terminal, NEW u \in Spawning, At(u, "spawning")', task'[u].asOf = edits'
               PROVE  EnvOfFiles'
    BY <1>3 DEF FreshInv, SameFiles
  <2>1. Awaited(t)
    BY DEF Awaited, Changes, SameFiles, At, Task, Loading
  <2> QED
    BY <2>1
<1> QED
  BY <1>1, <1>4, <1>6, <1>7 DEF IInv

-----------------------------------------------------------------------------
(* Every action of a task is one of these moves.                           *)

LEMMA BecomeChanges ==
  ASSUME Shape, NEW t \in Task, NEW r, IsTask(r), r.asOf <= edits, Become(t, r)
  PROVE  Changes(t) /\ task'[t] = r
BY DEF Shape, Become, Changes

LEMMA IdleIsTask == IsTask(IdleTask) /\ IdleTask.asOf = 0 /\ IdleTask.pc = "idle"
BY DEF IsTask, IdleTask, Pc

LEMMA OutsideIsKept ==
  ASSUME IInv, UNCHANGED <<disk, edits, registry, terminal>>
  PROVE  SameFiles /\ SamePackages
BY DEF IInv, Shape, SameFiles, SamePackages, registry

LEMMA WalksBegin ==
  ASSUME IInv, NEW t \in Task, At(t, "idle"), t \in Loading \ Spawning,
         Become(t, Walk([IdleTask EXCEPT !.asOf = edits], "policy", {})),
         UNCHANGED <<disk, edits, registry, terminal, queue>>
  PROVE  Outside(t)
<1> PICK r : r = Walk([IdleTask EXCEPT !.asOf = edits], "policy", {})
  OBVIOUS
<1>1. IsTask(r) /\ r.asOf = edits /\ r.pc = "policy"
  <2>1. r = [[IdleTask EXCEPT !.asOf = edits] EXCEPT
               !.pc = "policy", !.todo = <<Root>>, !.seen = {}, !.got = {}]
    BY DEF Walk
  <2>2. <<Root>> \in Seq(File) /\ edits \in Nat
    BY ConfigurationAssumption DEF IInv, Shape
  <2> QED
    BY <2>1, <2>2, IdleIsTask DEF IsTask, Pc
<1> Become(t, r)
  BY Zenon
<1>2. Changes(t) /\ task'[t] = r
  BY <1>1, BecomeChanges DEF IInv, Shape
<1>3. ~InQueue(t)
  BY DEF IInv, QueueInv, Queued, At
<1> QED
  BY <1>1, <1>2, <1>3, OutsideIsKept DEF Outside

LEMMA ApplyMoves ==
  ASSUME IInv, NEW t \in Task, Apply(t)
  PROVE  Outside(t)
<1>1. t \in Loading \ Spawning
  BY ConfigurationAssumption DEF Apply, Loading
<1> QED
  BY <1>1, WalksBegin DEF Apply, host

LEMMA TimerFiresMoves ==
  ASSUME IInv, NEW t \in Task, TimerFires(t)
  PROVE  Outside(t)
<1>1. t \in Loading \ Spawning
  BY ConfigurationAssumption DEF TimerFires, Loading
<1> QED
  BY <1>1, WalksBegin DEF TimerFires, host

LEMMA IndexIs ==
  ASSUME PackageInv, NEW id \in Ids(packages)
  PROVE  Index(id) \in DOMAIN packages /\ packages[Index(id)].id = id
BY DEF Ids, Index

LEMMA RestartMoves ==
  ASSUME IInv, NEW t \in Task, Restart(t)
  PROVE  Outside(t)
<1> DEFINE w(id) == [IdleTask EXCEPT !.pc = "restarting", !.of = id, !.at = Index(id)]
<1>0. PICK id \in Ids(packages) : Become(t, w(id))
  BY DEF Restart
<1> HIDE DEF w
<1>1. PICK r : r = w(id) /\ Become(t, r)
  BY <1>0
<1>2. IsTask(r) /\ r.asOf = 0 /\ r.pc = "restarting" /\ r.of = id /\ r.at = Index(id)
  BY <1>1, IdleIsTask DEF IsTask, Pc, w
<1>3. Changes(t) /\ task'[t] = r
  BY <1>1, <1>2, BecomeChanges DEF IInv, Shape
<1>4. ~InQueue(t)
  BY DEF IInv, QueueInv, Queued, At, Restart
<1>5. KnowsIndex(r)
  BY <1>2, IndexIs DEF IInv, KnowsIndex
<1> QED
  BY <1>2, <1>3, <1>4, <1>5, OutsideIsKept DEF Outside, Restart, host

LEMMA PolicyIsRead ==
  ASSUME IInv, NEW t \in Task, At(t, "policy"), task[t].todo # <<>>
  PROVE  ~InQueue(t) /\ t \in Loading \ Spawning /\ Head(task[t].todo) \in File
         /\ Tail(task[t].todo) \in Seq(File) /\ IsTask(task[t]) /\ task[t].asOf <= edits
<1>1. ~InQueue(t) /\ t \in Loading \ Spawning
  BY DEF IInv, QueueInv, Queued, At
<1>2. task[t].todo \in Seq(File) /\ IsTask(task[t]) /\ task[t].asOf <= edits
  BY DEF IInv, Shape, IsTask
<1> QED
  BY <1>1, <1>2

LEMMA AdvanceIs ==
  ASSUME NEW r, IsTask(r), r.todo # <<>>, IsDisk(disk), NEW m,
         disk[Head(r.todo)] \notin {Absent, Broken}
  PROVE  /\ IsTask(Advance(r, m)) /\ Advance(r, m).pc = r.pc
         /\ Advance(r, m).asOf = r.asOf /\ Advance(r, m).spawn = r.spawn
         /\ Advance(r, m).todo = disk[Head(r.todo)].configPaths \o Tail(r.todo)
         /\ Advance(r, m).seen = r.seen \cup {Head(r.todo)}
         /\ Advance(r, m).got = m
<1> DEFINE f == Head(r.todo)
<1>1. f \in File /\ Tail(r.todo) \in Seq(File)
  BY DEF IsTask
<1>2. disk[f].configPaths \in Seq(File)
  BY <1>1, FileHolds DEF IsContent
<1>3. disk[f].configPaths \o Tail(r.todo) \in Seq(File)
  BY <1>1, <1>2, ConcatProperties
<1> HIDE DEF f
<1>4. Advance(r, m) = [r EXCEPT !.todo = disk[f].configPaths \o Tail(r.todo),
                                !.seen = r.seen \cup {f}, !.got = m]
  BY DEF Advance, f, IsTask
<1> QED
  BY <1>3, <1>4 DEF IsTask, f

LEMMA ReadPolicyMoves ==
  ASSUME IInv, NEW t \in Task, ReadPolicy(t)
  PROVE  Outside(t)
<1> DEFINE r == task[t]
           f == Head(r.todo)
<1>1. At(t, "policy") /\ r.todo # <<>>
  BY DEF ReadPolicy
<1>2. ~InQueue(t) /\ t \in Loading \ Spawning /\ f \in File /\ Tail(r.todo) \in Seq(File)
      /\ IsTask(r) /\ r.asOf <= edits
  BY <1>1, PolicyIsRead
<1>3. PICK v : Become(t, v) /\ IsTask(v) /\ v.pc = r.pc /\ v.asOf = r.asOf
  <2>1. CASE f \in r.seen \/ disk[f] = Absent
    <3> PICK v : v = Skip(r)
      OBVIOUS
    <3>1. Become(t, v)
      BY <2>1 DEF ReadPolicy
    <3>2. v = [r EXCEPT !.todo = Tail(r.todo), !.seen = r.seen \cup {f}]
      BY <1>2 DEF IsTask, Skip
    <3>3. IsTask(v) /\ v.pc = r.pc /\ v.asOf = r.asOf
      BY <1>2, <3>2 DEF IsTask
    <3> QED
      BY <3>1, <3>3
  <2>2. CASE ~(f \in r.seen \/ disk[f] = Absent)
    <3> DEFINE m == MergePolicy(r.got, disk[f])
    <3>1. Become(t, Advance(r, m)) /\ disk[f] \notin {Absent, Broken}
      BY <2>2 DEF ReadPolicy
    <3>2. IsTask(Advance(r, m)) /\ Advance(r, m).pc = r.pc /\ Advance(r, m).asOf = r.asOf
      BY <1>1, <1>2, <3>1, AdvanceIs DEF IInv, Shape
    <3> QED
      BY <3>1, <3>2
  <2> QED
    BY <2>1, <2>2
<1>4. Changes(t) /\ task'[t] = v
  BY <1>2, <1>3, BecomeChanges DEF IInv
<1> QED
  BY <1>1, <1>2, <1>3, <1>4, OutsideIsKept DEF Outside, ReadPolicy, At, host

LEMMA EnqueueMoves ==
  ASSUME IInv, NEW t \in Loading, ~InQueue(t), NEW r, Enqueue(t, r),
         t \in Spawning => r.asOf \in Nat /\ r.asOf <= edits /\ r.spawn \in Ids(packages),
         UNCHANGED <<disk, edits, registry, terminal>>
  PROVE  Asks(t)
<1> DEFINE asOf == IF t \in Spawning THEN r.asOf ELSE 0
<1> PICK v : v = [IdleTask EXCEPT !.pc = "queued", !.spawn = r.spawn, !.asOf = asOf]
  OBVIOUS
<1>1. IsTask(v) /\ v.pc = "queued" /\ v.spawn = r.spawn /\ v.asOf <= edits
  <2>1. asOf \in Nat /\ asOf <= edits
    BY DEF IInv, Shape
  <2> HIDE DEF asOf
  <2> QED
    BY <2>1, IdleIsTask DEF IsTask, Pc
<1>2. Become(t, v) /\ queue' = Append(queue, t) /\ t \in Task
  BY DEF Enqueue, Task
<1>3. Changes(t) /\ task'[t] = v
  BY <1>1, <1>2, BecomeChanges DEF IInv
<1> QED
  BY <1>1, <1>2, <1>3, OutsideIsKept DEF Asks

LEMMA PolicyFailsMoves ==
  ASSUME IInv, NEW t \in Task, PolicyFails(t)
  PROVE  Outside(t) \/ Asks(t)
<1>1. ~InQueue(t) /\ t \in Loading \ Spawning
  BY PolicyIsRead DEF PolicyFails
<1>2. CASE t \in Applying
  <2>1. Become(t, IdleTask) /\ queue' = queue
    BY <1>2 DEF PolicyFails
  <2>2. Changes(t) /\ task'[t] = IdleTask
    BY <2>1, IdleIsTask, BecomeChanges DEF IInv, Shape
  <2> QED
    BY <1>1, <2>1, <2>2, IdleIsTask, OutsideIsKept DEF Outside, PolicyFails, host
<1>3. CASE t \notin Applying
  BY <1>1, <1>3, EnqueueMoves DEF PolicyFails, host
<1> QED
  BY <1>2, <1>3

LEMMA SetPolicyMoves ==
  ASSUME IInv, NEW t \in Task, SetPolicy(t)
  PROVE  Asks(t)
<1>1. ~InQueue(t) /\ t \in Loading \ Spawning
  BY DEF IInv, QueueInv, Queued, At, SetPolicy
<1> QED
  BY <1>1, EnqueueMoves DEF SetPolicy, host

LEMMA SpawnMoves ==
  ASSUME IInv, NEW t \in Task, Spawn(t)
  PROVE  Asks(t)
<1> DEFINE w(i) == [IdleTask EXCEPT !.asOf = edits, !.spawn = packages[i].id]
<1>0. PICK i \in DOMAIN packages : Enqueue(t, w(i))
  BY DEF Spawn
<1> HIDE DEF w
<1>1. PICK r : r = w(i) /\ Enqueue(t, r)
  BY <1>0
<1>2. r.asOf = edits /\ r.spawn = packages[i].id /\ edits \in Nat
  BY <1>1, IdleIsTask DEF IsTask, IInv, Shape, w
<1>3. ~InQueue(t) /\ t \in Loading
  BY DEF IInv, QueueInv, Queued, At, Spawn, Loading
<1>4. packages[i].id \in Ids(packages)
  BY DEF Ids
<1> QED
  BY <1>1, <1>2, <1>3, <1>4, EnqueueMoves DEF Spawn, host

LEMMA SpawnGoesOnMoves ==
  ASSUME IInv, NEW t \in Task, SpawnGoesOn(t)
  PROVE  Outside(t)
<1>1. ~InQueue(t)
  BY DEF IInv, QueueInv, Queued, At, SpawnGoesOn
<1>2. Changes(t) /\ task'[t] = IdleTask
  BY IdleIsTask, BecomeChanges DEF SpawnGoesOn, IInv, Shape
<1> QED
  BY <1>1, <1>2, IdleIsTask, OutsideIsKept DEF Outside, SpawnGoesOn, host

LEMMA RunningIs ==
  ASSUME IInv, NEW t \in Task, Running(t)
  PROVE  /\ InQueue(t) /\ t = Head(queue)
         /\ IsTask(task[t]) /\ task[t].asOf <= edits /\ IsMaps(task[t].got)
         /\ ~At(t, "packages") => task[t].added \subseteq Usable(task[t].got) \ Ids(packages)
         /\ ~terminal /\ Awaited(t) => Follows(t)
BY DEF IInv, Shape, QueueInv, Queued, TaskInv, Remembers, FreshInv, Running

(* A task that leaves before it has changed a package.                     *)
LEMMA LeaveMoves ==
  ASSUME IInv, NEW t \in Task, InQueue(t), t = Head(queue), Leave(t), SameFiles,
         PackageInv', config' = [servers |-> config'.servers, homes |-> config'.homes],
         \A i \in DOMAIN packages : i \in DOMAIN packages' /\ packages'[i].id = packages[i].id,
         ~terminal /\ Awaited(t) => EnvOfFiles'
  PROVE  Leaves(t)
<1> DEFINE w == [IdleTask EXCEPT !.pc = "spawning", !.spawn = task[t].spawn,
                                 !.asOf = task[t].asOf]
           v == IF t \in Spawning THEN w ELSE IdleTask
<1>1. task[t].asOf \in Nat /\ task[t].asOf <= edits /\ edits \in Nat
  BY DEF IInv, Shape, IsTask
<1>2. Become(t, v) /\ queue' = Tail(queue)
  BY DEF Leave
<1> HIDE DEF w
<1>3. PICK x : x = w
  OBVIOUS
<1>4. IsTask(x) /\ x.pc = "spawning" /\ x.spawn = task[t].spawn /\ x.asOf = task[t].asOf
  BY <1>1, <1>3, IdleIsTask DEF w, IsTask, Pc
<1>5. IsTask(v) /\ v.asOf <= edits /\ v.pc = (IF t \in Spawning THEN "spawning" ELSE "idle")
      /\ (t \in Spawning => v.spawn = task[t].spawn /\ v.asOf = task[t].asOf)
  BY <1>1, <1>3, <1>4, IdleIsTask
<1> HIDE DEF v
<1>6. Changes(t) /\ task'[t] = v
  BY <1>2, <1>5, BecomeChanges DEF IInv
<1> QED
  BY <1>2, <1>5, <1>6 DEF Leaves

LEMMA LeaveAsBefore ==
  ASSUME IInv, NEW t \in Task, InQueue(t), t = Head(queue), Leave(t), SameFiles, SamePackages,
         terminal \/ ~Load(disk).ok
  PROVE  Leaves(t)
<1>1. PackageInv'
  BY SamePackageInv DEF IInv
<1>2. ~terminal => EnvOfFiles'
  BY DEF EnvOfFiles, SameFiles
<1> QED
  BY <1>1, <1>2, LeaveMoves DEF SamePackages

LEMMA ReconcileMoves ==
  ASSUME IInv, NEW t \in Task, Reconcile(t)
  PROVE  Runs(t) \/ Leaves(t)
<1>1. InQueue(t) /\ t = Head(queue) /\ At(t, "queued")
  BY DEF IInv, QueueInv, Queued, Reconcile, Turn, At
<1>2. SameFiles /\ SamePackages
  BY OutsideIsKept DEF Reconcile, host
<1>3. CASE terminal
  BY <1>1, <1>2, <1>3, LeaveAsBefore DEF Reconcile
<1>4. CASE ~terminal
  <2> DEFINE w == Walk(task[t], "packages", Nothing)
  <2>1. Become(t, w) /\ queue' = queue
    BY <1>4 DEF Reconcile
  <2> HIDE DEF w
  <2>2. PICK r : r = w /\ Become(t, r)
    BY <2>1
  <2>3. IsTask(task[t]) /\ task[t].asOf <= edits
    BY DEF IInv, Shape
  <2>4. r = [task[t] EXCEPT !.pc = "packages", !.todo = <<Root>>, !.seen = {}, !.got = Nothing]
    BY <2>2 DEF w, Walk
  <2>5. <<Root>> \in Seq(File)
    BY ConfigurationAssumption
  <2>6. IsTask(r) /\ r.pc = "packages" /\ r.todo = <<Root>> /\ r.seen = {} /\ r.got = Nothing
        /\ r.asOf = task[t].asOf /\ r.spawn = task[t].spawn
    BY <2>3, <2>4, <2>5 DEF IsTask, Pc
  <2>7. Changes(t) /\ task'[t] = r
    BY <2>2, <2>3, <2>6, BecomeChanges DEF IInv
  <2>8. Follows(t)'
    BY <2>6, <2>7, CourseBegins DEF Follows, At
  <2> QED
    BY <1>1, <1>2, <2>1, <2>6, <2>7, <2>8, NothingIsMaps DEF Runs
<1> QED
  BY <1>3, <1>4

LEMMA ReadPackagesMoves ==
  ASSUME IInv, NEW t \in Task, ReadPackages(t)
  PROVE  Runs(t) \/ Leaves(t)
<1> DEFINE r == task[t]
           f == Head(r.todo)
<1>1. Running(t) /\ At(t, "packages") /\ r.todo # <<>>
  BY DEF IInv, QueueInv, Queued, ReadPackages, Running, At
<1>2. InQueue(t) /\ t = Head(queue) /\ IsTask(r) /\ r.asOf <= edits /\ IsMaps(r.got)
      /\ (~terminal /\ Awaited(t) => OnCourse(disk, r))
  BY <1>1, RunningIs DEF Follows
<1>3. SameFiles /\ SamePackages /\ IsDisk(disk)
  BY OutsideIsKept DEF ReadPackages, host, IInv, Shape
<1>4. f \in File
  BY <1>1, <1>2 DEF IsTask
<1>5. CASE Unloadable(r)
  <2>1. Leave(t)
    BY <1>5 DEF ReadPackages
  <2>2. disk[f] \in {Absent, Broken} \/ f \in r.seen
    BY <1>5 DEF Unloadable, Readable
  <2>3. ~terminal /\ Awaited(t) => ~Load(disk).ok
    BY <1>1, <1>2, <1>3, <2>2, CourseFails
  <2>4. PackageInv'
    BY <1>3, SamePackageInv DEF IInv
  <2>5. ~terminal /\ Awaited(t) => EnvOfFiles'
    BY <1>3, <2>3 DEF EnvOfFiles, SameFiles
  <2> QED
    BY <1>2, <1>3, <2>1, <2>4, <2>5, LeaveMoves DEF SamePackages
<1>6. CASE ~Unloadable(r)
  <2> DEFINE m == MergePackages(r.got, disk[f])
             v == Advance(r, m)
  <2>1. Become(t, v) /\ queue' = queue
    BY <1>6 DEF ReadPackages
  <2>2. disk[f] \notin {Absent, Broken} /\ f \notin r.seen
    BY <1>6 DEF Unloadable, Readable
  <2>3. IsMaps(m)
    BY <1>2, <1>3, <1>4, <2>2, MergeIsMaps
  <2>4. /\ IsTask(v) /\ v.pc = r.pc /\ v.asOf = r.asOf /\ v.spawn = r.spawn
        /\ v.todo = disk[f].configPaths \o Tail(r.todo) /\ v.seen = r.seen \cup {f} /\ v.got = m
    <3> HIDE DEF r, f, m
    <3>1. f = Head(r.todo)
      BY DEF f
    <3> QED
      BY <1>1, <1>2, <1>3, <2>2, <3>1, AdvanceIs
  <2> HIDE DEF v
  <2>5. OnCourse(disk, r) => OnCourse(disk, v)
    <3> HIDE DEF r, f, m
    <3>1. f = Head(r.todo) /\ m = MergePackages(r.got, disk[f])
      BY DEF f, m
    <3> QED
      BY <1>1, <1>3, <2>2, <2>4, <3>1, CourseGoesOn
  <2> HIDE DEF m
  <2>6. Changes(t) /\ task'[t] = v
    BY <1>2, <2>1, <2>4, BecomeChanges DEF IInv
  <2>7. ~terminal /\ Awaited(t) => Follows(t)'
    BY <1>1, <1>2, <1>3, <2>4, <2>5, <2>6 DEF Follows, At, SameFiles
  <2> QED
    BY <1>1, <1>2, <1>3, <2>1, <2>3, <2>4, <2>6, <2>7 DEF Runs, At
<1> QED
  BY <1>5, <1>6

LEMMA CompareMoves ==
  ASSUME IInv, NEW t \in Task, Compare(t)
  PROVE  Runs(t) \/ Leaves(t)
<1> DEFINE r == task[t]
<1>1. Running(t) /\ At(t, "packages") /\ r.todo = <<>>
  BY DEF IInv, QueueInv, Queued, Compare, Running, At
<1>2. InQueue(t) /\ t = Head(queue) /\ IsTask(r) /\ r.asOf <= edits /\ IsMaps(r.got)
      /\ (~terminal /\ Awaited(t) => OnCourse(disk, r))
  BY <1>1, RunningIs DEF Follows
<1>3. CASE terminal
  <2>1. SameFiles /\ SamePackages
    BY <1>3, OutsideIsKept DEF Compare, host, registry
  <2> QED
    BY <1>2, <1>3, <2>1, LeaveAsBefore DEF Compare
<1>4. CASE ~terminal
  <2> DEFINE added == IF t \in Applying THEN Usable(r.got) \ Ids(packages) ELSE {}
             rehome == {id \in Ids(packages) : Home(config.homes, id) # Home(r.got.homes, id)}
             w == [r EXCEPT !.pc = "rehoming", !.seen = {}, !.added = added, !.rehome = rehome]
  <2>1. Become(t, w) /\ queue' = queue /\ config' = [config EXCEPT !.homes = r.got.homes]
    BY <1>4 DEF Compare
  <2> HIDE DEF w, rehome, added
  <2>2. PICK v : v = w /\ Become(t, v)
    BY <2>1
  <2>3. /\ IsTask(v) /\ v.pc = "rehoming" /\ v.asOf = r.asOf /\ v.spawn = r.spawn
        /\ v.got = r.got /\ v.added = added
    BY <1>2, <2>2 DEF w, IsTask, Pc
  <2>4. added \subseteq Usable(r.got) \ Ids(packages)
    BY DEF added
  <2>5. SameFiles /\ SamePackages
    BY <2>1 DEF Compare, host, SameFiles, SamePackages, IInv, Shape
  <2>6. Changes(t) /\ task'[t] = v
    BY <1>2, <2>2, <2>3, BecomeChanges DEF IInv
  <2>7. ~terminal /\ Awaited(t) => r.got = Load(disk).got
    BY <1>1, <1>2, CourseEnds DEF IInv, Shape
  <2>8. ~terminal /\ Awaited(t) => Follows(t)'
    BY <2>3, <2>5, <2>6, <2>7 DEF Follows, At, SameFiles
  <2> QED
    BY <1>2, <2>1, <2>3, <2>4, <2>5, <2>6, <2>8 DEF Runs
<1> QED
  BY <1>3, <1>4

LEMMA RehomeMoves ==
  ASSUME IInv, NEW t \in Task, Rehome(t)
  PROVE  Runs(t)
<1> DEFINE r == task[t]
<1>1. Running(t) /\ At(t, "rehoming")
  BY DEF IInv, QueueInv, Queued, Rehome, Running, At
<1>2. /\ InQueue(t) /\ t = Head(queue) /\ IsTask(r) /\ r.asOf <= edits /\ IsMaps(r.got)
      /\ r.added \subseteq Usable(r.got) \ Ids(packages)
      /\ ~terminal /\ Awaited(t) => r.got = Load(disk).got
  BY <1>1, RunningIs DEF Follows, At
<1>3. SameFiles /\ SamePackages /\ queue' = queue
  BY OutsideIsKept DEF Rehome, host
<1>4. PICK v : /\ Become(t, v) /\ IsTask(v) /\ v.asOf = r.asOf /\ v.spawn = r.spawn
               /\ v.got = r.got /\ v.added = r.added /\ v.pc \in {"rehoming", "restarting"}
               /\ v.pc = "restarting" => KnowsIndex(v)
  <2>1. PICK id \in r.rehome :
          \/ Become(t, [task[t] EXCEPT !.rehome = @ \ {id}])
          \/ /\ id \in Ids(packages)
             /\ Become(t, [task[t] EXCEPT !.rehome = @ \ {id}, !.pc = "restarting",
                                          !.of = id, !.at = Index(id)])
    BY DEF Rehome
  <2>2. CASE Become(t, [task[t] EXCEPT !.rehome = @ \ {id}])
    <3> DEFINE w == [task[t] EXCEPT !.rehome = @ \ {id}]
    <3>1. Become(t, w)
      BY <2>2
    <3> HIDE DEF w
    <3>2. PICK v : v = w /\ Become(t, v)
      BY <3>1
    <3>3. /\ IsTask(v) /\ v.asOf = r.asOf /\ v.spawn = r.spawn /\ v.got = r.got
          /\ v.added = r.added /\ v.pc = r.pc
      BY <1>2, <3>2 DEF w, IsTask
    <3> QED
      BY <1>1, <3>2, <3>3 DEF At
  <2>3. CASE /\ id \in Ids(packages)
             /\ Become(t, [task[t] EXCEPT !.rehome = @ \ {id}, !.pc = "restarting",
                                          !.of = id, !.at = Index(id)])
    <3> DEFINE w == [task[t] EXCEPT !.rehome = @ \ {id}, !.pc = "restarting",
                                    !.of = id, !.at = Index(id)]
    <3>1. Become(t, w)
      BY <2>3
    <3> HIDE DEF w
    <3>2. PICK v : v = w /\ Become(t, v)
      BY <3>1
    <3>3. /\ IsTask(v) /\ v.asOf = r.asOf /\ v.spawn = r.spawn /\ v.got = r.got
          /\ v.added = r.added /\ v.pc = "restarting" /\ v.of = id /\ v.at = Index(id)
      BY <1>2, <3>2 DEF w, IsTask, Pc
    <3>4. KnowsIndex(v)
      BY <2>3, <3>3, IndexIs DEF IInv, KnowsIndex
    <3> QED
      BY <3>2, <3>3, <3>4
  <2> QED
    BY <2>1, <2>2, <2>3
<1>5. Changes(t) /\ task'[t] = v
  BY <1>2, <1>4, BecomeChanges DEF IInv
<1>6. ~terminal /\ Awaited(t) => Follows(t)'
  BY <1>2, <1>3, <1>4, <1>5 DEF Follows, At, SameFiles
<1> QED
  BY <1>2, <1>3, <1>4, <1>5, <1>6 DEF Runs

(* A restart writes the entry its package has.                             *)
LEMMA RestartKeepsPackages ==
  ASSUME IInv, NEW t \in Task, At(t, "restarting")
  PROVE  Normalised(task[t]) = packages
<1> DEFINE r == task[t]
<1>1. r.at \in DOMAIN packages /\ packages[r.at].id = r.of
  BY DEF IInv, TaskInv, Remembers
<1>2. packages \in Seq(Package) /\ r.of \in DOMAIN config.servers
      /\ packages[r.at].entry = config.servers[r.of] /\ Valid(config.servers[r.of])
  BY <1>1 DEF IInv, PackageInv
<1>3. packages[r.at] = [id |-> r.of, entry |-> config.servers[r.of]]
  <2>1. \A x \in Package : x = [id |-> x.id, entry |-> x.entry]
    BY DEF Package
  <2>2. packages[r.at] \in Package
    BY <1>1, <1>2
  <2> QED
    BY <1>1, <1>2, <2>1, <2>2
<1>4. [packages EXCEPT ![r.at] = [id |-> r.of, entry |-> config.servers[r.of]]] = packages
  <2> DEFINE p == [id |-> r.of, entry |-> config.servers[r.of]]
             k == r.at
  <2>0. p = packages[k]
    BY <1>3, Zenon
  <2> HIDE DEF p, k
  <2>1. k \in DOMAIN packages /\ packages \in Seq(Package)
    BY <1>1, <1>2 DEF k
  <2>2. [packages EXCEPT ![k] = p] = packages
    BY <2>0, <2>1
  <2> QED
    BY <2>2 DEF p, k
<1> QED
  BY <1>2, <1>4 DEF Normalised

LEMMA RestartedMoves ==
  ASSUME IInv, NEW t \in Task, Restarted(t)
  PROVE  Outside(t) \/ Runs(t)
<1> DEFINE r == task[t]
<1>1. packages' = packages
  BY RestartKeepsPackages DEF Restarted
<1>2. SameFiles /\ SamePackages /\ queue' = queue
  BY <1>1, OutsideIsKept DEF Restarted, host, registry
<1>3. CASE ~InQueue(t)
  <2>1. Become(t, IdleTask)
    BY <1>3 DEF Restarted, InQueue
  <2>2. Changes(t) /\ task'[t] = IdleTask
    BY <2>1, IdleIsTask, BecomeChanges DEF IInv, Shape
  <2> QED
    BY <1>2, <1>3, <2>2, IdleIsTask DEF Outside
<1>4. CASE InQueue(t)
  <2>1. Running(t) /\ At(t, "restarting")
    BY <1>4 DEF Restarted, Running, At
  <2>2. /\ t = Head(queue) /\ IsTask(r) /\ r.asOf <= edits /\ IsMaps(r.got)
        /\ r.added \subseteq Usable(r.got) \ Ids(packages)
        /\ ~terminal /\ Awaited(t) => r.got = Load(disk).got
    BY <2>1, RunningIs DEF Follows, At
  <2> DEFINE w == [task[t] EXCEPT !.pc = "rehoming", !.of = Nobody, !.at = 0]
  <2>3. Become(t, w)
    BY <1>4 DEF Restarted, InQueue
  <2> HIDE DEF w
  <2>4. PICK v : v = w /\ Become(t, v)
    BY <2>3
  <2>5. /\ IsTask(v) /\ v.asOf = r.asOf /\ v.spawn = r.spawn /\ v.got = r.got
        /\ v.added = r.added /\ v.pc = "rehoming"
    BY <2>2, <2>4 DEF w, IsTask, Pc
  <2>6. Changes(t) /\ task'[t] = v
    BY <2>2, <2>4, <2>5, BecomeChanges DEF IInv
  <2>7. ~terminal /\ Awaited(t) => Follows(t)'
    BY <1>2, <2>2, <2>5, <2>6 DEF Follows, At, SameFiles
  <2> QED
    BY <1>2, <1>4, <2>2, <2>5, <2>6, <2>7 DEF Runs
<1> QED
  BY <1>3, <1>4

-----------------------------------------------------------------------------
(* The env refresh and the admission of what was added.                    *)

Admitted(t) == IF terminal THEN {} ELSE task[t].added

LEMMA ReconciledIs ==
  ASSUME IInv, NEW t \in Task, Reconciled(t)
  PROVE  LET got == task[t].got IN
         /\ packages' \in Seq(Package)
         /\ \A i \in DOMAIN packages :
              /\ i \in DOMAIN packages' /\ packages'[i].id = packages[i].id
              /\ packages'[i].entry = IF i \in Refreshed(got)
                                        THEN got.servers[packages[i].id] ELSE packages[i].entry
         /\ \A i \in DOMAIN packages' \ DOMAIN packages :
              /\ packages'[i].id \in Admitted(t)
              /\ packages'[i].entry = got.servers[packages'[i].id]
         /\ \A i, j \in DOMAIN packages' : packages'[i].id = packages'[j].id => i = j
<1> DEFINE got == task[t].got
           new == AsPackages(got, Admitted(t))
           fresh(s) == [id |-> s, entry |-> got.servers[s]]
           old == [i \in DOMAIN packages |->
                     IF i \in Refreshed(got) THEN fresh(packages[i].id) ELSE packages[i]]
<1>1. Running(t) /\ At(t, "rehoming")
  BY DEF IInv, QueueInv, Queued, Reconciled, Running, At
<1>2. IsMaps(got) /\ Admitted(t) \subseteq Usable(got) \ Ids(packages)
  BY <1>1, RunningIs DEF Admitted, At
<1>3. packages' = old \o new
  BY DEF Reconciled, Admitted
<1>4. packages \in Seq(Package) /\ \A i \in DOMAIN packages : packages[i].id \in Ids(packages)
  BY DEF IInv, PackageInv, Ids
<1>5. \A s \in Usable(got) : got.servers[s] \in Entry /\ s \in Server
  BY <1>2, UsableIs
<1>6. \A i \in Refreshed(got) : i \in DOMAIN packages /\ packages[i].id \in Usable(got)
  BY DEF Refreshed
<1>7. /\ new \in Seq(Package)
      /\ \A i \in DOMAIN new : new[i].id \in Admitted(t) /\ new[i].entry = got.servers[new[i].id]
      /\ \A i, j \in DOMAIN new : new[i].id = new[j].id => i = j
  BY <1>2, AsPackagesIs
<1> HIDE DEF new, got
<1>8. /\ DOMAIN old = DOMAIN packages
      /\ \A i \in DOMAIN packages :
           /\ old[i].id = packages[i].id
           /\ old[i].entry = IF i \in Refreshed(got)
                               THEN got.servers[packages[i].id] ELSE packages[i].entry
           /\ old[i] \in Package
  <2> SUFFICES ASSUME NEW i \in DOMAIN packages
               PROVE  /\ old[i].id = packages[i].id
                      /\ old[i].entry = IF i \in Refreshed(got)
                                          THEN got.servers[packages[i].id] ELSE packages[i].entry
                      /\ old[i] \in Package
    OBVIOUS
  <2>1. CASE i \in Refreshed(got)
    <3>1. old[i] = fresh(packages[i].id)
      BY <2>1
    <3>2. got.servers[packages[i].id] \in Entry /\ packages[i].id \in Server
      BY <1>5, <1>6, <2>1
    <3> QED
      BY <2>1, <3>1, <3>2 DEF Package
  <2>2. CASE i \notin Refreshed(got)
    BY <1>4, <2>2
  <2> QED
    BY <2>1, <2>2
<1>9. old \in Seq(Package) /\ Len(old) = Len(packages)
  <2> old \in [1..Len(packages) -> Package] /\ Len(packages) \in Nat
    BY <1>4, <1>8
  <2> QED
    OBVIOUS
<1> HIDE DEF old
<1>10. /\ packages' \in Seq(Package) /\ Len(packages') = Len(old) + Len(new)
       /\ \A i \in 1..(Len(old) + Len(new)) :
            packages'[i] = IF i <= Len(old) THEN old[i] ELSE new[i - Len(old)]
  <2>1. /\ old \o new \in Seq(Package) /\ Len(old \o new) = Len(old) + Len(new)
        /\ \A i \in 1..(Len(old) + Len(new)) :
             (old \o new)[i] = IF i <= Len(old) THEN old[i] ELSE new[i - Len(old)]
    <3>1. new \in Seq(Package)
      BY <1>7
    <3>2. old \in Seq(Package)
      BY <1>9
    <3> QED
      BY <3>1, <3>2, ConcatProperties
  <2> QED
    BY <1>3, <2>1
<1>11. /\ DOMAIN packages = 1..Len(old) /\ DOMAIN new = 1..Len(new)
       /\ DOMAIN packages' = 1..(Len(old) + Len(new))
       /\ Len(old) \in Nat /\ Len(new) \in Nat
  BY <1>4, <1>7, <1>9, <1>10
<1>12. \A i \in DOMAIN packages : i \in DOMAIN packages' /\ packages'[i] = old[i]
  BY <1>10, <1>11
<1>13. \A i \in DOMAIN packages' \ DOMAIN packages :
         i - Len(old) \in DOMAIN new /\ packages'[i] = new[i - Len(old)]
  BY <1>10, <1>11
<1>14. \A i \in DOMAIN packages : packages'[i].id \in Ids(packages)
  BY <1>4, <1>8, <1>12
<1>15. \A i \in DOMAIN packages' \ DOMAIN packages : packages'[i].id \notin Ids(packages)
  BY <1>2, <1>7, <1>13
<1>16. ASSUME NEW i \in DOMAIN packages', NEW j \in DOMAIN packages',
              packages'[i].id = packages'[j].id
       PROVE  i = j
  <2>1. CASE i \in DOMAIN packages /\ j \in DOMAIN packages
    BY <1>8, <1>12, <1>16, <2>1 DEF IInv, PackageInv
  <2>2. CASE i \notin DOMAIN packages /\ j \notin DOMAIN packages
    <3>1. i - Len(old) = j - Len(old)
      BY <1>7, <1>13, <1>16, <2>2
    <3> QED
      BY <1>11, <3>1
  <2> QED
    BY <1>14, <1>15, <1>16, <2>1, <2>2
<1> QED
  BY <1>7, <1>8, <1>10, <1>12, <1>13, <1>16 DEF got

LEMMA ReconciledMoves ==
  ASSUME IInv, NEW t \in Task, Reconciled(t)
  PROVE  Leaves(t)
<1> DEFINE got == task[t].got
           updated == {packages[i].id : i \in Refreshed(got)}
           raw == [s \in updated \cup Admitted(t) |-> got.servers[s]]
<1>1. Running(t) /\ At(t, "rehoming")
  BY DEF IInv, QueueInv, Queued, Reconciled, Running, At
<1>2. /\ InQueue(t) /\ t = Head(queue) /\ IsMaps(got)
      /\ Admitted(t) \subseteq Usable(got) \ Ids(packages)
      /\ ~terminal /\ Awaited(t) => got = Load(disk).got
  BY <1>1, RunningIs DEF Follows, Admitted, At
<1>3. SameFiles /\ Leave(t)
  BY DEF Reconciled, host, SameFiles
<1>4. config' = [config EXCEPT !.servers = RawAfter(got, updated, Admitted(t))]
  BY DEF Reconciled, Admitted
<1>5. /\ config' = [servers |-> config'.servers, homes |-> config'.homes]
      /\ config'.servers = Override(config.servers, raw)
  <2>1. RawAfter(got, updated, Admitted(t)) = Override(config.servers, raw)
    BY DEF RawAfter
  <2> HIDE DEF raw, updated, got
  <2>2. config' = [config EXCEPT !.servers = Override(config.servers, raw)]
    BY <1>4, <2>1
  <2> QED
    BY <2>2 DEF IInv, Shape
<1>6. /\ packages' \in Seq(Package)
      /\ \A i \in DOMAIN packages :
           /\ i \in DOMAIN packages' /\ packages'[i].id = packages[i].id
           /\ packages'[i].entry = IF i \in Refreshed(got)
                                     THEN got.servers[packages[i].id] ELSE packages[i].entry
      /\ \A i \in DOMAIN packages' \ DOMAIN packages :
           /\ packages'[i].id \in Admitted(t)
           /\ packages'[i].entry = got.servers[packages'[i].id]
      /\ \A i, j \in DOMAIN packages' : packages'[i].id = packages'[j].id => i = j
  BY ReconciledIs
<1>7. /\ DOMAIN config'.servers = DOMAIN config.servers \cup (updated \cup Admitted(t))
      /\ \A s \in DOMAIN config'.servers :
           config'.servers[s] = IF s \in updated \cup Admitted(t) THEN got.servers[s]
                                ELSE config.servers[s]
  BY <1>5 DEF Override
<1>8. \A i \in Refreshed(got) : /\ i \in DOMAIN packages /\ packages[i].id \in Usable(got)
                                /\ packages[i].id \in updated
  BY DEF Refreshed
<1>9. \A s \in updated : \E i \in Refreshed(got) : s = packages[i].id
  OBVIOUS
<1>10. \A s \in Usable(got) : Valid(got.servers[s])
  BY <1>2, UsableIs
<1> HIDE DEF got, updated, raw
<1>11. ASSUME NEW i \in DOMAIN packages'
       PROVE  /\ packages'[i].id \in DOMAIN config'.servers
              /\ packages'[i].entry = config'.servers[packages'[i].id]
              /\ Valid(packages'[i].entry)
  <2>1. CASE i \in DOMAIN packages /\ i \in Refreshed(got)
    BY <1>6, <1>7, <1>8, <1>10, <2>1
  <2>2. CASE i \in DOMAIN packages /\ i \notin Refreshed(got)
    <3>1. packages[i].id \notin updated
      BY <1>8, <1>9, <2>2 DEF IInv, PackageInv
    <3>2. packages[i].id \notin Admitted(t)
      BY <1>2, <2>2 DEF Ids
    <3>3. packages'[i].id = packages[i].id /\ packages'[i].entry = packages[i].entry
      BY <1>6, <2>2
    <3> QED
      BY <1>7, <2>2, <3>1, <3>2, <3>3 DEF IInv, PackageInv
  <2>3. CASE i \notin DOMAIN packages
    BY <1>2, <1>6, <1>7, <1>10, <2>3
  <2> QED
    BY <2>1, <2>2, <2>3
<1>12. PackageInv'
  BY <1>6, <1>11 DEF PackageInv
<1>13. ASSUME ~terminal, Awaited(t) PROVE EnvOfFiles'
  <2>1. got = Load(disk).got /\ got = Load(disk').got
    BY <1>2, <1>3, <1>13 DEF SameFiles
  <2> SUFFICES ASSUME NEW i \in DOMAIN packages', packages'[i].id \in Usable(got),
                      SameButEnv(packages'[i].entry, got.servers[packages'[i].id])
               PROVE  packages'[i].entry.env = got.servers[packages'[i].id].env
    BY <2>1 DEF EnvOfFiles
  <2>2. CASE i \in DOMAIN packages /\ i \notin Refreshed(got)
    <3>1. packages'[i].id = packages[i].id /\ packages'[i].entry = packages[i].entry
      BY <1>6, <2>2
    <3> QED
      BY <2>2, <3>1 DEF Refreshed
  <2>3. CASE i \in Refreshed(got) \/ i \notin DOMAIN packages
    BY <1>6, <1>8, <2>3
  <2> QED
    BY <2>2, <2>3
<1> QED
  BY <1>2, <1>3, <1>5, <1>6, <1>12, <1>13, LeaveMoves

-----------------------------------------------------------------------------
(* The invariant holds of every state.                                     *)

LEMMA InitIInv ==
  ASSUME Init
  PROVE  IInv
<1> DEFINE got == Load(disk).got
<1>1. IsDisk(disk) /\ DOMAIN disk = File
  BY ConfigurationAssumption DEF Init, IsDisk
<1>2. IsMaps(got)
  BY <1>1, LoadIs
<1>3. packages = AsPackages(got, Usable(got)) /\ config.servers = got.servers
      /\ config = [servers |-> config.servers, homes |-> config.homes]
  BY DEF Init
<1> HIDE DEF got
<1>4. /\ packages \in Seq(Package)
      /\ \A i \in DOMAIN packages :
           packages[i].id \in Usable(got) /\ packages[i].entry = got.servers[packages[i].id]
      /\ \A i, j \in DOMAIN packages : packages[i].id = packages[j].id => i = j
  BY <1>2, <1>3, AsPackagesIs
<1>5. PackageInv
  BY <1>2, <1>3, <1>4, UsableIs DEF PackageInv
<1>6. \A t \in Task : task[t] = IdleTask
  BY DEF Init
<1>7. Shape
  <2>1. edits = 0 /\ DOMAIN task = Task
    BY DEF Init
  <2> QED
    BY <1>1, <1>3, <1>6, <2>1, IdleIsTask DEF Shape
<1>8. queue = <<>> /\ \A t : ~InQueue(t)
  BY DEF Init, InQueue, Range
<1>9. QueueInv
  BY <1>6, <1>8, IdleIsTask DEF QueueInv, Queued, Running, At
<1>10. TaskInv
  BY <1>6, <1>8, IdleIsTask DEF TaskInv, Remembers, Running, At
<1>11. FreshInv
  BY <1>6, <1>8, IdleIsTask DEF FreshInv, Running, At, Task, Loading
<1> QED
  BY <1>5, <1>7, <1>9, <1>10, <1>11 DEF IInv

LEMMA WriteKeeps ==
  ASSUME IInv, NEW f \in File, Write(f)
  PROVE  IInv'
<1>1. UNCHANGED <<packages, config, queue, task, terminal>> /\ edits' = edits + 1
  BY DEF Write, registry
<1>2. PICK c \in Contents[f] : disk' = [disk EXCEPT ![f] = c]
  BY DEF Write
<1>3. Shape'
  BY <1>1, <1>2 DEF IInv, Shape, IsDisk, IsTask
<1>4. QueueInv' /\ PackageInv' /\ TaskInv'
  BY <1>1 DEF IInv, QueueInv, Queued, PackageInv, TaskInv, Remembers, InQueue, Running, At,
              Ids
<1>5. \A u \in Task : task'[u].asOf # edits'
  BY <1>1 DEF IInv, Shape, IsTask
<1>6. FreshInv'
  BY <1>5 DEF FreshInv, Awaited, Task, Loading
<1> QED
  BY <1>3, <1>4, <1>6 DEF IInv

LEMMA QuietKeeps ==
  ASSUME IInv, UNCHANGED <<disk, edits, packages, config, queue, task>>,
         terminal' = terminal \/ terminal' = TRUE
  PROVE  IInv'
<1>1. Shape'
  BY DEF IInv, Shape
<1>2. QueueInv' /\ PackageInv' /\ TaskInv'
  BY DEF IInv, QueueInv, Queued, PackageInv, TaskInv, Remembers, InQueue, Running, At, Ids
<1>3. FreshInv'
  BY DEF IInv, FreshInv, EnvOfFiles, Awaited, Follows, InQueue, Running, At
<1> QED
  BY <1>1, <1>2, <1>3 DEF IInv

LEMMA TaskKeeps ==
  ASSUME IInv, NEW t \in Task, Step(t) \/ Request(t)
  PROVE  IInv'
<1>1. Outside(t) \/ Asks(t) \/ Runs(t) \/ Leaves(t)
  BY ApplyMoves, TimerFiresMoves, RestartMoves, ReadPolicyMoves, PolicyFailsMoves, SetPolicyMoves,
     SpawnMoves, SpawnGoesOnMoves, ReconcileMoves, ReadPackagesMoves, CompareMoves, RehomeMoves,
     RestartedMoves, ReconciledMoves DEF Step, Request
<1> QED
  BY <1>1, OutsideKeeps, AsksKeeps, RunsKeeps, LeavesKeeps

LEMMA NextIInv ==
  ASSUME IInv, [Next]_vars
  PROVE  IInv'
<1>1. CASE Host
  BY <1>1, WriteKeeps DEF Host
<1>2. CASE Watcher
  BY <1>2, QuietKeeps DEF Watcher, ScheduleReload, host, registry
<1>3. CASE StopWatcher
  BY <1>3, QuietKeeps DEF StopWatcher, host, registry
<1>4. CASE CloseRegistry
  BY <1>4, QuietKeeps DEF CloseRegistry, host, registry
<1>5. ASSUME NEW t \in Task, Step(t) \/ Request(t) PROVE IInv'
  BY <1>5, TaskKeeps
<1>6. CASE UNCHANGED vars
  BY <1>6, QuietKeeps DEF vars
<1> QED
  BY <1>1, <1>2, <1>3, <1>4, <1>5, <1>6 DEF Next

THEOREM Invariant == Spec => []IInv
<1>1. Init => IInv
  BY InitIInv
<1>2. IInv /\ [Next]_vars => IInv'
  BY NextIInv
<1> QED
  BY <1>1, <1>2, PTL DEF Spec

(* A package in force is the raw entry of its id, each id has one package, *)
(* and the index a restart found before its awaits is still that of its    *)
(* package, however many reconciliations have run since.                   *)
THEOREM RawEntriesAreKept == Spec => []RawInStep
<1>1. IInv => RawInStep
  BY DEF IInv, PackageInv, TaskInv, Remembers, RawInStep
<1> QED
  BY <1>1, Invariant, PTL

-----------------------------------------------------------------------------
(* What a step may do to a package.                                        *)

LEMMA OnlyEnvChanges ==
  ASSUME NEW e \in Entry, NEW n \in Entry, SameButEnv(e, n)
  PROVE  e.transport = "stdio" /\ n = [e EXCEPT !.env = n.env]
<1>1. /\ e = [transport |-> e.transport, identity |-> e.identity, env |-> e.env]
      /\ n = [transport |-> n.transport, identity |-> n.identity, env |-> n.env]
  BY EntryShape DEF IsEntry
<1>2. PICK x : x = [e EXCEPT !.env = n.env]
  OBVIOUS
<1>3. /\ x = [transport |-> x.transport, identity |-> x.identity, env |-> x.env]
      /\ x.transport = e.transport /\ x.identity = e.identity /\ x.env = n.env
  BY <1>1, <1>2
<1>4. x = n
  BY <1>1, <1>3 DEF SameButEnv
<1> QED
  BY <1>2, <1>4 DEF SameButEnv

IdentityStep ==
  \A i \in DOMAIN packages :
    LET e == packages[i].entry  n == packages'[i].entry IN
    /\ i \in DOMAIN packages' /\ packages'[i].id = packages[i].id
    /\ n # e => e.transport = "stdio" /\ n = [e EXCEPT !.env = n.env]

LEMMA ReconciledKeepsIdentity ==
  ASSUME IInv, NEW t \in Task, Reconciled(t)
  PROVE  IdentityStep
<1> DEFINE got == task[t].got
<1> SUFFICES ASSUME NEW i \in DOMAIN packages
             PROVE  LET e == packages[i].entry  n == packages'[i].entry IN
                    /\ i \in DOMAIN packages' /\ packages'[i].id = packages[i].id
                    /\ n # e => e.transport = "stdio" /\ n = [e EXCEPT !.env = n.env]
  BY DEF IdentityStep
<1>1. /\ i \in DOMAIN packages' /\ packages'[i].id = packages[i].id
      /\ packages'[i].entry = IF i \in Refreshed(got)
                                THEN got.servers[packages[i].id] ELSE packages[i].entry
      /\ packages'[i] \in Package
  BY ReconciledIs
<1>2. packages[i].entry \in Entry /\ packages'[i].entry \in Entry
  <2>1. packages[i] \in Package /\ packages'[i] \in Package
    BY <1>1 DEF IInv, PackageInv
  <2> QED
    BY <2>1 DEF Package
<1>3. CASE i \in Refreshed(got)
  <2>1. SameButEnv(packages[i].entry, packages'[i].entry)
    BY <1>1, <1>3 DEF Refreshed
  <2> QED
    BY <1>1, <1>2, <2>1, OnlyEnvChanges
<1>4. CASE i \notin Refreshed(got)
  BY <1>1, <1>4
<1> QED
  BY <1>3, <1>4

LEMMA SameKeepsIdentity ==
  ASSUME packages' = packages
  PROVE  IdentityStep
BY DEF IdentityStep

LEMMA NextKeepsIdentity ==
  ASSUME IInv, Next
  PROVE  IdentityStep
<1>1. ASSUME NEW t \in Task, Reconciled(t) PROVE IdentityStep
  BY <1>1, ReconciledKeepsIdentity
<1>2. ASSUME NEW t \in Task, Restarted(t) PROVE IdentityStep
  <2>1. packages' = packages
    BY <1>2, RestartKeepsPackages DEF Restarted
  <2> QED
    BY <2>1, SameKeepsIdentity
<1>3. CASE Host \/ Watcher \/ StopWatcher \/ CloseRegistry
  BY <1>3, SameKeepsIdentity
     DEF Host, Write, Watcher, ScheduleReload, StopWatcher, CloseRegistry, registry
<1>4. ASSUME NEW t \in Task, Step(t) \/ Request(t), ~Reconciled(t), ~Restarted(t)
      PROVE  IdentityStep
  <2>1. packages' = packages
    BY <1>4 DEF Step, Request, Apply, Spawn, Restart, TimerFires, ReadPolicy, PolicyFails,
             SetPolicy, Reconcile, ReadPackages, Compare, Rehome, SpawnGoesOn, registry
  <2> QED
    BY <2>1, SameKeepsIdentity
<1> QED
  BY <1>1, <1>2, <1>3, <1>4 DEF Next

(* Whatever the host writes, and in whatever order reloads, applies, spawns*)
(* and restarts run, a package keeps its place and its id, and of its entry*)
(* only the env of a stdio package changes.                                *)
THEOREM PackagesKeepIdentity == Spec => IdentityIsKept
<1>1. IInv /\ [Next]_vars => [IdentityStep]_vars
  BY NextKeepsIdentity
<1> QED
  BY <1>1, Invariant, PTL DEF Spec, IdentityIsKept, IdentityStep

(* A spawn that goes on, with the files as they were when it began, has the*)
(* env they describe: behind older refreshes, rehomings and restarts too.  *)
THEOREM SpawnsAreFresh == Spec => FreshSpawn
<1> DEFINE Fresh ==
      \A t \in Spawning : At(t, "spawning") /\ ~terminal /\ task[t].asOf = edits =>
        LET now == Load(disk)  id == task[t].spawn  e == packages[Index(id)].entry IN
        now.ok /\ id \in Usable(now.got) /\ SameButEnv(e, now.got.servers[id])
          => e.env = now.got.servers[id].env
<1>1. IInv => Fresh
  <2> SUFFICES ASSUME IInv, NEW t \in Spawning,
                      At(t, "spawning"), ~terminal, task[t].asOf = edits, Load(disk).ok
               PROVE  LET now == Load(disk)  id == task[t].spawn
                          e == packages[Index(id)].entry IN
                      id \in Usable(now.got) /\ SameButEnv(e, now.got.servers[id])
                        => e.env = now.got.servers[id].env
    BY Zenon
  <2>1. EnvOfFiles
    BY DEF IInv, FreshInv
  <2>2. task[t].spawn \in Ids(packages)
    BY DEF IInv, TaskInv, Remembers, Task, Loading
  <2>3. Index(task[t].spawn) \in DOMAIN packages
        /\ packages[Index(task[t].spawn)].id = task[t].spawn
    BY <2>2, IndexIs DEF IInv
  <2> QED
    BY <2>1, <2>3 DEF EnvOfFiles
<1> HIDE DEF Fresh
<1>2. IInv /\ [Next]_vars => [Fresh]_vars
  BY <1>1
<1>3. Spec => [][Fresh]_vars
  BY <1>2, Invariant, PTL DEF Spec
<1> QED
  BY <1>3 DEF FreshSpawn, Fresh

=============================================================================
