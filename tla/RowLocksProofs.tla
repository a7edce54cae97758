--------------------------- MODULE RowLocksProofs ---------------------------
(***************************************************************************)
(* The row locks, for any number of leads, of feeds under way and of       *)
(* requests served at once.                                                *)
(*                                                                         *)
(* The invariant says where each transaction is in its list of locks, that *)
(* no two hold conflicting ones, that a feed holds its scope's lock while  *)
(* it holds any, and what the statuses of the jobs are while somebody      *)
(* relies on them: a job a feed has locked stays queued, the job a worker  *)
(* finishes stays running, and a page asks explicitly for delivery jobs    *)
(* that are no longer queued.                                              *)
(*                                                                         *)
(* From it: whoever holds an email by an explicit lock waits for nothing,  *)
(* so in a cycle nobody waits for an email, and the requests and the       *)
(* delivery worker in it hold nothing.  A cycle is minimal, so it has      *)
(* neither.  Among explicit locks the page asks for no job that a feed can *)
(* hold, nor a feed for the job of a finishing worker: what is left are    *)
(* feeds that hold something, each its own scope.                          *)
(***************************************************************************)
EXTENDS RowLocks, FiniteSetTheorems, WellFoundedInduction, TLAPS

-----------------------------------------------------------------------------
(* Sequences.                                                              *)

LEMMA Least ==
    ASSUME NEW T \in SUBSET Nat, T # {}
    PROVE  \E x \in T : \A y \in T : x <= y
<1>1. PICK x \in T : \A y \in T : ~ (<<y, x>> \in OpToRel(<, Nat))
    BY NatLessThanWellFounded, WFMin
<1>2. \A y \in T : ~ (y < x)
    BY <1>1 DEF OpToRel
<1>3. QED
    BY <1>2

Flattens(ss, m, f) == f = [i \in 1..m |-> IF i = 1 THEN ss[i] ELSE f[i-1] \o ss[i]]

LEMMA FlattenedExists ==
    ASSUME NEW ss, NEW n \in Nat PROVE \E f : Flattens(ss, n, f)
<1> DEFINE Bad == {m \in 0..n : ~\E f : Flattens(ss, m, f)}
<1> SUFFICES ASSUME n \in Bad PROVE FALSE
    OBVIOUS
<1>1. PICK m \in Bad : \A k \in Bad : m <= k
    BY Least, Bad \in SUBSET Nat
<1>2. m # 0
    <2>1. Flattens(ss, 0, [i \in 1..0 |-> 0])
        BY DEF Flattens
    <2>2. QED
        BY <1>1, <2>1
<1>3. m - 1 \in 0..n /\ m - 1 \notin Bad
    BY <1>1, <1>2
<1>4. PICK f : Flattens(ss, m - 1, f)
    BY <1>3
<1> DEFINE g == [i \in 1..m |-> IF i = 1 THEN ss[i] ELSE f[i-1] \o ss[i]]
<1>5. ASSUME NEW i \in 1..(m-1) PROVE g[i] = f[i]
    <2>1. i \in 1..m
        BY <1>1
    <2>2. f[i] = IF i = 1 THEN ss[i] ELSE f[i-1] \o ss[i]
        BY <1>4 DEF Flattens
    <2>3. QED
        BY <2>1, <2>2
<1>6. \A i \in 1..m : i # 1 => g[i-1] = f[i-1]
    <2>1. \A i \in 1..m : i # 1 => i - 1 \in 1..(m-1)
        BY <1>1
    <2>2. QED
        BY <1>5, <2>1
<1>7. Flattens(ss, m, g)
    BY <1>6 DEF Flattens
<1>8. QED
    BY <1>1, <1>7

LEMMA FlattenedSeq == ASSUME NEW S, NEW ss \in Seq(Seq(S)) PROVE FlattenSeq(ss) \in Seq(S)
<1> DEFINE n == Len(ss)
           flat == CHOOSE f : f = [i \in 1..n |-> IF i = 1 THEN ss[i] ELSE f[i-1] \o ss[i]]
<1>1. FlattenSeq(ss) = IF n = 0 THEN ss ELSE flat[n]
    BY DEF FlattenSeq
<1>2. flat = [i \in 1..n |-> IF i = 1 THEN ss[i] ELSE flat[i-1] \o ss[i]]
    <2>1. \E f : f = [i \in 1..n |-> IF i = 1 THEN ss[i] ELSE f[i-1] \o ss[i]]
        <3>1. n \in Nat
            OBVIOUS
        <3>2. \E f : Flattens(ss, n, f)
            BY <3>1, FlattenedExists
        <3>3. QED
            BY <3>2 DEF Flattens
    <2>2. QED
        BY <2>1
<1> HIDE DEF flat
<1>3. CASE n = 0
    BY <1>1, <1>3
<1>4. CASE n # 0
    <2> DEFINE Bad == {i \in 1..n : flat[i] \notin Seq(S)}
    <2> SUFFICES ASSUME Bad # {} PROVE FALSE
        BY <1>1, <1>4
    <2>1. PICK i \in Bad : \A k \in Bad : i <= k
        BY Least, Bad \in SUBSET Nat
    <2>2. ss[i] \in Seq(S)
        BY <2>1
    <2>3. i # 1
        BY <1>2, <2>1, <2>2
    <2>4. i - 1 \in 1..n /\ i - 1 \notin Bad
        BY <2>1, <2>3
    <2>5. flat[i] = flat[i-1] \o ss[i]
        BY <1>2, <2>1, <2>3
    <2>6. flat[i-1] \in Seq(S)
        BY <2>4
    <2>7. flat[i] \in Seq(S)
        BY <2>2, <2>5, <2>6
    <2>8. QED
        BY <2>1, <2>7
<1>5. QED
    BY <1>3, <1>4

-----------------------------------------------------------------------------
(* The invariant: what each process holds and still has to take.           *)

Locks == [row : Rows, mode : Modes]
Kinds == {"idle", "feed", "claim", "finish", "send", "generate", "edit", "page"}

TypeInv ==
    /\ gen \in [Lead -> JobStatus]
    /\ del \in [Lead -> JobStatus]
    /\ task \in [Procs -> [kind : Kinds, leads : SUBSET Lead]]
    /\ todo \in [Procs -> Seq(Locks)]
    /\ held \in [Procs -> SUBSET Locks]
    /\ \A p \in Procs : task[p] = NoTask => todo[p] = <<>> /\ held[p] = {}

\* No two transactions hold conflicting locks.
ExclusiveInv ==
    \A p, q \in Procs : p # q =>
        \A h \in held[p], k \in held[q] : h.row = k.row => ~Conflict(h.mode, k.mode)

\* A feed holds its scope's lock before any other and to the end, and the
\* lead before the lead's jobs.  A queued job it holds stays queued.
LeadLock(l) == Lock("lead", l, "U")
FeedLock(f, k) == k.mode = "U" /\ (k.row.table \in {"lead", "gen", "del"} \/ k = ScopeLock(f))
OfJob(k) == k.row.table \in {"gen", "del"}
StillQueued(k) ==
    /\ k.row.table = "gen" => gen[k.row.key] = "queued"
    /\ k.row.table = "del" => del[k.row.key] = "queued"
Before(f, k, j) == k \in held[f] \/ \E i \in DOMAIN todo[f] : i < j /\ todo[f][i] = k
FeedPlace(f) ==
    /\ task[f] = NoTask \/ task[f].kind = "feed"
    /\ \A i \in DOMAIN todo[f] :
          FeedLock(f, todo[f][i]) /\ (OfJob(todo[f][i]) => Before(f, LeadLock(todo[f][i].row.key), i))
    /\ \A h \in held[f] :
          FeedLock(f, h) /\ StillQueued(h) /\ (OfJob(h) => LeadLock(h.row.key) \in held[f])
    /\ \A l \in task[f].leads : Before(f, LeadLock(l), Len(todo[f]) + 1)
    /\ held[f] # {} => ScopeLock(f) \in held[f]
    /\ held[f] = {} /\ todo[f] # <<>> => todo[f][1] = ScopeLock(f)
FeedInv == \A f \in Ingestions : FeedPlace(f)

\* A worker, or a request, is at one of the places of a short list of locks.
At(p, locks) ==
    \/ todo[p] = locks /\ held[p] = {}
    \/ /\ Len(locks) = 2 /\ todo[p] = <<locks[2]>> /\ held[p] = {locks[1]}
    \/ todo[p] = <<>> /\ held[p] = {locks[i] : i \in DOMAIN locks}

GenFinish(l) == <<Lock("gen", l, "U"), Lock("lead", l, "U")>>
GenInv ==
    "generation" \in Procs =>
        \/ task["generation"] = NoTask
        \/ \E l \in Lead :
              /\ task["generation"].kind = "claim" /\ task["generation"].leads = {l}
              /\ Lock("gen", l, "U") \in held["generation"]
              /\ held["generation"] \subseteq {Lock("gen", l, "U"), Lock("lead", l, "KS")}
              /\ todo["generation"] \in {<<>>, <<Lock("lead", l, "KS")>>}
        \/ \E l \in Lead :
              /\ task["generation"].kind = "finish" /\ task["generation"].leads = {l}
              /\ gen[l] = "running" /\ At("generation", GenFinish(l))

DelFinish(l) == <<Lock("del", l, "U"), Lock("email", l, "U")>>
DelInv ==
    "delivery" \in Procs =>
        \/ task["delivery"] = NoTask
        \/ \E l \in Lead :
              /\ task["delivery"].kind = "claim" /\ task["delivery"].leads = {l}
              /\ At("delivery", <<Lock("del", l, "U")>>)
        \/ \E l \in Lead :
              /\ task["delivery"].kind = "finish" /\ task["delivery"].leads = {l}
              /\ del[l] = "running" /\ At("delivery", DelFinish(l))

RequestPlace(r) ==
    \/ task[r] = NoTask
    \/ /\ task[r].kind \in {"send", "generate", "edit"}
       /\ \E l \in Lead : At(r, <<Lock("lead", l, "U")>>) \/ At(r, LeadThenEmail(l))
RequestInv == \A r \in Requests : RequestPlace(r)

\* A page of replies asks explicitly for delivery jobs only, of sent emails.
PageLock(k) ==
    /\ k.row.table \in {"lead", "email", "del"}
    /\ \/ k.mode = "KS"
       \/ /\ k.mode = "NK" /\ k.row.table = "del"
          /\ del[k.row.key] \in {"running", "done"}
PageInv ==
    "replies" \in Procs =>
        /\ task["replies"] = NoTask \/ task["replies"].kind = "page"
        /\ \A i \in DOMAIN todo["replies"] : PageLock(todo["replies"][i])
        /\ \A h \in held["replies"] : PageLock(h)

Inv ==
    /\ TypeInv /\ ExclusiveInv /\ FeedInv /\ GenInv /\ DelInv /\ RequestInv /\ PageInv

-----------------------------------------------------------------------------
(* Locks and conflicts.                                                    *)

Tables == {"lead", "gen", "email", "del"}

LEMMA LockFacts ==
    ASSUME NEW t \in Tables, NEW l \in Lead, NEW m \in Modes
    PROVE  /\ Lock(t, l, m) \in Locks
           /\ Lock(t, l, m).row = Row(t, l) /\ Lock(t, l, m).mode = m
           /\ Row(t, l).table = t /\ Row(t, l).key = l
BY DEF Tables, Lock, Row, Rows, Locks, Modes

LEMMA ScopeLockFacts ==
    ASSUME NEW f \in Ingestions
    PROVE  /\ ScopeLock(f) \in Locks
           /\ ScopeLock(f).row = Row("scope", ScopeOf[f]) /\ ScopeLock(f).mode = "U"
           /\ ScopeLock(f).row.table = "scope"
BY DEF ScopeLock, Lock, Row, Rows, Locks, Modes

LEMMA LockShape ==
    ASSUME NEW k \in Locks, k.row.table \in Tables
    PROVE  /\ k.row.key \in Lead /\ k.mode \in Modes
           /\ k.row = Row(k.row.table, k.row.key)
<1>1. k.row \in Rows /\ k.mode \in Modes
    BY DEF Locks
<1>2. CASE \E t \in Tables, l \in Lead : k.row = Row(t, l)
    BY <1>1, <1>2 DEF Row
<1>3. CASE \E f \in Ingestions : k.row = Row("scope", ScopeOf[f])
    BY <1>3 DEF Row, Tables
<1>4. QED
    BY <1>1, <1>2, <1>3 DEF Rows, Tables

LEMMA ConflictSymmetric ==
    ASSUME NEW m, NEW n PROVE Conflict(m, n) <=> Conflict(n, m)
BY DEF Conflict

LEMMA ExclusiveLocks ==
    ASSUME ExclusiveInv, NEW p \in Procs, NEW q \in Procs, p # q,
           NEW h \in held[p], NEW k \in held[q], h.row = k.row
    PROVE  ~Conflict(h.mode, k.mode)
BY DEF ExclusiveInv

LEMMA Distinct ==
    ASSUME ProcessesAndBounds
    PROVE  /\ \A r \in Requests : r \notin Roles /\ r \notin Ingestions
           /\ \A f \in Ingestions : f \notin Roles
           /\ Background \subseteq Roles
           /\ \A p \in Procs : p \in Roles \/ p \in Ingestions \/ p \in Requests
BY DEF ProcessesAndBounds, Procs

-----------------------------------------------------------------------------
(* Initial states.                                                         *)

LEMMA Initially == ASSUME LocksInit PROVE Inv
<1>1. TypeInv
    <2>1. NoTask \in [kind : Kinds, leads : SUBSET Lead]
        BY DEF NoTask, Kinds
    <2>2. gen \in [Lead -> JobStatus] /\ del \in [Lead -> JobStatus]
        BY DEF LocksInit, JobStatus
    <2>3. task \in [Procs -> [kind : Kinds, leads : SUBSET Lead]]
        BY <2>1 DEF LocksInit
    <2>4. todo \in [Procs -> Seq(Locks)] /\ held \in [Procs -> SUBSET Locks]
        BY DEF LocksInit
    <2>5. QED
        BY <2>2, <2>3, <2>4 DEF TypeInv, LocksInit
<1>2. \A p \in Procs : task[p] = NoTask /\ todo[p] = <<>> /\ held[p] = {}
    BY DEF LocksInit
<1>3. ExclusiveInv
    BY <1>2 DEF ExclusiveInv
<1>4. FeedInv
    BY <1>2 DEF FeedInv, FeedPlace, Procs, NoTask
<1>5. GenInv /\ DelInv /\ RequestInv
    BY <1>2 DEF GenInv, DelInv, RequestInv, RequestPlace, Procs
<1>6. PageInv
    BY <1>2 DEF PageInv
<1>7. QED
    BY <1>1, <1>3, <1>4, <1>5, <1>6 DEF Inv

-----------------------------------------------------------------------------
(* What begins a transaction.                                              *)

LEMMA Begins ==
    ASSUME TypeInv, ExclusiveInv, NEW p \in Procs, NEW kind \in Kinds, kind # "idle",
           NEW leads \in SUBSET Lead, NEW locks \in Seq(Locks),
           Begin(p, kind, leads, locks)
    PROVE  /\ TypeInv' /\ ExclusiveInv'
           /\ held[p] = {} /\ held' = held
           /\ task'[p] = [kind |-> kind, leads |-> leads] /\ todo'[p] = locks
           /\ \A q \in Procs : q # p => task'[q] = task[q] /\ todo'[q] = todo[q]
<1>1. /\ held' = held /\ gen' = gen /\ del' = del
      /\ task[p] = NoTask
      /\ task' = [task EXCEPT ![p] = [kind |-> kind, leads |-> leads]]
      /\ todo' = [todo EXCEPT ![p] = locks]
    BY DEF Begin
<1>2. PICK t \in [kind : Kinds, leads : SUBSET Lead] :
        t = [kind |-> kind, leads |-> leads] /\ t # NoTask
    <2> DEFINE t == [kind |-> kind, leads |-> leads]
    <2>1. t \in [kind : Kinds, leads : SUBSET Lead]
        OBVIOUS
    <2>2. t.kind = kind /\ NoTask.kind = "idle"
        BY DEF NoTask
    <2>3. QED
        BY <2>1, <2>2
<1>3. task' = [task EXCEPT ![p] = t] /\ t # NoTask
    BY <1>1, <1>2
<1>4. /\ task' \in [Procs -> [kind : Kinds, leads : SUBSET Lead]]
      /\ todo' \in [Procs -> Seq(Locks)]
      /\ task'[p] = t /\ todo'[p] = locks
      /\ \A q \in Procs : q # p => task'[q] = task[q] /\ todo'[q] = todo[q]
    BY <1>1, <1>3 DEF TypeInv
<1>5. TypeInv'
    BY <1>1, <1>3, <1>4 DEF TypeInv
<1>6. ExclusiveInv'
    BY <1>1 DEF ExclusiveInv
<1>7. QED
    BY <1>1, <1>2, <1>4, <1>5, <1>6 DEF TypeInv

\* What no step of p can disturb while the jobs stay what they are.
LEMMA Untouched ==
    ASSUME Inv, NEW p \in Procs, gen' = gen, del' = del,
           \A q \in Procs : q # p => task'[q] = task[q] /\ todo'[q] = todo[q]
                                     /\ held'[q] = held[q]
    PROVE  /\ \A f \in Ingestions : f # p => FeedPlace(f)'
           /\ p # "generation" => GenInv'
           /\ p # "delivery" => DelInv'
           /\ p # "replies" => PageInv'
           /\ \A r \in Requests : r # p => RequestPlace(r)'
<1>1. \A f \in Ingestions : f # p => FeedPlace(f)'
    <2>1. SUFFICES ASSUME NEW f \in Ingestions, f # p PROVE FeedPlace(f)'
        OBVIOUS
    <2>2. task'[f] = task[f] /\ todo'[f] = todo[f] /\ held'[f] = held[f]
        BY <2>1 DEF Procs
    <2>3. QED
        BY <2>2 DEF Inv, FeedInv, FeedPlace, StillQueued, Before
<1>2. p # "generation" => GenInv'
    BY DEF Inv, GenInv, At
<1>3. p # "delivery" => DelInv'
    BY DEF Inv, DelInv, At
<1>4. p # "replies" => PageInv'
    <2>1. CASE p # "replies" /\ "replies" \in Procs
        <3>1. task'["replies"] = task["replies"] /\ todo'["replies"] = todo["replies"]
              /\ held'["replies"] = held["replies"]
            BY <2>1
        <3>2. PageInv'
            BY <3>1, <2>1 DEF Inv, PageInv, PageLock
        <3>4. QED
            BY <3>2
    <2>2. QED
        BY <2>1 DEF PageInv
<1>5. \A r \in Requests : r # p => RequestPlace(r)'
    BY DEF Inv, RequestInv, RequestPlace, At, Procs
<1>6. QED
    BY <1>1, <1>2, <1>3, <1>4, <1>5

LEMMA SetSequences ==
    ASSUME NEW S, IsFiniteSet(S), NEW s \in SetToSeqs(S)
    PROVE  /\ s \in Seq(S) /\ DOMAIN s = 1..Cardinality(S) /\ Cardinality(S) \in Nat
           /\ \A x \in S : \E i \in DOMAIN s : s[i] = x
<1> DEFINE D == 1..Cardinality(S)
<1>1. Cardinality(S) \in Nat /\ IsFiniteSet(D) /\ Cardinality(D) = Cardinality(S)
    BY FS_CardinalityType, FS_Interval
<1>2. s \in [D -> S] /\ \A i, j \in D : i # j => s[i] # s[j]
    BY DEF SetToSeqs
<1>3. s \in Injection(D, S)
    BY <1>2 DEF Injection, IsInjective
<1>4. s \in Surjection(D, S)
    <2> HIDE DEF D
    <2>1. QED
        BY <1>1, <1>3, FS_Injection
<1>5. QED
    BY <1>1, <1>2, <1>4 DEF Surjection

LEMMA FeedList ==
    ASSUME ProcessesAndBounds, NEW f \in Ingestions, NEW named \in SUBSET Lead,
           NEW dismissed \in SUBSET named,
           NEW order \in SetToSeqs(named), NEW later \in SetToSeqs(dismissed),
           NEW locks, locks = FeedLocks(f, order, later)
    PROVE  /\ locks \in Seq(Locks) /\ locks[1] = ScopeLock(f)
           /\ \A i \in DOMAIN locks : FeedLock(f, locks[i])
           /\ \A l \in dismissed : \E i \in DOMAIN locks : locks[i] = LeadLock(l)
           /\ \A j \in DOMAIN locks : OfJob(locks[j]) =>
                 \E i \in DOMAIN locks : i < j /\ locks[i] = LeadLock(locks[j].row.key)
<1> DEFINE Leads == {k \in Locks : k.mode = "U" /\ k.row.table = "lead"}
           Jobs == {k \in Locks : k.mode = "U" /\ OfJob(k) /\ k.row.key \in dismissed}
           first == [i \in DOMAIN order |-> LeadLock(order[i])]
           jobs == [i \in DOMAIN later |-> QueuedJobsOf(later[i])]
<1>1. IsFiniteSet(named) /\ IsFiniteSet(dismissed)
    BY FS_Subset DEF ProcessesAndBounds
<1>2. /\ order \in Seq(named) /\ DOMAIN order = 1..Cardinality(named)
      /\ Cardinality(named) \in Nat
      /\ \A l \in named : \E i \in DOMAIN order : order[i] = l
    BY <1>1, SetSequences
<1>3. /\ later \in Seq(dismissed) /\ DOMAIN later = 1..Cardinality(dismissed)
      /\ Cardinality(dismissed) \in Nat
    BY <1>1, SetSequences
<1>4. first \in Seq(Leads)
    <2>1. \A i \in DOMAIN order : LeadLock(order[i]) \in Leads
        BY <1>2, LockFacts DEF Tables, Modes, LeadLock
    <2>2. QED
        BY <1>2, <2>1
<1>5. jobs \in Seq(Seq(Jobs))
    <2>1. ASSUME NEW l \in dismissed PROVE QueuedJobsOf(l) \in Seq(Jobs)
        <3>1. Lock("gen", l, "U") \in Jobs /\ Lock("del", l, "U") \in Jobs
            BY LockFacts DEF Tables, Modes, OfJob
        <3>2. QED
            BY <3>1 DEF QueuedJobsOf
    <2>2. \A i \in DOMAIN later : QueuedJobsOf(later[i]) \in Seq(Jobs)
        BY <1>3, <2>1
    <2>3. QED
        BY <1>3, <2>2
<1>6. FlattenSeq(jobs) \in Seq(Jobs)
    BY <1>5, FlattenedSeq
<1> DEFINE rest == FlattenSeq(jobs)
<1>7. locks = <<ScopeLock(f)>> \o (first \o rest)
    BY DEF FeedLocks, LeadsAndJobs, LeadLock
<1>8. \A l \in named : \E i \in DOMAIN first : first[i] = LeadLock(l)
    BY <1>2
<1>9. ScopeLock(f) \in Locks /\ FeedLock(f, ScopeLock(f)) /\ ~OfJob(ScopeLock(f))
    BY ScopeLockFacts DEF FeedLock, OfJob
<1>10. /\ \A k \in Leads : k \in Locks /\ FeedLock(f, k) /\ ~OfJob(k)
       /\ \A k \in Jobs : k \in Locks /\ FeedLock(f, k) /\ k.row.key \in dismissed
    BY DEF FeedLock, OfJob
<1> HIDE DEF first, jobs, rest, Leads, Jobs
<1>11. first \in Seq(Leads) /\ rest \in Seq(Jobs)
    BY <1>4, <1>6 DEF rest
<1>12. Len(first) \in Nat /\ Len(rest) \in Nat /\ DOMAIN first = 1..Len(first)
    BY <1>11
<1>13. first \in Seq(Locks) /\ rest \in Seq(Locks)
    BY <1>10, <1>11
<1>14. /\ locks \in Seq(Locks) /\ locks[1] = ScopeLock(f)
       /\ DOMAIN locks = 1..(1 + Len(first) + Len(rest))
       /\ \A i \in 1..Len(first) : i + 1 \in DOMAIN locks /\ locks[i + 1] = first[i]
       /\ \A i \in DOMAIN locks :
             i > 1 + Len(first) => /\ locks[i] = rest[i - 1 - Len(first)]
                                   /\ i - 1 - Len(first) \in DOMAIN rest
    BY <1>7, <1>9, <1>13
<1>15. ASSUME NEW j \in DOMAIN locks
       PROVE  /\ FeedLock(f, locks[j])
              /\ OfJob(locks[j]) => j > 1 + Len(first) /\ locks[j].row.key \in dismissed
    <2>1. CASE j = 1
        BY <1>9, <1>14, <2>1
    <2>2. CASE j \in 2..(1 + Len(first))
        <3>1. j - 1 \in 1..Len(first) /\ (j - 1) + 1 = j
            BY <1>12, <2>2
        <3>2. locks[j] \in Leads
            BY <1>11, <1>14, <3>1
        <3>3. QED
            BY <1>10, <3>2
    <2>3. CASE j > 1 + Len(first)
        <3>1. locks[j] \in Jobs
            BY <1>11, <1>14, <2>3
        <3>2. QED
            BY <1>10, <2>3, <3>1
    <2>4. QED
        BY <1>12, <1>14, <2>1, <2>2, <2>3
<1>16. ASSUME NEW l \in dismissed
       PROVE  \E i \in DOMAIN locks : i <= 1 + Len(first) /\ locks[i] = LeadLock(l)
    <2>1. PICK i \in 1..Len(first) : first[i] = LeadLock(l)
        BY <1>8, <1>12
    <2>2. i + 1 \in DOMAIN locks /\ i + 1 <= 1 + Len(first) /\ locks[i + 1] = LeadLock(l)
        BY <1>12, <1>14, <2>1
    <2>3. QED
        BY <2>2
<1>17. ASSUME NEW j \in DOMAIN locks, OfJob(locks[j])
       PROVE  \E i \in DOMAIN locks : i < j /\ locks[i] = LeadLock(locks[j].row.key)
    <2>1. j > 1 + Len(first) /\ locks[j].row.key \in dismissed /\ j \in Nat
        BY <1>12, <1>14, <1>15, <1>17
    <2>2. PICK i \in DOMAIN locks :
            i <= 1 + Len(first) /\ locks[i] = LeadLock(locks[j].row.key)
        BY <1>16, <2>1
    <2>3. i < j
        BY <1>12, <1>14, <2>1, <2>2
    <2>4. QED
        BY <2>2, <2>3
<1>18. QED
    BY <1>14, <1>15, <1>16, <1>17

LEMMA FeedStep ==
    ASSUME ProcessesAndBounds, Inv, NEW f \in Ingestions, Feed(f) PROVE Inv'
<1>1. PICK named \in SUBSET Lead : \E dismissed \in SUBSET named :
        \E order \in SetToSeqs(named), later \in SetToSeqs(dismissed) :
            Begin(f, "feed", dismissed, FeedLocks(f, order, later))
    BY DEF Feed
<1>2. PICK dismissed \in SUBSET named :
        \E order \in SetToSeqs(named), later \in SetToSeqs(dismissed) :
            Begin(f, "feed", dismissed, FeedLocks(f, order, later))
    BY <1>1
<1>3. PICK order \in SetToSeqs(named), later \in SetToSeqs(dismissed) :
        Begin(f, "feed", dismissed, FeedLocks(f, order, later))
    BY <1>2
<1> DEFINE locks == FeedLocks(f, order, later)
<1>4. /\ locks \in Seq(Locks) /\ locks[1] = ScopeLock(f)
      /\ \A i \in DOMAIN locks : FeedLock(f, locks[i])
      /\ \A l \in dismissed : \E i \in DOMAIN locks : locks[i] = LeadLock(l)
      /\ \A j \in DOMAIN locks : OfJob(locks[j]) =>
            \E i \in DOMAIN locks : i < j /\ locks[i] = LeadLock(locks[j].row.key)
    BY FeedList
<1>5. Begin(f, "feed", dismissed, locks)
    BY <1>3
<1> HIDE DEF locks
<1>6. f \in Procs /\ "feed" \in Kinds /\ dismissed \in SUBSET Lead
    BY DEF Procs, Kinds
<1>7. /\ TypeInv' /\ ExclusiveInv'
      /\ held[f] = {} /\ held' = held
      /\ task'[f] = [kind |-> "feed", leads |-> dismissed] /\ todo'[f] = locks
      /\ \A q \in Procs : q # f => task'[q] = task[q] /\ todo'[q] = todo[q]
    BY <1>4, <1>5, <1>6, Begins DEF Inv
<1>8. gen' = gen /\ del' = del
    BY <1>5 DEF Begin
<1>9. FeedPlace(f)'
    <2>1. \A l \in dismissed : \E i \in DOMAIN locks : i < Len(locks) + 1 /\ locks[i] = LeadLock(l)
        BY <1>4
    <2>2. QED
        BY <1>4, <1>7, <2>1 DEF FeedPlace, Before
<1>10. /\ GenInv' /\ DelInv' /\ PageInv' /\ RequestInv'
       /\ \A g \in Ingestions : g # f => FeedPlace(g)'
    BY <1>6, <1>7, <1>8, Untouched, Distinct DEF RequestInv, Roles
<1>11. QED
    BY <1>7, <1>9, <1>10 DEF Inv, FeedInv

LEMMA PageStep ==
    ASSUME ProcessesAndBounds, Inv, Page PROVE Inv'
<1> DEFINE PageLocks == {k \in Locks : PageLock(k)}
<1>1. "replies" \in Procs
    BY DEF Page, Procs
<1>2. PICK n \in 1..MaxMessages : \E messages \in [1..n -> MessageLocks] :
        Begin("replies", "page", LeadsOf(FlattenSeq(messages)), FlattenSeq(messages))
    BY DEF Page
<1>3. PICK messages \in [1..n -> MessageLocks] :
        Begin("replies", "page", LeadsOf(FlattenSeq(messages)), FlattenSeq(messages))
    BY <1>2
<1>4. \A s \in MessageLocks : s \in Seq(PageLocks)
    <2>1. SUFFICES ASSUME NEW l \in Lead, Observed(l),
                          NEW s \in ReplyLocks(l) \cup SentLocks(l)
                   PROVE  s \in Seq(PageLocks)
        BY DEF MessageLocks
    <2>2. /\ Lock("lead", l, "KS") \in PageLocks /\ Lock("email", l, "KS") \in PageLocks
          /\ Lock("del", l, "KS") \in PageLocks /\ Lock("del", l, "NK") \in PageLocks
        BY <2>1, LockFacts DEF Tables, Modes, PageLock, Observed
    <2>3. \A t \in ReplyLocks(l) : t \in Seq(PageLocks)
        <3> HIDE DEF PageLocks
        <3>1. <<Lock("lead", l, "KS"), Lock("email", l, "KS"), Lock("del", l, "KS")>>
                \in Seq(PageLocks)
            BY <2>2
        <3>2. <<Lock("email", l, "KS"), Lock("del", l, "KS")>> \in Seq(PageLocks)
            BY <2>2
        <3>3. QED
            BY <3>1, <3>2 DEF ReplyLocks
    <2>4. <<Lock("del", l, "NK")>> \in Seq(PageLocks)
        BY <2>2
    <2>5. \A t \in ReplyLocks(l) : <<Lock("del", l, "NK")>> \o t \in Seq(PageLocks)
        BY <2>3, <2>4
    <2>6. QED
        BY <2>1, <2>3, <2>4, <2>5 DEF SentLocks
<1>5. messages \in Seq(Seq(PageLocks))
    <2>1. n \in Nat
        BY DEF ProcessesAndBounds
    <2>2. QED
        BY <2>1, <1>4
<1> DEFINE locks == FlattenSeq(messages)
<1>6. locks \in Seq(PageLocks)
    BY <1>5, FlattenedSeq
<1>7. Begin("replies", "page", LeadsOf(locks), locks)
    BY <1>3
<1> HIDE DEF locks
<1>8. locks \in Seq(Locks) /\ \A i \in DOMAIN locks : PageLock(locks[i])
    BY <1>6
<1>9. LeadsOf(locks) \in SUBSET Lead
    <2>1. \A i \in DOMAIN locks : locks[i].row.key \in Lead
        <3>1. \A i \in DOMAIN locks : locks[i] \in Locks /\ locks[i].row.table \in Tables
            BY <1>8 DEF PageLock, Tables
        <3>2. QED
            BY <3>1, LockShape
    <2>2. QED
        BY <2>1 DEF LeadsOf
<1>10. "page" \in Kinds
    BY DEF Kinds
<1>11. /\ TypeInv' /\ ExclusiveInv'
       /\ held["replies"] = {} /\ held' = held
       /\ task'["replies"] = [kind |-> "page", leads |-> LeadsOf(locks)]
       /\ todo'["replies"] = locks
       /\ \A q \in Procs : q # "replies" => task'[q] = task[q] /\ todo'[q] = todo[q]
    BY <1>1, <1>7, <1>8, <1>9, <1>10, Begins DEF Inv
<1>12. gen' = gen /\ del' = del
    BY <1>7 DEF Begin
<1>13. PageInv'
    BY <1>8, <1>11, <1>12 DEF PageInv, PageLock
<1>14. FeedInv' /\ GenInv' /\ DelInv' /\ RequestInv'
    BY <1>1, <1>11, <1>12, Untouched, Distinct DEF FeedInv, RequestInv, Roles
<1>15. QED
    BY <1>11, <1>13, <1>14 DEF Inv

-----------------------------------------------------------------------------
(* Roles and requests begin.                                             *)

LEMMA ClaimGenerationStep ==
    ASSUME ProcessesAndBounds, Inv, NEW l \in Lead, ClaimGeneration(l) PROVE Inv'
<1> DEFINE g == "generation"
           t == [kind |-> "claim", leads |-> {l}]
           k == Lock("gen", l, "U")
           s == <<Lock("lead", l, "KS")>>
<1>1. g \in Procs
    BY DEF ClaimGeneration, Procs
<1>2. /\ task[g] = NoTask /\ gen[l] = "queued"
      /\ Holders(g, k) = {}
      /\ task' = [task EXCEPT ![g] = t]
      /\ held' = [held EXCEPT ![g] = {k}]
      /\ todo' = [todo EXCEPT ![g] = s]
      /\ gen' = gen /\ del' = del
    BY DEF ClaimGeneration
<1>3. k \in Locks /\ Lock("lead", l, "KS") \in Locks /\ s \in Seq(Locks)
    BY LockFacts DEF Tables, Modes
<1>4. t \in [kind : Kinds, leads : SUBSET Lead] /\ t.kind = "claim" /\ NoTask.kind = "idle"
    BY DEF Kinds, NoTask
<1>5. /\ task' \in [Procs -> [kind : Kinds, leads : SUBSET Lead]]
      /\ todo' \in [Procs -> Seq(Locks)]
      /\ held' \in [Procs -> SUBSET Locks]
      /\ task'[g] = t /\ todo'[g] = s /\ held'[g] = {k}
      /\ \A q \in Procs : q # g => task'[q] = task[q] /\ todo'[q] = todo[q] /\ held'[q] = held[q]
    <2> HIDE DEF g, t, k, s
    <2>1. QED
        BY <1>1, <1>2, <1>3, <1>4 DEF Inv, TypeInv
<1>6. TypeInv'
    <2>1. t # NoTask
        BY <1>4
    <2> HIDE DEF g, t, k, s
    <2>2. QED
        BY <1>2, <1>5, <2>1 DEF Inv, TypeInv
<1>7. ExclusiveInv'
    <2>1. \A q \in Procs : q # g => \A h \in held[q] : h.row = k.row => ~Conflict(h.mode, k.mode)
        BY <1>2 DEF Holders
    <2> HIDE DEF g, t, k, s
    <2>2. QED
        BY <1>5, <2>1, ConflictSymmetric DEF Inv, ExclusiveInv
<1>8. GenInv'
    BY <1>5 DEF GenInv
<1>9. FeedInv' /\ PageInv' /\ DelInv' /\ RequestInv'
    BY <1>1, <1>2, <1>5, Untouched, Distinct DEF FeedInv, RequestInv, Roles
<1>10. QED
    BY <1>6, <1>7, <1>8, <1>9 DEF Inv

LEMMA ShortLists ==
    ASSUME NEW l \in Lead
    PROVE  /\ GenFinish(l) \in Seq(Locks) /\ DelFinish(l) \in Seq(Locks)
           /\ <<Lock("del", l, "U")>> \in Seq(Locks)
           /\ <<Lock("lead", l, "U")>> \in Seq(Locks) /\ LeadThenEmail(l) \in Seq(Locks)
           /\ {"claim", "finish", "send", "generate", "edit"} \subseteq Kinds \ {"idle"}
BY LockFacts DEF Tables, Modes, GenFinish, DelFinish, LeadThenEmail, Kinds

LEMMA FinishGenerationStep ==
    ASSUME ProcessesAndBounds, Inv, NEW l \in Lead, FinishGeneration(l) PROVE Inv'
<1>1. "generation" \in Procs /\ gen[l] = "running"
      /\ Begin("generation", "finish", {l}, GenFinish(l))
    BY DEF FinishGeneration, Procs, GenFinish
<1>2. /\ TypeInv' /\ ExclusiveInv'
      /\ held["generation"] = {} /\ held' = held
      /\ task'["generation"] = [kind |-> "finish", leads |-> {l}]
      /\ todo'["generation"] = GenFinish(l)
      /\ \A q \in Procs : q # "generation" => task'[q] = task[q] /\ todo'[q] = todo[q]
    <2> DEFINE leads == {l}
               locks == GenFinish(l)
    <2>1. locks \in Seq(Locks) /\ "finish" \in Kinds /\ leads \in SUBSET Lead
          /\ TypeInv /\ ExclusiveInv
        BY ShortLists DEF Inv, Kinds
    <2>2. Begin("generation", "finish", leads, locks)
        BY <1>1
    <2> HIDE DEF leads, locks
    <2>3. /\ TypeInv' /\ ExclusiveInv'
          /\ held["generation"] = {} /\ held' = held
          /\ task'["generation"] = [kind |-> "finish", leads |-> leads]
          /\ todo'["generation"] = locks
          /\ \A q \in Procs : q # "generation" => task'[q] = task[q] /\ todo'[q] = todo[q]
        BY <1>1, <2>1, <2>2, Begins
    <2>4. QED
        BY <2>3 DEF leads, locks
<1>3. gen' = gen /\ del' = del
    BY <1>1 DEF Begin
<1>4. GenInv'
    BY <1>1, <1>2, <1>3 DEF GenInv, At
<1>5. FeedInv' /\ PageInv' /\ DelInv' /\ RequestInv'
    BY <1>1, <1>2, <1>3, Untouched, Distinct DEF FeedInv, RequestInv, Roles
<1>6. QED
    BY <1>2, <1>4, <1>5 DEF Inv

LEMMA ClaimDeliveryStep ==
    ASSUME ProcessesAndBounds, Inv, NEW l \in Lead, ClaimDelivery(l) PROVE Inv'
<1>1. "delivery" \in Procs
      /\ Begin("delivery", "claim", {l}, <<Lock("del", l, "U")>>)
    BY DEF ClaimDelivery, Procs
<1>2. /\ TypeInv' /\ ExclusiveInv'
      /\ held["delivery"] = {} /\ held' = held
      /\ task'["delivery"] = [kind |-> "claim", leads |-> {l}]
      /\ todo'["delivery"] = <<Lock("del", l, "U")>>
      /\ \A q \in Procs : q # "delivery" => task'[q] = task[q] /\ todo'[q] = todo[q]
    <2> DEFINE leads == {l}
               locks == <<Lock("del", l, "U")>>
    <2>1. locks \in Seq(Locks) /\ "claim" \in Kinds /\ leads \in SUBSET Lead
          /\ TypeInv /\ ExclusiveInv
        BY ShortLists DEF Inv, Kinds
    <2>2. Begin("delivery", "claim", leads, locks)
        BY <1>1
    <2> HIDE DEF leads, locks
    <2>3. /\ TypeInv' /\ ExclusiveInv'
          /\ held["delivery"] = {} /\ held' = held
          /\ task'["delivery"] = [kind |-> "claim", leads |-> leads]
          /\ todo'["delivery"] = locks
          /\ \A q \in Procs : q # "delivery" => task'[q] = task[q] /\ todo'[q] = todo[q]
        BY <1>1, <2>1, <2>2, Begins
    <2>4. QED
        BY <2>3 DEF leads, locks
<1>3. gen' = gen /\ del' = del
    BY <1>1 DEF Begin
<1>4. DelInv'
    BY <1>1, <1>2, <1>3 DEF DelInv, At
<1>5. FeedInv' /\ PageInv' /\ GenInv' /\ RequestInv'
    BY <1>1, <1>2, <1>3, Untouched, Distinct DEF FeedInv, RequestInv, Roles
<1>6. QED
    BY <1>2, <1>4, <1>5 DEF Inv

LEMMA FinishDeliveryStep ==
    ASSUME ProcessesAndBounds, Inv, NEW l \in Lead, FinishDelivery(l) PROVE Inv'
<1>1. "delivery" \in Procs /\ del[l] = "running"
      /\ Begin("delivery", "finish", {l}, DelFinish(l))
    BY DEF FinishDelivery, Procs, DelFinish
<1>2. /\ TypeInv' /\ ExclusiveInv'
      /\ held["delivery"] = {} /\ held' = held
      /\ task'["delivery"] = [kind |-> "finish", leads |-> {l}]
      /\ todo'["delivery"] = DelFinish(l)
      /\ \A q \in Procs : q # "delivery" => task'[q] = task[q] /\ todo'[q] = todo[q]
    <2> DEFINE leads == {l}
               locks == DelFinish(l)
    <2>1. locks \in Seq(Locks) /\ "finish" \in Kinds /\ leads \in SUBSET Lead
          /\ TypeInv /\ ExclusiveInv
        BY ShortLists DEF Inv, Kinds
    <2>2. Begin("delivery", "finish", leads, locks)
        BY <1>1
    <2> HIDE DEF leads, locks
    <2>3. /\ TypeInv' /\ ExclusiveInv'
          /\ held["delivery"] = {} /\ held' = held
          /\ task'["delivery"] = [kind |-> "finish", leads |-> leads]
          /\ todo'["delivery"] = locks
          /\ \A q \in Procs : q # "delivery" => task'[q] = task[q] /\ todo'[q] = todo[q]
        BY <1>1, <2>1, <2>2, Begins
    <2>4. QED
        BY <2>3 DEF leads, locks
<1>3. gen' = gen /\ del' = del
    BY <1>1 DEF Begin
<1>4. DelInv'
    BY <1>1, <1>2, <1>3 DEF DelInv, At
<1>5. FeedInv' /\ PageInv' /\ GenInv' /\ RequestInv'
    BY <1>1, <1>2, <1>3, Untouched, Distinct DEF FeedInv, RequestInv, Roles
<1>6. QED
    BY <1>2, <1>4, <1>5 DEF Inv

LEMMA RequestStep ==
    ASSUME ProcessesAndBounds, Inv, NEW r \in Requests, NEW l \in Lead,
           RequestSend(r, l) \/ RequestGeneration(r, l) \/ Review(r, l) \/ EditContact(r, l)
    PROVE  Inv'
<1>1. PICK kind \in {"send", "generate", "edit"},
           locks \in {<<Lock("lead", l, "U")>>, LeadThenEmail(l)} :
        Begin(r, kind, {l}, locks)
    BY DEF RequestSend, RequestGeneration, Review, EditContact
<1>2. r \in Procs
    BY DEF Procs
<1>3. /\ TypeInv' /\ ExclusiveInv'
      /\ held[r] = {} /\ held' = held
      /\ task'[r] = [kind |-> kind, leads |-> {l}]
      /\ todo'[r] = locks
      /\ \A q \in Procs : q # r => task'[q] = task[q] /\ todo'[q] = todo[q]
    <2> DEFINE leads == {l}
    <2>1. locks \in Seq(Locks) /\ kind \in Kinds /\ kind # "idle"
          /\ leads \in SUBSET Lead /\ TypeInv /\ ExclusiveInv
        BY <1>1, ShortLists DEF Inv, Kinds
    <2>2. Begin(r, kind, leads, locks)
        BY <1>1
    <2> HIDE DEF leads
    <2>3. /\ TypeInv' /\ ExclusiveInv'
          /\ held[r] = {} /\ held' = held
          /\ task'[r] = [kind |-> kind, leads |-> leads]
          /\ todo'[r] = locks
          /\ \A q \in Procs : q # r => task'[q] = task[q] /\ todo'[q] = todo[q]
        BY <1>2, <2>1, <2>2, Begins
    <2>4. QED
        BY <2>3 DEF leads
<1>4. gen' = gen /\ del' = del
    BY <1>1 DEF Begin
<1>5. RequestPlace(r)'
    BY <1>1, <1>3 DEF RequestPlace, At
<1>6. FeedInv' /\ PageInv' /\ GenInv' /\ DelInv'
      /\ \A q \in Requests : q # r => RequestPlace(q)'
    BY <1>2, <1>3, <1>4, Untouched, Distinct DEF FeedInv, Roles
<1>7. QED
    BY <1>3, <1>5, <1>6 DEF Inv, RequestInv

-----------------------------------------------------------------------------
(* A lock is acquired or passed over.                                      *)

LEMMA FirstOfTail ==
    ASSUME NEW s \in Seq(Locks), s # <<>>
    PROVE  /\ s[1] \in Locks /\ 1 \in DOMAIN s /\ Tail(s) \in Seq(Locks)
           /\ \A i \in DOMAIN Tail(s) : i + 1 \in DOMAIN s /\ i \in Nat /\ Tail(s)[i] = s[i + 1]
OBVIOUS

\* A feed, its first lock taken or passed over.
LEMMA FeedGoesOn ==
    ASSUME Inv, NEW f \in Ingestions, todo[f] # <<>>, gen' = gen, del' = del,
           task'[f] = task[f],
           todo'[f] = Tail(todo[f]),
           \/ held'[f] = held[f] /\ OfJob(todo[f][1])
           \/ held'[f] = held[f] \cup {todo[f][1]} /\ StillQueued(todo[f][1])
    PROVE  FeedPlace(f)'
<1>1. todo[f] \in Seq(Locks) /\ FeedPlace(f)
    BY DEF Inv, TypeInv, FeedInv, Procs
<1> DEFINE s == todo[f]
           t == Tail(s)
<1>2. /\ 1 \in DOMAIN s /\ Len(s) \in Nat \ {0} /\ Len(t) = Len(s) - 1
      /\ DOMAIN s = 1..Len(s) /\ DOMAIN t = 1..Len(t)
      /\ \A i \in DOMAIN t : i + 1 \in DOMAIN s /\ i \in Nat /\ t[i] = s[i + 1]
    BY <1>1
\* What stood before a place of the list stands before it still.
<1>3. ASSUME NEW l, NEW j \in 2..(Len(s) + 1), Before(f, LeadLock(l), j)
      PROVE  LeadLock(l) \in held'[f] \/ \E i \in DOMAIN t : i < j - 1 /\ t[i] = LeadLock(l)
    <2>1. CASE LeadLock(l) \in held[f]
        BY <2>1
    <2>2. CASE \E i \in DOMAIN s : i < j /\ s[i] = LeadLock(l)
        <3>1. PICK i \in DOMAIN s : i < j /\ s[i] = LeadLock(l)
            BY <2>2
        <3>2. CASE i = 1
            BY <3>1, <3>2 DEF OfJob, LeadLock, Lock, Row
        <3>3. CASE i # 1
            <4>1. i - 1 \in DOMAIN t /\ i - 1 < j - 1 /\ t[i - 1] = s[(i - 1) + 1]
                BY <1>2, <3>1, <3>3
            <4>2. t[i - 1] = LeadLock(l)
                BY <1>2, <3>1, <4>1
            <4>3. QED
                BY <4>1, <4>2
        <3>4. QED
            BY <3>2, <3>3
    <2>3. QED
        BY <1>3, <2>1, <2>2 DEF Before
<1>4. \A i \in DOMAIN s : FeedLock(f, s[i]) /\ (OfJob(s[i]) => Before(f, LeadLock(s[i].row.key), i))
    BY <1>1 DEF FeedPlace
<1>5. ASSUME NEW j \in DOMAIN t
      PROVE  /\ FeedLock(f, t[j])
             /\ OfJob(t[j]) => \/ LeadLock(t[j].row.key) \in held'[f]
                               \/ \E i \in DOMAIN t : i < j /\ t[i] = LeadLock(t[j].row.key)
    <2>1. j + 1 \in DOMAIN s /\ t[j] = s[j + 1] /\ j + 1 \in 2..(Len(s) + 1) /\ (j + 1) - 1 = j
        BY <1>2
    <2> HIDE DEF s, t
    <2>2. QED
        BY <1>3, <1>4, <2>1
<1>6. ASSUME NEW h \in held'[f]
      PROVE  FeedLock(f, h) /\ StillQueued(h) /\ (OfJob(h) => LeadLock(h.row.key) \in held'[f])
    <2>1. CASE h \in held[f]
        BY <1>1, <2>1 DEF FeedPlace
    <2>2. CASE h = s[1] /\ StillQueued(s[1])
        <3>1. OfJob(h) => LeadLock(h.row.key) \in held[f]
            BY <1>2, <1>4, <2>2 DEF Before
        <3>2. QED
            BY <1>2, <1>4, <2>2, <3>1
    <2>3. QED
        BY <1>6, <2>1, <2>2
<1>7. ASSUME NEW l \in task[f].leads
      PROVE  LeadLock(l) \in held'[f] \/ \E i \in DOMAIN t : i < Len(t) + 1 /\ t[i] = LeadLock(l)
    <2>1. Before(f, LeadLock(l), Len(s) + 1)
        BY <1>1 DEF FeedPlace
    <2>2. Len(s) + 1 \in 2..(Len(s) + 1) /\ (Len(s) + 1) - 1 = Len(t) + 1
        BY <1>2
    <2> HIDE DEF s, t
    <2>3. QED
        BY <1>3, <2>1, <2>2
<1>8. ScopeLock(f) \in held'[f]
    <2>1. held[f] = {} => s[1] = ScopeLock(f)
        BY <1>1 DEF FeedPlace
    <2>2. held[f] # {} => ScopeLock(f) \in held[f]
        BY <1>1 DEF FeedPlace
    <2>3. QED
        BY <2>1, <2>2, ScopeLockFacts DEF OfJob
<1>9. task'[f] = NoTask \/ task'[f].kind = "feed"
    BY <1>1 DEF FeedPlace
<1>10. \A h \in held'[f] : StillQueued(h)'
    BY <1>6 DEF StillQueued
<1> DEFINE u == t
<1>11. todo'[f] = u
    OBVIOUS
<1>12. /\ \A i \in DOMAIN u :
             /\ FeedLock(f, u[i])
             /\ OfJob(u[i]) => \/ LeadLock(u[i].row.key) \in held'[f]
                               \/ \E k \in DOMAIN u : k < i /\ u[k] = LeadLock(u[i].row.key)
       /\ \A l \in task'[f].leads :
             LeadLock(l) \in held'[f] \/ \E i \in DOMAIN u : i < Len(u) + 1 /\ u[i] = LeadLock(l)
    BY <1>5, <1>7
<1> HIDE DEF s, t, u
<1>13. QED
    BY <1>6, <1>8, <1>9, <1>10, <1>11, <1>12 DEF FeedPlace, Before

\* A list of one or two locks, one place further.
LEMMA AtGoesOn ==
    ASSUME NEW p \in Procs, NEW locks \in Seq(Locks), Len(locks) \in {1, 2},
           At(p, locks), todo[p] # <<>>,
           todo'[p] = Tail(todo[p]), held'[p] = held[p] \cup {todo[p][1]}
    PROVE  At(p, locks)'
<1>1. CASE todo[p] = locks /\ held[p] = {}
    <2>1. CASE Len(locks) = 1
        <3>1. todo'[p] = <<>> /\ held'[p] = {locks[1]} /\ DOMAIN locks = {1}
            BY <1>1, <2>1
        <3>2. QED
            BY <3>1 DEF At
    <2>2. CASE Len(locks) = 2
        <3>0. locks = <<locks[1], locks[2]>>
            BY <2>2
        <3>4. Tail(<<locks[1], locks[2]>>) = <<locks[2]>>
            OBVIOUS
        <3>1. todo'[p] = <<locks[2]>> /\ held'[p] = {locks[1]}
            BY <1>1, <3>0, <3>4
        <3>2. QED
            BY <2>2, <3>1 DEF At
    <2>3. QED
        BY <2>1, <2>2
<1>2. CASE Len(locks) = 2 /\ todo[p] = <<locks[2]>> /\ held[p] = {locks[1]}
    <2>1. todo'[p] = <<>> /\ held'[p] = {locks[1], locks[2]} /\ DOMAIN locks = {1, 2}
        BY <1>2
    <2>2. QED
        BY <2>1 DEF At
<1>3. QED
    BY <1>1, <1>2 DEF At

LEMMA AcquireStep ==
    ASSUME ProcessesAndBounds, Inv, NEW p \in Procs, Acquire(p) PROVE Inv'
<1> DEFINE k == todo[p][1]
<1>1. /\ todo[p] # <<>> /\ ~Passes(p) /\ Holders(p, k) = {}
      /\ held' = [held EXCEPT ![p] = @ \cup {k}]
      /\ todo' = [todo EXCEPT ![p] = Tail(@)]
      /\ gen' = gen /\ del' = del /\ task' = task
    BY DEF Acquire, WaitsFor
<1>2. todo[p] \in Seq(Locks) /\ k \in Locks /\ 1 \in DOMAIN todo[p] /\ Tail(todo[p]) \in Seq(Locks)
    BY <1>1, FirstOfTail DEF Inv, TypeInv
<1>3. task[p] # NoTask
    BY <1>1 DEF Inv, TypeInv
<1>4. /\ todo' \in [Procs -> Seq(Locks)] /\ held' \in [Procs -> SUBSET Locks]
      /\ todo'[p] = Tail(todo[p]) /\ held'[p] = held[p] \cup {k}
      /\ \A q \in Procs : q # p => todo'[q] = todo[q] /\ held'[q] = held[q]
    BY <1>1, <1>2 DEF Inv, TypeInv
<1>5. TypeInv'
    BY <1>1, <1>3, <1>4 DEF Inv, TypeInv
<1>6. ExclusiveInv'
    <2>1. \A q \in Procs : q # p => \A h \in held[q] : h.row = k.row => ~Conflict(h.mode, k.mode)
        BY <1>1 DEF Holders
    <2> HIDE DEF k
    <2>2. SUFFICES ASSUME NEW q \in Procs, NEW r \in Procs, q # r,
                          NEW h \in held'[q], NEW g \in held'[r], h.row = g.row
                   PROVE  ~Conflict(h.mode, g.mode)
        BY DEF ExclusiveInv
    <2>3. CASE h \in held[q] /\ g \in held[r]
        BY <2>2, <2>3, ExclusiveLocks DEF Inv
    <2>4. CASE q = p /\ h = k
        BY <1>4, <2>1, <2>2, <2>4, ConflictSymmetric
    <2>5. CASE r = p /\ g = k
        BY <1>4, <2>1, <2>2, <2>5
    <2>6. QED
        BY <1>4, <2>2, <2>3, <2>4, <2>5
<1>7. /\ \A f \in Ingestions : f # p => FeedPlace(f)'
      /\ p # "generation" => GenInv'
      /\ p # "delivery" => DelInv'
      /\ p # "replies" => PageInv'
      /\ \A r \in Requests : r # p => RequestPlace(r)'
    BY <1>1, <1>4, Untouched
<1>8. CASE p \in Ingestions
    <2>1. StillQueued(k)
        BY <1>1, <1>8 DEF Passes, StillQueued
    <2>2. FeedPlace(p)'
        BY <1>1, <1>4, <1>8, <2>1, FeedGoesOn
    <2>3. FeedInv' /\ RequestInv'
        BY <1>7, <1>8, <2>2, Distinct DEF FeedInv, RequestInv
    <2>4. QED
        BY <1>5, <1>6, <1>7, <1>8, <2>3, Distinct DEF Inv, Roles
<1>9. CASE p = "generation"
    <2>1. GenInv'
        <3>1. CASE \E l \in Lead :
                 /\ task[p].kind = "claim" /\ task[p].leads = {l}
                 /\ Lock("gen", l, "U") \in held[p]
                 /\ held[p] \subseteq {Lock("gen", l, "U"), Lock("lead", l, "KS")}
                 /\ todo[p] \in {<<>>, <<Lock("lead", l, "KS")>>}
            <4>1. PICK l \in Lead :
                     /\ task[p].kind = "claim" /\ task[p].leads = {l}
                     /\ Lock("gen", l, "U") \in held[p]
                     /\ held[p] \subseteq {Lock("gen", l, "U"), Lock("lead", l, "KS")}
                     /\ todo[p] = <<Lock("lead", l, "KS")>>
                BY <1>1, <3>1
            <4>2. k = Lock("lead", l, "KS") /\ Tail(todo[p]) = <<>>
                BY <4>1
            <4>3. QED
                BY <1>1, <1>4, <1>9, <4>1, <4>2 DEF GenInv
        <3>2. CASE \E l \in Lead :
                 /\ task[p].kind = "finish" /\ task[p].leads = {l}
                 /\ gen[l] = "running" /\ At(p, GenFinish(l))
            <4>1. PICK l \in Lead :
                     /\ task[p].kind = "finish" /\ task[p].leads = {l}
                     /\ gen[l] = "running" /\ At(p, GenFinish(l))
                BY <3>2
            <4>2. GenFinish(l) \in Seq(Locks) /\ Len(GenFinish(l)) = 2
                BY ShortLists DEF GenFinish
            <4>3. At(p, GenFinish(l))'
                BY <1>1, <1>4, <4>1, <4>2, AtGoesOn
            <4>4. QED
                BY <1>1, <1>9, <4>1, <4>3 DEF GenInv
        <3>3. QED
            BY <1>3, <1>9, <3>1, <3>2 DEF Inv, GenInv
    <2>2. FeedInv' /\ RequestInv'
        BY <1>7, <1>9, Distinct DEF FeedInv, RequestInv, Roles
    <2>3. QED
        BY <1>5, <1>6, <1>7, <1>9, <2>1, <2>2 DEF Inv
<1>10. CASE p = "delivery"
    <2>1. DelInv'
        <3>1. CASE \E l \in Lead :
                 /\ task[p].kind = "claim" /\ task[p].leads = {l}
                 /\ At(p, <<Lock("del", l, "U")>>)
            <4>1. PICK l \in Lead :
                     /\ task[p].kind = "claim" /\ task[p].leads = {l}
                     /\ At(p, <<Lock("del", l, "U")>>)
                BY <3>1
            <4> DEFINE s == <<Lock("del", l, "U")>>
            <4>2. s \in Seq(Locks) /\ Len(s) = 1
                BY ShortLists
            <4> HIDE DEF s
            <4>3. At(p, s)
                BY <4>1 DEF s
            <4>4. At(p, s)'
                BY <1>1, <1>4, <4>2, <4>3, AtGoesOn
            <4>5. QED
                BY <1>1, <1>10, <4>1, <4>4 DEF DelInv, s
        <3>2. CASE \E l \in Lead :
                 /\ task[p].kind = "finish" /\ task[p].leads = {l}
                 /\ del[l] = "running" /\ At(p, DelFinish(l))
            <4>1. PICK l \in Lead :
                     /\ task[p].kind = "finish" /\ task[p].leads = {l}
                     /\ del[l] = "running" /\ At(p, DelFinish(l))
                BY <3>2
            <4>2. DelFinish(l) \in Seq(Locks) /\ Len(DelFinish(l)) = 2
                BY ShortLists DEF DelFinish
            <4>3. At(p, DelFinish(l))'
                BY <1>1, <1>4, <4>1, <4>2, AtGoesOn
            <4>4. QED
                BY <1>1, <1>10, <4>1, <4>3 DEF DelInv
        <3>3. QED
            BY <1>3, <1>10, <3>1, <3>2 DEF Inv, DelInv
    <2>2. FeedInv' /\ RequestInv'
        BY <1>7, <1>10, Distinct DEF FeedInv, RequestInv, Roles
    <2>3. QED
        BY <1>5, <1>6, <1>7, <1>10, <2>1, <2>2 DEF Inv
<1>11. CASE p = "replies"
    <2>1. PageInv'
        <3>1. \A i \in DOMAIN Tail(todo[p]) :
                 i + 1 \in DOMAIN todo[p] /\ Tail(todo[p])[i] = todo[p][i + 1]
            BY <1>1, <1>2, FirstOfTail
        <3>2. /\ task[p] = NoTask \/ task[p].kind = "page"
              /\ \A i \in DOMAIN todo[p] : PageLock(todo[p][i])
              /\ \A h \in held[p] : PageLock(h)
            BY <1>11 DEF Inv, PageInv
        <3>3. /\ \A i \in DOMAIN todo'[p] : PageLock(todo'[p][i])
              /\ \A h \in held'[p] : PageLock(h)
            BY <1>2, <1>4, <3>1, <3>2
        <3>4. QED
            BY <1>1, <1>11, <3>2, <3>3 DEF PageInv, PageLock
    <2>2. FeedInv' /\ RequestInv'
        BY <1>7, <1>11, Distinct DEF FeedInv, RequestInv, Roles
    <2>3. QED
        BY <1>5, <1>6, <1>7, <1>11, <2>1, <2>2 DEF Inv
<1>12. CASE p \in Requests
    <2>1. RequestPlace(p)'
        <3>1. PICK l \in Lead : At(p, <<Lock("lead", l, "U")>>) \/ At(p, LeadThenEmail(l))
            BY <1>3, <1>12 DEF Inv, RequestInv, RequestPlace
        <3>2. task[p].kind \in {"send", "generate", "edit"}
            BY <1>3, <1>12 DEF Inv, RequestInv, RequestPlace
        <3>3. PICK s \in {<<Lock("lead", l, "U")>>, LeadThenEmail(l)} : At(p, s)
            BY <3>1
        <3>4. s \in Seq(Locks) /\ Len(s) \in {1, 2}
            BY ShortLists DEF LeadThenEmail
        <3>5. At(p, s)'
            BY <1>1, <1>4, <3>3, <3>4, AtGoesOn
        <3>6. At(p, <<Lock("lead", l, "U")>>)' \/ At(p, LeadThenEmail(l))'
            BY <3>5
        <3>7. QED
            BY <1>1, <3>2, <3>6 DEF RequestPlace
    <2>2. p \notin Roles /\ p \notin Ingestions
        BY <1>12, Distinct
    <2>3. FeedInv' /\ RequestInv'
        BY <1>7, <2>1, <2>2 DEF FeedInv, RequestInv
    <2>4. QED
        BY <1>5, <1>6, <1>7, <2>2, <2>3 DEF Inv, Roles
<1>13. QED
    BY <1>8, <1>9, <1>10, <1>11, <1>12, Distinct DEF Roles

LEMMA PassOverStep ==
    ASSUME ProcessesAndBounds, Inv, NEW p \in Procs, PassOver(p) PROVE Inv'
<1>1. /\ p \in Ingestions /\ todo[p] # <<>> /\ OfJob(todo[p][1])
      /\ todo' = [todo EXCEPT ![p] = Tail(@)]
      /\ gen' = gen /\ del' = del /\ task' = task /\ held' = held
    BY DEF PassOver, Passes, OfJob
<1>2. todo[p] \in Seq(Locks) /\ Tail(todo[p]) \in Seq(Locks)
    BY <1>1, FirstOfTail DEF Inv, TypeInv
<1>3. /\ todo' \in [Procs -> Seq(Locks)] /\ todo'[p] = Tail(todo[p])
      /\ \A q \in Procs : q # p => todo'[q] = todo[q]
    BY <1>1, <1>2 DEF Inv, TypeInv
<1>4. TypeInv'
    BY <1>1, <1>3 DEF Inv, TypeInv
<1>5. ExclusiveInv'
    BY <1>1 DEF Inv, ExclusiveInv
<1>6. FeedPlace(p)'
    BY <1>1, <1>3, FeedGoesOn
<1>7. GenInv' /\ DelInv' /\ PageInv' /\ RequestInv' /\ FeedInv'
    BY <1>1, <1>3, <1>6, Untouched, Distinct DEF FeedInv, RequestInv, Roles
<1>8. QED
    BY <1>4, <1>5, <1>7 DEF Inv

-----------------------------------------------------------------------------
(* A transaction ends.                                                     *)

\* The statuses may change as long as no other transaction relied on them.
LEMMA Ends ==
    ASSUME ProcessesAndBounds, Inv, NEW p \in Procs, Release(p),
           gen' \in [Lead -> JobStatus], del' \in [Lead -> JobStatus],
           \A f \in Ingestions \ {p} : \A h \in held[f] : StillQueued(h)',
           p # "generation" => \A l \in Lead : gen[l] = "running" => gen'[l] = "running",
           p # "delivery" => \A l \in Lead : del[l] = "running" => del'[l] = "running",
           \A l \in Lead : del[l] \in {"running", "done"} => del'[l] \in {"running", "done"}
    PROVE  Inv'
<1>1. /\ task' = [task EXCEPT ![p] = NoTask]
      /\ todo' = [todo EXCEPT ![p] = <<>>]
      /\ held' = [held EXCEPT ![p] = {}]
    BY DEF Release
<1>2. NoTask \in [kind : Kinds, leads : SUBSET Lead]
    BY DEF NoTask, Kinds
<1>3. /\ task' \in [Procs -> [kind : Kinds, leads : SUBSET Lead]]
      /\ todo' \in [Procs -> Seq(Locks)] /\ held' \in [Procs -> SUBSET Locks]
      /\ task'[p] = NoTask /\ todo'[p] = <<>> /\ held'[p] = {}
      /\ \A q \in Procs : q # p => task'[q] = task[q] /\ todo'[q] = todo[q] /\ held'[q] = held[q]
    BY <1>1, <1>2 DEF Inv, TypeInv
<1>4. TypeInv'
    BY <1>3 DEF Inv, TypeInv
<1>5. ExclusiveInv'
    BY <1>3 DEF Inv, ExclusiveInv
<1>6. FeedInv'
    <2>1. ASSUME NEW f \in Ingestions PROVE FeedPlace(f)'
        <3>1. f \in Procs /\ FeedPlace(f)
            BY DEF Procs, Inv, FeedInv
        <3>2. CASE f = p
            BY <1>3, <3>2 DEF FeedPlace, NoTask
        <3>3. CASE f # p
            <4>1. task'[f] = task[f] /\ todo'[f] = todo[f] /\ held'[f] = held[f]
                BY <1>3, <3>1, <3>3
            <4>2. QED
                BY <3>1, <3>3, <4>1 DEF FeedPlace, Before
        <3>4. QED
            BY <3>2, <3>3
    <2>2. QED
        BY <2>1 DEF FeedInv
<1>7. GenInv'
    <2>1. CASE p = "generation"
        BY <1>3, <2>1 DEF GenInv
    <2>2. CASE p # "generation" /\ "generation" \in Procs
        <3>1. task'["generation"] = task["generation"] /\ todo'["generation"] = todo["generation"]
              /\ held'["generation"] = held["generation"]
            BY <1>3, <2>2
        <3>2. QED
            BY <2>2, <3>1 DEF Inv, GenInv, At
    <2>3. QED
        BY <2>1, <2>2 DEF GenInv
<1>8. DelInv'
    <2>1. CASE p = "delivery"
        BY <1>3, <2>1 DEF DelInv
    <2>2. CASE p # "delivery" /\ "delivery" \in Procs
        <3>1. task'["delivery"] = task["delivery"] /\ todo'["delivery"] = todo["delivery"]
              /\ held'["delivery"] = held["delivery"]
            BY <1>3, <2>2
        <3>2. QED
            BY <2>2, <3>1 DEF Inv, DelInv, At
    <2>3. QED
        BY <2>1, <2>2 DEF DelInv
<1>9. PageInv'
    <2>1. CASE p = "replies"
        BY <1>3, <2>1 DEF PageInv
    <2>2. CASE p # "replies" /\ "replies" \in Procs
        <3>1. task'["replies"] = task["replies"] /\ todo'["replies"] = todo["replies"]
              /\ held'["replies"] = held["replies"]
            BY <1>3, <2>2
        <3>2. \A k \in Locks : PageLock(k) => PageLock(k)'
            BY LockShape DEF PageLock, Tables
        <3>3. todo["replies"] \in Seq(Locks) /\ held["replies"] \subseteq Locks
            BY <2>2 DEF Inv, TypeInv
        <3>4. QED
            BY <2>2, <3>1, <3>2, <3>3 DEF Inv, PageInv
    <2>3. QED
        BY <2>1, <2>2 DEF PageInv
<1>10. RequestInv'
    <2>1. ASSUME NEW r \in Requests PROVE RequestPlace(r)'
        <3>1. r \in Procs /\ RequestPlace(r)
            BY DEF Procs, Inv, RequestInv
        <3>2. CASE r = p
            BY <1>3, <3>2 DEF RequestPlace
        <3>3. CASE r # p
            <4>1. task'[r] = task[r] /\ todo'[r] = todo[r] /\ held'[r] = held[r]
                BY <1>3, <3>1, <3>3
            <4>2. QED
                BY <3>1, <4>1 DEF RequestPlace, At
        <3>4. QED
            BY <3>2, <3>3
    <2>2. QED
        BY <2>1 DEF RequestInv
<1>11. QED
    BY <1>4, <1>5, <1>6, <1>7, <1>8, <1>9, <1>10 DEF Inv

LEMMA AbortStep ==
    ASSUME ProcessesAndBounds, Inv, NEW p \in Procs, Abort(p) PROVE Inv'
<1>1. gen' = gen /\ del' = del /\ Release(p)
    BY DEF Abort
<1>2. \A f \in Ingestions \ {p} : \A h \in held[f] : StillQueued(h)'
    BY <1>1 DEF Inv, FeedInv, FeedPlace, StillQueued
<1>3. gen' \in [Lead -> JobStatus] /\ del' \in [Lead -> JobStatus]
    BY <1>1 DEF Inv, TypeInv
<1>4. QED
    BY <1>1, <1>2, <1>3, Ends

\* How a commit may change the jobs of a lead.
LEMMA Changes ==
    ASSUME ProcessesAndBounds, Inv, NEW p \in Procs, Commits(p), NEW l \in Lead
    PROVE  /\ gen'[l] # gen[l] =>
                 \/ p \in Ingestions /\ gen[l] = "queued" /\ gen'[l] = "done"
                 \/ /\ p = "generation" /\ gen'[l] \in {"running", "done"}
                    /\ gen[l] = "running" \/ Lock("gen", l, "U") \in held[p]
                 \/ gen[l] \notin {"queued", "running"} /\ gen'[l] = "queued"
           /\ del'[l] # del[l] =>
                 \/ p \in Ingestions /\ del[l] = "queued" /\ del'[l] = "done"
                 \/ /\ p = "delivery" /\ del'[l] \in {"running", "done"}
                    /\ del[l] = "running" \/ Lock("del", l, "U") \in held[p]
                 \/ del[l] = "none" /\ del'[l] = "queued"
<1>1. task[p] # NoTask /\ todo[p] = <<>> /\ gen'[l] = GenAfter(p, l) /\ del'[l] = DelAfter(p, l)
    BY DEF Commits
<1>2. CASE l \notin task[p].leads
    BY <1>1, <1>2 DEF GenAfter, DelAfter
<1>3. CASE l \in task[p].leads
    <2>1. CASE p \in Ingestions
        <3>1. task[p].kind = "feed"
            BY <1>1, <2>1 DEF Inv, FeedInv, FeedPlace
        <3>2. p \notin Roles
            BY <2>1, Distinct
        <3>3. QED
            BY <1>1, <1>3, <2>1, <3>1, <3>2 DEF GenAfter, DelAfter, Roles
    <2>2. CASE p = "generation"
        <3>1. CASE task[p].kind = "claim"
            <4>1. PICK m \in Lead : /\ task[p].kind = "claim" /\ task[p].leads = {m}
                                    /\ Lock("gen", m, "U") \in held[p]
                BY <1>1, <2>2, <3>1 DEF Inv, GenInv
            <4>2. m = l
                BY <1>3, <4>1
            <4>3. QED
                BY <1>1, <1>3, <2>2, <3>1, <4>1, <4>2, Distinct DEF GenAfter, DelAfter, Roles
        <3>2. CASE task[p].kind # "claim"
            <4>1. PICK m \in Lead : /\ task[p].kind = "finish" /\ task[p].leads = {m}
                                    /\ gen[m] = "running"
                BY <1>1, <2>2, <3>2 DEF Inv, GenInv
            <4>2. m = l
                BY <1>3, <4>1
            <4>3. QED
                BY <1>1, <1>3, <2>2, <3>2, <4>1, <4>2, Distinct DEF GenAfter, DelAfter, Roles
        <3>3. QED
            BY <3>1, <3>2
    <2>3. CASE p = "delivery"
        <3>1. CASE task[p].kind = "claim"
            <4>1. PICK m \in Lead : /\ task[p].kind = "claim" /\ task[p].leads = {m}
                                    /\ At(p, <<Lock("del", m, "U")>>)
                BY <1>1, <2>3, <3>1 DEF Inv, DelInv
            <4>2. m = l
                BY <1>3, <4>1
            <4>3. Lock("del", l, "U") \in held[p]
                BY <1>1, <4>1, <4>2 DEF At
            <4>4. QED
                BY <1>1, <1>3, <2>3, <3>1, <4>3, Distinct DEF GenAfter, DelAfter, Roles
        <3>2. CASE task[p].kind # "claim"
            <4>1. PICK m \in Lead : /\ task[p].kind = "finish" /\ task[p].leads = {m}
                                    /\ del[m] = "running"
                BY <1>1, <2>3, <3>2 DEF Inv, DelInv
            <4>2. m = l
                BY <1>3, <4>1
            <4>3. QED
                BY <1>1, <1>3, <2>3, <3>2, <4>1, <4>2, Distinct DEF GenAfter, DelAfter, Roles
        <3>3. QED
            BY <3>1, <3>2
    <2>4. CASE p = "replies"
        <3>1. task[p].kind = "page"
            BY <1>1, <2>4 DEF Inv, PageInv
        <3>2. QED
            BY <1>1, <1>3, <2>4, <3>1, Distinct DEF GenAfter, DelAfter, Roles
    <2>5. CASE p \in Requests
        <3>1. p \notin Roles /\ p \notin Ingestions
            BY <2>5, Distinct
        <3>2. QED
            BY <1>1, <1>3, <3>1 DEF GenAfter, DelAfter, GenActive, DelActive, Roles
    <2>6. QED
        BY <2>1, <2>2, <2>3, <2>4, <2>5, Distinct DEF Roles
<1>4. QED
    BY <1>2, <1>3

LEMMA CommitStep ==
    ASSUME ProcessesAndBounds, Inv, NEW p \in Procs, Commits(p) PROVE Inv'
<1>1. Release(p) /\ gen' = [l \in Lead |-> GenAfter(p, l)]
      /\ del' = [l \in Lead |-> DelAfter(p, l)]
    BY DEF Commits
<1>2. \A l \in Lead :
        /\ gen'[l] # gen[l] =>
              \/ p \in Ingestions /\ gen[l] = "queued" /\ gen'[l] = "done"
              \/ /\ p = "generation" /\ gen'[l] \in {"running", "done"}
                 /\ gen[l] = "running" \/ Lock("gen", l, "U") \in held[p]
              \/ gen[l] \notin {"queued", "running"} /\ gen'[l] = "queued"
        /\ del'[l] # del[l] =>
              \/ p \in Ingestions /\ del[l] = "queued" /\ del'[l] = "done"
              \/ /\ p = "delivery" /\ del'[l] \in {"running", "done"}
                 /\ del[l] = "running" \/ Lock("del", l, "U") \in held[p]
              \/ del[l] = "none" /\ del'[l] = "queued"
    BY Changes
<1>3. gen' \in [Lead -> JobStatus] /\ del' \in [Lead -> JobStatus]
    <2>1. \A l \in Lead : gen[l] \in JobStatus /\ del[l] \in JobStatus
        BY DEF Inv, TypeInv
    <2>2. \A l \in Lead : gen'[l] \in JobStatus /\ del'[l] \in JobStatus
        BY <1>2, <2>1 DEF JobStatus
    <2>3. QED
        BY <1>1, <2>2
<1>4. ASSUME NEW f \in Ingestions \ {p}, NEW h \in held[f] PROVE StillQueued(h)'
    <2>0. f \in Procs /\ f # p /\ f \notin Roles
        BY Distinct DEF Procs
    <2>1. h \in Locks /\ h.mode = "U" /\ StillQueued(h)
        BY <2>0 DEF Inv, TypeInv, FeedInv, FeedPlace, FeedLock
    <2> DEFINE l == h.row.key
    \* Another feed that names the lead would hold it, as this one does.
    <2>6. ASSUME p \in Ingestions, OfJob(h), l \in task[p].leads PROVE FALSE
        <3>1. LeadLock(l) \in held[f]
            BY <2>0, <2>6 DEF Inv, FeedInv, FeedPlace
        <3>2. todo[p] = <<>> /\ FeedPlace(p)
            BY <2>6 DEF Commits, Inv, FeedInv
        <3>3. LeadLock(l) \in held[p]
            BY <2>6, <3>2 DEF FeedPlace, Before
        <3>4. LeadLock(l).mode = "U"
            BY DEF LeadLock, Lock
        <3>5. QED
            BY <2>0, <3>1, <3>3, <3>4, ExclusiveLocks DEF Inv, Conflict
    <2>7. p \in Ingestions /\ OfJob(h) => l \notin task[p].leads
        BY <2>6
    <2>2. h.row.table \in Tables => l \in Lead /\ h.row = Row(h.row.table, l)
        BY <2>1, LockShape
    <2>3. CASE h.row.table = "gen"
        <3>1. Lock("gen", l, "U") \notin held[p]
            <4>1. Lock("gen", l, "U").row = h.row /\ Lock("gen", l, "U").mode = "U"
                BY <2>2, <2>3, LockFacts DEF Tables, Modes
            <4>2. QED
                BY <2>0, <2>1, <4>1, ExclusiveLocks DEF Inv, Conflict
        <3>0. l \in Lead /\ gen[l] = "queued"
            BY <2>1, <2>2, <2>3 DEF Tables, StillQueued
        <3>2. gen'[l] = gen[l]
            <4>1. CASE p \in Ingestions
                BY <1>1, <2>3, <2>7, <3>0, <4>1 DEF GenAfter, OfJob
            <4>2. CASE p \notin Ingestions
                BY <1>2, <3>0, <3>1, <4>2
            <4>3. QED
                BY <4>1, <4>2
        <3>3. QED
            BY <2>1, <2>3, <3>2 DEF StillQueued
    <2>4. CASE h.row.table = "del"
        <3>1. Lock("del", l, "U") \notin held[p]
            <4>1. Lock("del", l, "U").row = h.row /\ Lock("del", l, "U").mode = "U"
                BY <2>2, <2>4, LockFacts DEF Tables, Modes
            <4>2. QED
                BY <2>0, <2>1, <4>1, ExclusiveLocks DEF Inv, Conflict
        <3>0. l \in Lead /\ del[l] = "queued"
            BY <2>1, <2>2, <2>4 DEF Tables, StillQueued
        <3>2. del'[l] = del[l]
            <4>1. CASE p \in Ingestions
                BY <1>1, <2>4, <2>7, <3>0, <4>1 DEF DelAfter, OfJob
            <4>2. CASE p \notin Ingestions
                BY <1>2, <3>0, <3>1, <4>2
            <4>3. QED
                BY <4>1, <4>2
        <3>3. QED
            BY <2>1, <2>4, <3>2 DEF StillQueued
    <2>5. QED
        BY <2>3, <2>4 DEF StillQueued
<1>5. p # "generation" => \A l \in Lead : gen[l] = "running" => gen'[l] = "running"
    BY <1>2
<1>6. p # "delivery" => \A l \in Lead : del[l] = "running" => del'[l] = "running"
    BY <1>2
<1>7. \A l \in Lead : del[l] \in {"running", "done"} => del'[l] \in {"running", "done"}
    BY <1>2
<1>8. QED
    BY <1>1, <1>3, <1>4, <1>5, <1>6, <1>7, Ends

LEMMA Preserved == ASSUME ProcessesAndBounds, Inv, [LocksNext]_lockVars PROVE Inv'
<1>1. CASE \E f \in Ingestions : Feed(f)
    BY <1>1, FeedStep
<1>2. CASE Page
    BY <1>2, PageStep
<1>3. CASE WorkersBegin
    BY <1>3, ClaimGenerationStep, FinishGenerationStep, ClaimDeliveryStep, FinishDeliveryStep
       DEF WorkersBegin
<1>4. CASE RequestsBegin
    BY <1>4, RequestStep DEF RequestsBegin
<1>5. CASE \E p \in Procs : Acquire(p) \/ PassOver(p) \/ Commits(p)
    BY <1>5, AcquireStep, PassOverStep, CommitStep
<1>6. CASE \E p \in Procs : Abort(p)
    BY <1>6, AbortStep
<1>7. CASE UNCHANGED lockVars
    <2>1. gen' = gen /\ del' = del /\ task' = task /\ todo' = todo /\ held' = held
        BY <1>7 DEF lockVars
    <2>2. TypeInv' /\ ExclusiveInv'
        BY <2>1 DEF Inv, TypeInv, ExclusiveInv
    <2>3. FeedInv'
        BY <2>1 DEF Inv, FeedInv, FeedPlace, StillQueued, Before
    <2>4. GenInv' /\ DelInv'
        BY <2>1 DEF Inv, GenInv, DelInv, At
    <2>5. PageInv' /\ RequestInv'
        BY <2>1 DEF Inv, PageInv, PageLock, RequestInv, RequestPlace, At
    <2>6. QED
        BY <2>2, <2>3, <2>4, <2>5 DEF Inv
<1>8. QED
    BY <1>1, <1>2, <1>3, <1>4, <1>5, <1>6, <1>7 DEF LocksNext

LEMMA Always == ASSUME ProcessesAndBounds PROVE LocksSpec => []Inv
<1>1. LocksInit => Inv
    BY Initially
<1>2. Inv /\ [LocksNext]_lockVars => Inv'
    BY Preserved
<1>3. QED
    BY <1>1, <1>2, PTL DEF LocksSpec

-----------------------------------------------------------------------------
(* What somebody who still has locks to take can be holding.               *)

LEMMA GenerationHolds ==
    ASSUME Inv, "generation" \in Procs, NEW h \in held["generation"],
           todo["generation"] # <<>>
    PROVE  /\ h.row.table = "gen" \/ (h.row.table = "lead" /\ ~Explicit(h))
           /\ Explicit(todo["generation"][1]) => gen[h.row.key] = "running"
<1> DEFINE p == "generation"
<1>1. task[p] # NoTask
    BY DEF Inv, TypeInv
<1>2. CASE \E l \in Lead :
              /\ task[p].kind = "claim" /\ task[p].leads = {l}
              /\ Lock("gen", l, "U") \in held[p]
              /\ held[p] \subseteq {Lock("gen", l, "U"), Lock("lead", l, "KS")}
              /\ todo[p] \in {<<>>, <<Lock("lead", l, "KS")>>}
    <2>1. PICK l \in Lead :
              /\ Lock("gen", l, "U") \in held[p]
              /\ held[p] \subseteq {Lock("gen", l, "U"), Lock("lead", l, "KS")}
              /\ todo[p] = <<Lock("lead", l, "KS")>>
        BY <1>2
    <2>2. ~Explicit(todo[p][1])
        BY <2>1, LockFacts DEF Explicit, Tables, Modes
    <2>3. /\ Lock("gen", l, "U").row.table = "gen"
          /\ Lock("lead", l, "KS").row.table = "lead" /\ ~Explicit(Lock("lead", l, "KS"))
        BY LockFacts DEF Explicit, Tables, Modes
    <2>4. h.row.table = "gen" \/ (h.row.table = "lead" /\ ~Explicit(h))
        BY <2>1, <2>3
    <2>5. QED
        BY <2>2, <2>4
<1>3. CASE \E l \in Lead :
              /\ task[p].kind = "finish" /\ task[p].leads = {l}
              /\ gen[l] = "running" /\ At(p, GenFinish(l))
    <2>1. PICK l \in Lead : gen[l] = "running" /\ At(p, GenFinish(l))
        BY <1>3
    <2>2. h = Lock("gen", l, "U")
        BY <2>1 DEF At, GenFinish
    <2>3. h.row.table = "gen" /\ h.row.key = l
        BY <2>2, LockFacts DEF Tables, Modes
    <2>4. QED
        BY <2>1, <2>3
<1>4. QED
    BY <1>1, <1>2, <1>3 DEF Inv, GenInv

LEMMA DeliveryHolds ==
    ASSUME Inv, "delivery" \in Procs, NEW h \in held["delivery"],
           todo["delivery"] # <<>>
    PROVE  todo["delivery"][1].row.table = "email" /\ h.row.table = "del"
<1> DEFINE p == "delivery"
<1>1. task[p] # NoTask
    BY DEF Inv, TypeInv
<1>2. CASE \E l \in Lead :
              /\ task[p].kind = "claim" /\ task[p].leads = {l}
              /\ At(p, <<Lock("del", l, "U")>>)
    BY <1>2 DEF At
<1>3. CASE \E l \in Lead :
              /\ task[p].kind = "finish" /\ task[p].leads = {l}
              /\ del[l] = "running" /\ At(p, DelFinish(l))
    BY <1>3, LockFacts DEF At, DelFinish, Tables, Modes
<1>4. QED
    BY <1>1, <1>2, <1>3 DEF Inv, DelInv

LEMMA RequestHolds ==
    ASSUME Inv, NEW r \in Requests, NEW h \in held[r], todo[r] # <<>>
    PROVE  todo[r][1].row.table = "email" /\ h.row.table = "lead"
<1>1. r \in Procs
    BY DEF Procs
<1>2. task[r] # NoTask
    BY <1>1 DEF Inv, TypeInv
<1>3. PICK l \in Lead : At(r, <<Lock("lead", l, "U")>>) \/ At(r, LeadThenEmail(l))
    BY <1>2 DEF Inv, RequestInv, RequestPlace
<1>4. CASE At(r, <<Lock("lead", l, "U")>>)
    BY <1>4 DEF At
<1>5. CASE At(r, LeadThenEmail(l))
    BY <1>5, LockFacts DEF At, LeadThenEmail, Tables, Modes
<1>6. QED
    BY <1>3, <1>4, <1>5

\* Nobody who holds an email by an explicit lock waits for anything; a page
\* of replies may hold one by a foreign key check.
LEMMA EmailIsLast ==
    ASSUME ProcessesAndBounds, Inv, NEW q \in Procs, NEW h \in held[q],
           h.row.table = "email", Explicit(h) \/ q # "replies"
    PROVE  todo[q] = <<>>
<1> SUFFICES ASSUME todo[q] # <<>> PROVE FALSE
    OBVIOUS
<1>1. CASE q \in Ingestions
    BY <1>1, ScopeLockFacts DEF Inv, FeedInv, FeedPlace, FeedLock
<1>2. CASE q = "generation"
    BY <1>2, GenerationHolds
<1>3. CASE q = "delivery"
    BY <1>3, DeliveryHolds
<1>4. CASE q = "replies"
    BY <1>4 DEF Inv, PageInv, PageLock, Explicit
<1>5. CASE q \in Requests
    BY <1>5, RequestHolds
<1>6. QED
    BY <1>1, <1>2, <1>3, <1>4, <1>5, Distinct DEF Roles

-----------------------------------------------------------------------------
(* Deadlocks.                                                              *)

LEMMA ExplicitlyBlocked ==
    ASSUME Inv, NEW p \in Procs, NEW q \in ExplicitWaits(p)
    PROVE  /\ q \in Procs /\ q # p /\ todo[p] # <<>> /\ ~Passes(p)
           /\ todo[p][1] \in Locks /\ 1 \in DOMAIN todo[p] /\ Explicit(todo[p][1])
           /\ \E h \in held[q] : h \in Locks /\ h.row = todo[p][1].row /\ Explicit(h)
<1>1. todo[p] # <<>> /\ ~Passes(p) /\ Explicit(todo[p][1])
      /\ q \in Procs \ {p} /\ \E h \in held[q] : h.row = todo[p][1].row /\ Explicit(h)
    BY DEF ExplicitWaits
<1>2. todo[p] \in Seq(Locks) /\ held[q] \subseteq Locks
    BY <1>1 DEF Inv, TypeInv
<1>3. QED
    BY <1>1, <1>2, FirstOfTail

\* A cycle is minimal: it is all of any part of it that everybody in it
\* waits for.
LEMMA Minimal ==
    ASSUME NEW waits, NEW S \in CyclesOf(waits), NEW T \in SUBSET S,
           \A p \in S : waits[p] \cap T # {}
    PROVE  T = S
<1> DEFINE waiting == {p \in Procs : waits[p] # {}}
<1>1. S \in SUBSET waiting /\ Stuck(S, waits)
      /\ \A U \in SUBSET waiting : Stuck(U, waits) /\ U \subseteq S => U = S
    BY DEF CyclesOf
<1>2. S # {}
    BY <1>1 DEF Stuck
<1>3. Stuck(T, waits)
    BY <1>2 DEF Stuck
<1>4. QED
    BY <1>1, <1>3

LEMMA WaitsInCycle ==
    ASSUME NEW waits, NEW S \in CyclesOf(waits)
    PROVE  S \subseteq Procs /\ S # {} /\ \A p \in S : waits[p] \cap S # {}
BY DEF CyclesOf, Stuck

LEMMA ExplicitCycle ==
    ASSUME ProcessesAndBounds, Inv,
           NEW S \in CyclesOf([p \in Procs |-> ExplicitWaits(p)])
    PROVE  /\ S \subseteq Ingestions
           /\ \A f, g \in S : ScopeOf[f] = ScopeOf[g] => f = g
<1> DEFINE waits == [p \in Procs |-> ExplicitWaits(p)]
<1>0. S \subseteq Procs /\ S # {} /\ \A p \in S : ExplicitWaits(p) \cap S # {}
    BY WaitsInCycle
<1>1. \A p \in S : todo[p] # <<>> /\ Explicit(todo[p][1])
    BY <1>0, ExplicitlyBlocked
<1>2. \A p \in S : todo[p][1].row.table # "email"
    <2>1. SUFFICES ASSUME NEW p \in S, todo[p][1].row.table = "email" PROVE FALSE
        OBVIOUS
    <2>2. PICK q \in S : q \in ExplicitWaits(p)
        BY <1>0
    <2>3. PICK h \in held[q] : h.row = todo[p][1].row /\ Explicit(h)
        BY <1>0, <2>2, ExplicitlyBlocked
    <2>4. todo[q] = <<>>
        BY <1>0, <2>1, <2>3, EmailIsLast
    <2>5. QED
        BY <1>1, <2>4
<1>3. \A r \in S \cap Requests : held[r] = {}
    BY <1>1, <1>2, RequestHolds
<1>4. "delivery" \in S => held["delivery"] = {}
    BY <1>0, <1>1, <1>2, DeliveryHolds
<1>5. "replies" \notin S
    <2>1. SUFFICES ASSUME "replies" \in S PROVE FALSE
        OBVIOUS
    <2> DEFINE k == todo["replies"][1]
    <2>2. PICK q \in S : q \in ExplicitWaits("replies")
        BY <1>0, <2>1
    <2>3. PICK h \in held[q] : h \in Locks /\ h.row = k.row /\ Explicit(h)
        BY <1>0, <2>1, <2>2, ExplicitlyBlocked
    <2>4. k \in Locks /\ 1 \in DOMAIN todo["replies"] /\ Explicit(k) /\ q # "replies"
        BY <1>0, <2>1, <2>2, ExplicitlyBlocked
    <2>5. h.row.table = "del" /\ del[h.row.key] \in {"running", "done"}
        BY <1>0, <2>1, <2>3, <2>4 DEF Inv, PageInv, PageLock, Explicit
    <2>6. q \notin Ingestions
        BY <2>3, <2>5 DEF Inv, FeedInv, FeedPlace, StillQueued
    <2>7. q # "generation"
        BY <1>0, <1>1, <2>3, <2>5, GenerationHolds
    <2>8. QED
        BY <1>0, <1>3, <1>4, <2>3, <2>4, <2>6, <2>7, Distinct DEF Roles
\* Requests and the delivery worker hold nothing, so they are not in it.
<1>6. S \subseteq Ingestions \cup {"generation"}
    <2> DEFINE T == S \ (Requests \cup {"delivery"})
    <2>1. ASSUME NEW p \in S PROVE waits[p] \cap T # {}
        <3>1. PICK q \in S : q \in ExplicitWaits(p)
            BY <1>0
        <3>2. held[q] # {}
            BY <1>0, <3>1, ExplicitlyBlocked
        <3>3. q \in T
            BY <1>3, <1>4, <3>1, <3>2
        <3>4. QED
            BY <1>0, <3>1, <3>3
    <2>2. T = S
        <3> HIDE DEF T
        <3>1. T \in SUBSET S
            BY DEF T
        <3>2. QED
            BY <2>1, <3>1, Minimal
    <2>3. QED
        BY <1>0, <1>5, <2>2, Distinct DEF Roles
\* Whoever is waited for is a feed: a feed passes over the running job that
\* the generation worker holds.
<1>7. ASSUME NEW p \in S, NEW q \in S \cap ExplicitWaits(p)
      PROVE  q \in Ingestions /\ held[q] # {}
    <2>1. PICK h \in held[q] : h \in Locks /\ h.row = todo[p][1].row /\ Explicit(h)
        BY <1>0, ExplicitlyBlocked
    <2>2. todo[p] # <<>> /\ ~Passes(p) /\ q # p
        BY <1>0, ExplicitlyBlocked
    <2>3. SUFFICES ASSUME q = "generation" PROVE FALSE
        BY <1>6, <2>1
    <2>4. p \in Ingestions
        BY <1>6, <2>2, <2>3
    <2>5. h.row.table = "gen" /\ gen[h.row.key] = "running"
        BY <1>0, <1>1, <2>1, <2>3, GenerationHolds
    <2>6. QED
        BY <2>1, <2>2, <2>4, <2>5 DEF Passes
<1>8. \A f \in S : f \in Ingestions /\ held[f] # {}
    <2> DEFINE T == {f \in S : f \in Ingestions /\ held[f] # {}}
    <2>1. ASSUME NEW p \in S PROVE waits[p] \cap T # {}
        <3>1. PICK q \in S : q \in ExplicitWaits(p)
            BY <1>0
        <3>2. q \in T
            BY <1>7, <3>1
        <3>3. QED
            BY <1>0, <3>1, <3>2
    <2>2. T = S
        <3> HIDE DEF T
        <3>1. T \in SUBSET S
            BY DEF T
        <3>2. QED
            BY <2>1, <3>1, Minimal
    <2>3. QED
        BY <2>2
<1>9. ASSUME NEW f \in S, NEW g \in S, ScopeOf[f] = ScopeOf[g], f # g PROVE FALSE
    <2>1. ScopeLock(f) \in held[f] /\ ScopeLock(g) \in held[g]
        BY <1>8 DEF Inv, FeedInv, FeedPlace
    <2>2. ScopeLock(f).row = ScopeLock(g).row /\ ScopeLock(f).mode = "U"
        BY <1>8, <1>9, ScopeLockFacts
    <2>3. QED
        BY <1>0, <1>9, <2>1, <2>2, ExclusiveLocks DEF Inv, Conflict
<1>10. QED
    BY <1>8, <1>9

LEMMA CycleWithoutReplies ==
    ASSUME ProcessesAndBounds, Inv, NEW S \in Cycles, "replies" \notin S
    PROVE  S \subseteq Ingestions \cup {"generation"}
<1> DEFINE waits == [p \in Procs |-> WaitsFor(p)]
           T == S \ (Requests \cup {"delivery"})
<1>1. S \in CyclesOf(waits)
    BY DEF Cycles
<1>2. S \subseteq Procs /\ S # {} /\ \A p \in S : WaitsFor(p) \cap S # {}
    BY <1>1, WaitsInCycle
<1>3. \A p \in S : todo[p] # <<>>
    BY <1>2 DEF WaitsFor
\* Nobody in it waits for an email: who holds one is about to commit.
<1>4. ASSUME NEW p \in S PROVE todo[p][1].row.table # "email"
    <2>1. PICK q \in S : q \in WaitsFor(p)
        BY <1>2
    <2>2. PICK h \in held[q] : h.row = todo[p][1].row
        BY <2>1 DEF WaitsFor, Holders
    <2>3. QED
        BY <1>2, <1>3, <2>2, EmailIsLast
<1>5. ASSUME NEW p \in S PROVE waits[p] \cap T # {}
    <2>1. PICK q \in S : q \in WaitsFor(p)
        BY <1>2
    <2>2. held[q] # {}
        BY <2>1 DEF WaitsFor, Holders
    <2>3. q \notin Requests
        BY <1>3, <1>4, <2>2, RequestHolds
    <2>4. q # "delivery"
        BY <1>2, <1>3, <1>4, <2>2, DeliveryHolds
    <2>5. QED
        BY <1>2, <2>1, <2>3, <2>4
<1>6. T = S
    <2> HIDE DEF T
    <2>1. T \in SUBSET S
        BY DEF T
    <2>2. QED
        BY <1>1, <1>5, <2>1, Minimal
<1>7. QED
    BY <1>2, <1>6, Distinct DEF Roles

-----------------------------------------------------------------------------
(* The theorem.                                                            *)

LEMMA TypesFollow == ASSUME Inv PROVE LocksTypeOK
BY DEF Inv, TypeInv, Locks, LocksTypeOK

(* If only the explicit locks existed, nobody would ever wait in a cycle   *)
(* but feeds of different scopes; with the foreign key checks, whoever is  *)
(* neither a feed nor the generation worker does so only where a page of   *)
(* replies is part of the cycle.  For any leads, feeds and requests.       *)
THEOREM Confined == ASSUME ProcessesAndBounds PROVE LocksSpec => []DeadlocksAreConfined
<1>1. Inv => OnlyFeedsDeadlockExplicitly
    BY ExplicitCycle DEF OnlyFeedsDeadlockExplicitly
<1>2. Inv => OthersDeadlockOnlyWithReplies
    BY CycleWithoutReplies DEF OthersDeadlockOnlyWithReplies
<1>3. Inv => DeadlocksAreConfined
    BY <1>1, <1>2, TypesFollow DEF DeadlocksAreConfined
<1>4. QED
    BY <1>3, Always, PTL
=============================================================================
