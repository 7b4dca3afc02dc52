--------------------------- MODULE Projects_proofs ---------------------------
(***************************************************************************)
(* Proofs about Providers and Projects, for every number of projects,      *)
(* jobs, profiles, credentials, cookies and kills.                         *)
(***************************************************************************)
EXTENDS Projects, FiniteSetTheorems, SequenceTheorems, TLAPS

-----------------------------------------------------------------------------
(* The inductive invariant: the configuration.                             *)

ProfileRow == [id: Kinds, cap: Capabilities, kind: Kinds, default: BOOLEAN]
SecretRow == [kind: Kinds, active: BOOLEAN]

\* Profiles have identifiers of their own, none above the n given out.
ProfileRows(ps, n) ==
    /\ ps \in Seq(ProfileRow)
    /\ \A i \in DOMAIN ps : ps[i].id \in Capabilities \cup (1..n)
    /\ \A i, k \in DOMAIN ps : ps[i].id = ps[k].id => i = k

AtMostOneDefault(ps, cap) ==
    \A i, k \in Uses(ps, cap) : ps[i].default /\ ps[k].default => i = k
HasDefault(ps, cap) ==
    Uses(ps, cap) # {} => \E i \in Uses(ps, cap) : ps[i].default

GoodProfiles(ps, n) ==
    /\ ProfileRows(ps, n)
    /\ \A cap \in Capabilities : AtMostOneDefault(ps, cap) /\ HasDefault(ps, cap)

GoodCookies(rows) ==
    /\ rows \in Seq({"plain", "default", None})
    /\ \A m, n \in DOMAIN rows :
          rows[m] = "default" /\ rows[n] = "default" => m = n

GoodSecrets(rows) ==
    /\ rows \in Seq(SecretRow)
    /\ Len(rows) <= MaxSecrets + Cardinality(Capabilities)
    /\ \A m, n \in DOMAIN rows :
          rows[m].active /\ rows[n].active /\ rows[m].kind = rows[n].kind
             => m = n

\* The profiles are there from the first start on, and good.
Configured ==
    /\ made \in 0..MaxProfiles
    /\ up \in BOOLEAN
    /\ profiles # None \/ up => GoodProfiles(profiles, made)
    /\ GoodSecrets(secrets)
    /\ GoodCookies(cookies)

\* A write of the configuration that is still to come is good whenever it
\* comes, and a credential, for which there is room, comes first.
ConfigWrite(w, first, stored, n) ==
    /\ w.put \in {"secret", "clear", "profiles", "cookies"}
    /\ w.put \in {"secret", "clear"} => w.kind \in Kinds
    /\ w.put = "secret" => first /\ stored < MaxSecrets
    /\ w.put = "profiles" => GoodProfiles(w.list, n)
    /\ w.put = "cookies" => GoodCookies(w.rows)

ConfigWrites(td, stored, n) ==
    \A i \in DOMAIN td : ConfigWrite(td[i], i = 1, stored, n)
Configuring == ConfigWrites(todo, Len(secrets), made)

(* The inductive invariant: projects and jobs.                             *)

PinRow == [kind: Kinds, ref: Nat \cup {None}]
Pins == [Capabilities -> PinRow]
JobRow == [project: ProjectIds, status: Statuses \cup {"unborn", "gone"},
           upload: Nat, pin: {None} \cup Pins,
           cancel: BOOLEAN, owned: BOOLEAN, delete: BOOLEAN]
UploadRow == [project: ProjectIds, file: Fates]
WorkerRow == [pc: {"idle", "load", "ready", "work", "select", "update",
                   "release"},
              job: Nat, seen: Statuses \cup {None},
              then: {"idle", "work", "release"}]
ProjectRows == [ProjectIds -> Statuses \cup {None, "gone"}]
DroppedRows == [ProjectIds -> SUBSET Ended]

Rows ==
    /\ projects \in ProjectRows
    /\ jobs \in Seq(JobRow)
    /\ uploads \in Seq(UploadRow)
    /\ worker \in WorkerRow
    /\ overtaken \subseteq ProjectIds
    /\ dropped \in DroppedRows

\* A job was submitted to a project that was created.
JobsHaveProjects == \A j \in DOMAIN jobs : projects[jobs[j].project] # None

\* The video that a job names was uploaded to its project.
JobsNameVideos ==
    \A j \in DOMAIN jobs :
       /\ jobs[j].upload \in DOMAIN uploads
       /\ uploads[jobs[j].upload].project = jobs[j].project

Videos == JobsNameVideos /\ UploadsOutliveTheirJobs

\* The job that the worker works on is running until the worker ended it.
WorkerRuns ==
    /\ worker.pc # "idle" => worker.job \in DOMAIN jobs
    /\ worker.seen # None => worker.pc = "update" /\ worker.seen \in Statuses
    /\ worker.pc = "update" => worker.seen # None
    /\ \/ worker.pc \in {"load", "ready", "work"}
       \/ worker.pc \in {"select", "update"} /\ worker.then = "work"
       => jobs[worker.job].status = "running"

PinFound(pin) ==
    \A cap \in DOMAIN pin :
       pin[cap].ref # None => Resolve(pin[cap].ref, pin[cap].kind) = pin[cap].ref

\* A submission in its five phases: it brings a video, or names one that is
\* there; the row comes after all that it needs.
Bringing(p, u, pin, us) ==
    /\ todo = <<PutUpload(p), PutLayout(NewJob(p, u)),
                PutSnapshot(Len(jobs) + 1, pin), PutRow(Len(jobs) + 1),
                PutLogged(us)>>
    /\ u = Len(uploads) + 1 /\ Shown(p) /\ PinFound(pin)

Naming(p, u, pin, us) ==
    /\ todo = <<PutLayout(NewJob(p, u)), PutSnapshot(Len(jobs) + 1, pin),
                PutRow(Len(jobs) + 1), PutLogged(us)>>
    /\ u \in DOMAIN uploads /\ uploads[u].project = p /\ Kept(u)
    /\ Shown(p) /\ PinFound(pin)

\* The directory of the last job is there and its row is not.
LaidOut ==
    LET j == Len(jobs)
    IN  /\ j \in DOMAIN jobs /\ jobs[j].status = "unborn"
        /\ Kept(jobs[j].upload) /\ Shown(jobs[j].project)

Pinning(pin, us) ==
    /\ todo = <<PutSnapshot(Len(jobs), pin), PutRow(Len(jobs)), PutLogged(us)>>
    /\ LaidOut /\ PinFound(pin)

Queueing(us) == /\ todo = <<PutRow(Len(jobs)), PutLogged(us)>>
                /\ LaidOut /\ Loadable(Len(jobs))
Logging(us) == todo = <<PutLogged(us)>>

Submitting ==
    \E us :
       \/ \E p \in ProjectIds, u \in Nat, pin \in Pins :
             Bringing(p, u, pin, us) \/ Naming(p, u, pin, us)
       \/ \E pin \in Pins : Pinning(pin, us)
       \/ Queueing(us)
       \/ Logging(us)

\* A deletion cancels, waits, and removes files and rows of a project without
\* pending jobs.
Deleting(p) ==
    LET n == Len(todo)
    IN  /\ n >= 1 /\ todo[n] = PutGone(p)
        /\ n >= 2 => todo[n - 1] = PutTree(p)
        /\ n >= 3 => todo[n - 2] = PutAwait(p)
        /\ \A i \in 1..(n - 3) : \E j \in DOMAIN jobs : todo[i] = PutCancel(j)
        /\ n < 3 => PendingJobs(p) = {}

\* The deletion of one job: what takes something from it comes after it was
\* found to have ended.
CleaningWrite(td, i, j) ==
    /\ td[i].job = j
    /\ td[i].put \in {"stop", "owner", "ended", "unlink", "directory", "mark",
                      "erase"}
    /\ td[i].put = "ended" => td[i].wanted \subseteq Ended
    /\ td[i].put = "erase" => i + 1 \notin DOMAIN td
    /\ td[i].put \in {"unlink", "directory", "erase"} =>
          \/ jobs[j].status \in Ended
          \/ \E k \in 1..(i - 1) : k \in DOMAIN td /\ td[k].put = "ended"
Cleaning ==
    \E j \in DOMAIN jobs : \A i \in DOMAIN todo : CleaningWrite(todo, i, j)

Listed(td) == td \in Seq({td[i] : i \in DOMAIN td})
TodoFits == \/ Configuring \/ Submitting \/ Cleaning
            \/ \E p \in ProjectIds : Deleting(p)

\* The statuses that a project that was refreshed last would show.
Found(p) == StatusesOf(jobs, p) \cup dropped[p]

\* What the worker is about to show of a finished project is what follows
\* from its jobs, unless something overtook it.
RefreshIsCurrent ==
    \A p \in ProjectIds \ overtaken :
       Refreshing(p) /\ Shown(p) /\ PendingJobs(p) = {}
          => worker.seen = Derived(Found(p))

Standing == /\ Configured
            /\ Rows
            /\ JobsHaveProjects
            /\ Videos
            /\ WorkerRuns
            /\ ActiveJobsAreRunnable
            /\ FinishedProjectIsShown
            /\ RefreshIsCurrent

IInv == Standing /\ Listed(todo) /\ TodoFits

-----------------------------------------------------------------------------
(* Sequences and sets.                                                     *)

\* What is left after the first element.
LEMMA TailStep ==
    ASSUME NEW S, NEW s \in Seq(S), s # <<>>
    PROVE  /\ Tail(s) \in Seq(S)
           /\ Len(s) \in Nat /\ Len(s) >= 1
           /\ Len(Tail(s)) = Len(s) - 1
           /\ DOMAIN s = 1..Len(s)
           /\ DOMAIN Tail(s) = 1..(Len(s) - 1)
           /\ \A i \in 1..(Len(s) - 1) : Tail(s)[i] = s[i + 1]
           /\ Head(s) = s[1]
OBVIOUS

\* A sequence over any set is one over its own elements.
LEMMA SeqOfItself ==
    ASSUME NEW S, NEW s \in Seq(S)
    PROVE  Listed(s)
<1>1. s = [i \in 1..Len(s) |-> s[i]] /\ Len(s) \in Nat /\ DOMAIN s = 1..Len(s)
  OBVIOUS
<1> QED  BY <1>1 DEF Listed

\* Short sequences written out.
LEMMA ShortSeqs ==
    ASSUME NEW a, NEW b, NEW c
    PROVE  /\ <<>> \in Seq({a, b, c}) /\ Len(<<>>) = 0
           /\ <<a>> \in Seq({a, b, c}) /\ Len(<<a>>) = 1 /\ <<a>>[1] = a
           /\ <<a, b>> \in Seq({a, b, c}) /\ Len(<<a, b>>) = 2
           /\ <<a, b>>[1] = a /\ <<a, b>>[2] = b
           /\ <<a, b, c>> \in Seq({a, b, c}) /\ Len(<<a, b, c>>) = 3
           /\ <<a, b, c>>[1] = a /\ <<a, b, c>>[2] = b /\ <<a, b, c>>[3] = c
OBVIOUS

\* A set with one member, or of equal elements only, counts one at most.
LEMMA OnlyMember ==
    ASSUME NEW S, NEW x \in S, \A y \in S : y = x
    PROVE  IsFiniteSet(S) /\ Cardinality(S) = 1
<1>1. S = {x}  OBVIOUS
<1>2. IsFiniteSet({x}) /\ Cardinality({x}) = 1  BY FS_Singleton
<1> QED  BY <1>1, <1>2

LEMMA AtMostOne ==
    ASSUME NEW S, \A x, y \in S : x = y
    PROVE  IsFiniteSet(S) /\ Cardinality(S) <= 1
<1>1. CASE S = {}  BY <1>1, FS_EmptySet
<1>2. CASE S # {}
  <2> PICK x \in S : TRUE  BY <1>2
  <2>1. \A y \in S : y = x  OBVIOUS
  <2> QED  BY <2>1, OnlyMember
<1> QED  BY <1>1, <1>2

\* A set of numbers that is not empty has a least one.
LEMMA LeastNumber ==
    ASSUME NEW S, S \subseteq Nat, S # {}
    PROVE  \E i \in S : \A j \in S : i <= j
<1>1. PICK i \in S : \A j \in S : <<j, i>> \notin OpToRel(<, Nat)
  BY NatLessThanWellFounded, WFMin
<1>2. \A j \in S : ~ (j < i)
  BY <1>1 DEF OpToRel
<1> QED  BY <1>2

\* The elements of a finite set in some order, each once.
LEMMA SetToSeqLists ==
    ASSUME NEW S, IsFiniteSet(S)
    PROVE  /\ Cardinality(S) \in Nat
           /\ SetToSeq(S) \in [1..Cardinality(S) -> S]
           /\ \A i, k \in 1..Cardinality(S) :
                 SetToSeq(S)[i] = SetToSeq(S)[k] => i = k
<1>1. Cardinality(S) \in Nat /\ ExistsBijection(1..Cardinality(S), S)
  BY FS_CardinalityType
<1>2. PICK f \in [1..Cardinality(S) -> S] : IsInjective(f)
  BY <1>1 DEF ExistsBijection, Bijection, Injection
<1>3. SetToSeq(S) \in [1..Cardinality(S) -> S] /\ IsInjective(SetToSeq(S))
  BY <1>2 DEF SetToSeq
<1>4. DOMAIN SetToSeq(S) = 1..Cardinality(S)
  BY <1>3
<1> QED  BY <1>1, <1>3, <1>4 DEF IsInjective

-----------------------------------------------------------------------------
(* Lists of profiles.                                                      *)

\* Identifiers are given out once: the next one is no profile's.
LEMMA IdsAreFresh ==
    ASSUME NEW n \in Nat, NEW ps, ProfileRows(ps, n)
    PROVE  /\ ProfileRows(ps, n + 1)
           /\ \A i \in DOMAIN ps : ps[i].id # n + 1
BY ProvidersAssumption DEF ProfileRows

\* _clear_profile_default: the rows stay, none of the capability is default.
LEMMA WithoutDefaultRows ==
    ASSUME NEW n, NEW ps, ProfileRows(ps, n), NEW cap
    PROVE  /\ ProfileRows(WithoutDefault(ps, cap), n)
           /\ DOMAIN WithoutDefault(ps, cap) = DOMAIN ps
           /\ Len(WithoutDefault(ps, cap)) = Len(ps)
           /\ \A i \in DOMAIN ps :
                 /\ WithoutDefault(ps, cap)[i].cap = ps[i].cap
                 /\ WithoutDefault(ps, cap)[i].default
                       <=> ps[i].default /\ ps[i].cap # cap
<1> DEFINE row(i) == IF ps[i].cap = cap THEN [ps[i] EXCEPT !.default = FALSE]
                                        ELSE ps[i]
<1>1. /\ Len(ps) \in Nat /\ DOMAIN ps = 1..Len(ps)
      /\ \A i \in DOMAIN ps : ps[i] \in ProfileRow
  BY DEF ProfileRows
<1>2. WithoutDefault(ps, cap) = [i \in 1..Len(ps) |-> row(i)]
  BY <1>1 DEF WithoutDefault
<1>3. \A i \in DOMAIN ps : /\ row(i) \in ProfileRow
                           /\ row(i).id = ps[i].id /\ row(i).cap = ps[i].cap
                           /\ row(i).default <=> ps[i].default /\ ps[i].cap # cap
  BY <1>1 DEF ProfileRow
<1> HIDE DEF row
<1>4. /\ WithoutDefault(ps, cap) \in Seq(ProfileRow)
      /\ Len(WithoutDefault(ps, cap)) = Len(ps)
      /\ DOMAIN WithoutDefault(ps, cap) = DOMAIN ps
      /\ \A i \in DOMAIN ps : WithoutDefault(ps, cap)[i] = row(i)
  BY <1>1, <1>2, <1>3
<1> QED  BY <1>1, <1>3, <1>4 DEF ProfileRows

\* _ensure_profile_default: the rows stay, at most one default stays, and
\* there is one.
LEMMA WithDefaultRows ==
    ASSUME NEW n, NEW ps, ProfileRows(ps, n), NEW cap
    PROVE  /\ ProfileRows(WithDefault(ps, cap), n)
           /\ DOMAIN WithDefault(ps, cap) = DOMAIN ps
           /\ \A i \in DOMAIN ps :
                 /\ WithDefault(ps, cap)[i].cap = ps[i].cap
                 /\ ps[i].cap # cap =>
                       WithDefault(ps, cap)[i].default = ps[i].default
           /\ HasDefault(WithDefault(ps, cap), cap)
           /\ AtMostOneDefault(ps, cap)
                 => AtMostOneDefault(WithDefault(ps, cap), cap)
<1>1. /\ Len(ps) \in Nat /\ DOMAIN ps = 1..Len(ps)
      /\ \A i \in DOMAIN ps : ps[i] \in ProfileRow
  BY DEF ProfileRows
<1>2. CASE Uses(ps, cap) = {} \/ \E i \in Uses(ps, cap) : ps[i].default
  <2>1. WithDefault(ps, cap) = ps  BY <1>2 DEF WithDefault
  <2> QED  BY <1>2, <2>1 DEF HasDefault
<1>3. CASE ~ (Uses(ps, cap) = {} \/ \E i \in Uses(ps, cap) : ps[i].default)
  <2> DEFINE first == CHOOSE i \in Uses(ps, cap) :
                         \A j \in Uses(ps, cap) : i <= j
             r == [ps[first] EXCEPT !.default = TRUE]
  <2>1. Uses(ps, cap) \subseteq Nat  BY <1>1 DEF Uses
  <2>2. \E i \in Uses(ps, cap) : \A j \in Uses(ps, cap) : i <= j
    BY <2>1, <1>3, LeastNumber
  <2>3. first \in Uses(ps, cap)  BY <2>2
  <2>4. WithDefault(ps, cap) = [ps EXCEPT ![first].default = TRUE]
    BY <1>3, Zenon DEF WithDefault
  <2> HIDE DEF first
  <2>5. first \in DOMAIN ps /\ ps[first].cap = cap  BY <2>3 DEF Uses
  <2>6. r \in ProfileRow /\ r.id = ps[first].id /\ r.cap = cap /\ r.default = TRUE
    BY <1>1, <2>5 DEF ProfileRow
  <2> HIDE DEF r
  <2>7. WithDefault(ps, cap) = [ps EXCEPT ![first] = r]
    BY <2>4 DEF r
  <2>8. /\ WithDefault(ps, cap) \in Seq(ProfileRow)
        /\ DOMAIN WithDefault(ps, cap) = DOMAIN ps
        /\ \A i \in DOMAIN ps :
              WithDefault(ps, cap)[i] = IF i = first THEN r ELSE ps[i]
    BY <1>1, <2>5, <2>6, <2>7 DEF ProfileRows
  <2>9. ProfileRows(WithDefault(ps, cap), n)
    BY <2>5, <2>6, <2>8 DEF ProfileRows
  <2>10. Uses(WithDefault(ps, cap), cap) = Uses(ps, cap)
    BY <2>5, <2>6, <2>8 DEF Uses
  <2>11. HasDefault(WithDefault(ps, cap), cap)
    BY <2>3, <2>5, <2>6, <2>8, <2>10 DEF HasDefault
  <2>12. AtMostOneDefault(WithDefault(ps, cap), cap)
    <3> SUFFICES ASSUME NEW i \in Uses(ps, cap),
                        WithDefault(ps, cap)[i].default
                 PROVE  i = first
      BY <2>10 DEF AtMostOneDefault
    <3>1. i \in DOMAIN ps  BY DEF Uses
    <3> QED  BY <1>3, <2>8, <3>1
  <2> QED  BY <2>5, <2>6, <2>8, <2>9, <2>11, <2>12
<1> QED  BY <1>2, <1>3

\* create_provider_profile leaves one default for each capability.
LEMMA CreatedIsGood ==
    ASSUME NEW n \in Nat, n + 1 \in 1..MaxProfiles, NEW ps, GoodProfiles(ps, n),
           NEW cap \in Capabilities, NEW wanted \in BOOLEAN
    PROVE  LET new == [id |-> n + 1, cap |-> cap, kind |-> n + 1,
                       default |-> wanted \/ Uses(ps, cap) = {}]
               others == IF new.default THEN WithoutDefault(ps, cap) ELSE ps
           IN  GoodProfiles(Append(others, new), n + 1)
<1> DEFINE d == wanted \/ Uses(ps, cap) = {}
           new == [id |-> n + 1, cap |-> cap, kind |-> n + 1, default |-> d]
           others == IF d THEN WithoutDefault(ps, cap) ELSE ps
           qs == Append(others, new)
<1>1. /\ new \in ProfileRow /\ new.id = n + 1 /\ new.cap = cap
      /\ new.default = d /\ d \in BOOLEAN
  BY DEF ProfileRow, Kinds
<1> HIDE DEF new
<1>2. ProfileRows(ps, n) /\ DOMAIN ps = 1..Len(ps) /\ Len(ps) \in Nat
  BY DEF GoodProfiles, ProfileRows
<1>3. /\ ProfileRows(others, n)
      /\ DOMAIN others = DOMAIN ps
      /\ \A i \in DOMAIN ps :
            /\ others[i].cap = ps[i].cap
            /\ others[i].default <=> ps[i].default /\ ~ (d /\ ps[i].cap = cap)
  <2>1. CASE d  BY <2>1, <1>2, WithoutDefaultRows
  <2>2. CASE ~ d  BY <2>2, <1>2
  <2> QED  BY <2>1, <2>2
<1> HIDE DEF others
<1>4. /\ qs \in Seq(ProfileRow) /\ Len(qs) = Len(ps) + 1
      /\ DOMAIN qs = 1..(Len(ps) + 1)
      /\ \A i \in DOMAIN ps : qs[i] = others[i]
      /\ qs[Len(ps) + 1] = new
  <2>1. others \in Seq(ProfileRow) /\ Len(others) = Len(ps)
    BY <1>2, <1>3 DEF ProfileRows
  <2> QED  BY <2>1, <1>1, <1>2, <1>3
<1> HIDE DEF qs
<1>5. ProfileRows(others, n + 1) /\ \A i \in DOMAIN ps : others[i].id # n + 1
  BY <1>3, IdsAreFresh
<1>6. ProfileRows(qs, n + 1)
  BY <1>1, <1>2, <1>3, <1>4, <1>5 DEF ProfileRows
<1>7. ASSUME NEW c \in Capabilities
      PROVE  AtMostOneDefault(qs, c) /\ HasDefault(qs, c)
  <2>1. AtMostOneDefault(ps, c) /\ HasDefault(ps, c)  BY DEF GoodProfiles
  <2>2. /\ Uses(qs, c) \subseteq DOMAIN ps \cup {Len(ps) + 1}
        /\ \A i \in DOMAIN ps : i \in Uses(qs, c) <=> i \in Uses(ps, c)
        /\ Len(ps) + 1 \in Uses(qs, c) <=> c = cap
    BY <1>1, <1>2, <1>3, <1>4 DEF Uses
  <2>3. \A i \in Uses(ps, c) : i \in DOMAIN ps /\ ps[i].cap = c
    BY DEF Uses
  <2>4. \A i \in Uses(ps, c) : qs[i].default <=> ps[i].default /\ ~ (d /\ c = cap)
    BY <1>3, <1>4, <2>3
  <2>5. CASE c # cap
    <3>1. Uses(qs, c) = Uses(ps, c)  BY <2>2, <2>3, <2>5
    <3> QED  BY <2>1, <2>4, <2>5, <3>1 DEF AtMostOneDefault, HasDefault
  <2>6. CASE c = cap /\ d
    <3>1. \A i \in Uses(qs, c) : qs[i].default => i = Len(ps) + 1
      BY <2>2, <2>4, <2>6
    <3> QED  BY <1>1, <1>4, <2>2, <2>6, <3>1 DEF AtMostOneDefault, HasDefault
  <2>7. CASE c = cap /\ ~ d
    <3>1. Uses(ps, c) # {}  BY <2>7
    <3>2. ~ qs[Len(ps) + 1].default  BY <1>1, <1>4, <2>7
    <3>3. \A i \in Uses(qs, c) :
             qs[i].default <=> i \in Uses(ps, c) /\ ps[i].default
      BY <2>2, <2>4, <2>7, <3>2
    <3> QED  BY <2>1, <2>2, <2>3, <3>1, <3>3 DEF AtMostOneDefault, HasDefault
  <2> QED  BY <2>5, <2>6, <2>7
<1>8. GoodProfiles(qs, n + 1)  BY <1>6, <1>7 DEF GoodProfiles
<1> QED  BY <1>8 DEF qs, others, new

\* A list that differs in the rows of one capability only is as good for the
\* others.
LEMMA OtherCapabilities ==
    ASSUME NEW ps, NEW qs, NEW cap, NEW c, c # cap,
           DOMAIN qs = DOMAIN ps,
           \A i \in DOMAIN ps : /\ qs[i].cap = ps[i].cap
                                /\ ps[i].cap # cap => qs[i].default = ps[i].default
    PROVE  /\ AtMostOneDefault(ps, c) => AtMostOneDefault(qs, c)
           /\ HasDefault(ps, c) => HasDefault(qs, c)
<1>1. Uses(qs, c) = Uses(ps, c)  BY DEF Uses
<1>2. \A i \in Uses(ps, c) : qs[i].default = ps[i].default  BY DEF Uses
<1> QED  BY <1>1, <1>2 DEF AtMostOneDefault, HasDefault

\* patch_provider_profile leaves one default for each capability.
LEMMA PatchedIsGood ==
    ASSUME NEW n \in 0..MaxProfiles, NEW ps, GoodProfiles(ps, n),
           NEW i \in DOMAIN ps, NEW default \in BOOLEAN,
           NEW credential \in {"keep", "new", "clear"}
    PROVE  LET p == Patched(ps[i], default, credential)
               others == IF p.default THEN WithoutDefault(ps, p.cap) ELSE ps
           IN  /\ p.kind \in Kinds
               /\ GoodProfiles(WithDefault([others EXCEPT ![i] = p], p.cap), n)
<1> DEFINE p == Patched(ps[i], default, credential)
           cap == ps[i].cap
           others == IF default THEN WithoutDefault(ps, cap) ELSE ps
           qs == [others EXCEPT ![i] = p]
           rs == WithDefault(qs, cap)
<1>1. /\ ProfileRows(ps, n) /\ ps[i] \in ProfileRow
      /\ DOMAIN ps = 1..Len(ps) /\ Len(ps) \in Nat
  BY DEF GoodProfiles, ProfileRows
<1>2. /\ p \in ProfileRow /\ p.id = ps[i].id /\ p.cap = cap
      /\ p.default = default /\ p.kind \in Kinds
  BY <1>1 DEF ProfileRow, Patched
<1> HIDE DEF p
<1>3. /\ ProfileRows(others, n)
      /\ DOMAIN others = DOMAIN ps
      /\ \A k \in DOMAIN ps :
            /\ others[k].id = ps[k].id
            /\ others[k].cap = ps[k].cap
            /\ others[k].default <=> ps[k].default /\ ~ (default /\ ps[k].cap = cap)
            /\ ps[k].cap # cap => others[k] = ps[k]
  <2>1. CASE default
    <3>1. \A k \in DOMAIN ps :
             /\ WithoutDefault(ps, cap)[k].id = ps[k].id
             /\ ps[k].cap # cap => WithoutDefault(ps, cap)[k] = ps[k]
      BY <1>1 DEF WithoutDefault, ProfileRows, ProfileRow
    <3> QED  BY <2>1, <3>1, <1>1, WithoutDefaultRows
  <2>2. CASE ~ default  BY <2>2, <1>1
  <2> QED  BY <2>1, <2>2
<1> HIDE DEF others
<1>4. /\ qs \in Seq(ProfileRow) /\ DOMAIN qs = DOMAIN ps
      /\ \A k \in DOMAIN ps : qs[k] = IF k = i THEN p ELSE others[k]
  BY <1>1, <1>2, <1>3 DEF ProfileRows
<1> HIDE DEF qs
<1>5. /\ \A k \in DOMAIN ps : qs[k].id = ps[k].id /\ qs[k].cap = ps[k].cap
      /\ \A k \in DOMAIN ps : ps[k].cap # cap => qs[k].default = ps[k].default
  <2>1. \A k \in DOMAIN ps : ps[k].cap # cap => k # i  OBVIOUS
  <2> QED  BY <1>2, <1>3, <1>4, <2>1
<1>6. ProfileRows(qs, n)
  BY <1>1, <1>4, <1>5 DEF ProfileRows
<1>7. /\ ProfileRows(rs, n)
      /\ DOMAIN rs = DOMAIN qs
      /\ \A k \in DOMAIN qs : /\ rs[k].cap = qs[k].cap
                              /\ qs[k].cap # cap => rs[k].default = qs[k].default
      /\ HasDefault(rs, cap)
      /\ AtMostOneDefault(qs, cap) => AtMostOneDefault(rs, cap)
  BY <1>6, WithDefaultRows
<1> HIDE DEF rs
<1>8. AtMostOneDefault(qs, cap)
  <2>1. AtMostOneDefault(ps, cap)  BY <1>1 DEF GoodProfiles, ProfileRow
  <2>2. Uses(qs, cap) = Uses(ps, cap)  BY <1>4, <1>5 DEF Uses
  <2>3. \A k \in Uses(ps, cap) : k \in DOMAIN ps /\ ps[k].cap = cap
    BY DEF Uses
  <2>4. \A k \in Uses(ps, cap) :
           qs[k].default => IF default THEN k = i ELSE ps[k].default
    BY <1>2, <1>3, <1>4, <2>3
  <2> QED  BY <2>1, <2>2, <2>4 DEF AtMostOneDefault
<1>9. ASSUME NEW c \in Capabilities
      PROVE  AtMostOneDefault(rs, c) /\ HasDefault(rs, c)
  <2>1. CASE c = cap  BY <2>1, <1>7, <1>8
  <2>2. CASE c # cap
    <3>1. AtMostOneDefault(ps, c) /\ HasDefault(ps, c)  BY DEF GoodProfiles
    <3>2. \A k \in DOMAIN ps :
             /\ qs[k].cap = ps[k].cap
             /\ ps[k].cap # cap => qs[k].default = ps[k].default
      BY <1>5
    <3>3. AtMostOneDefault(qs, c) /\ HasDefault(qs, c)
      BY <3>1, <3>2, <2>2, <1>4, OtherCapabilities
    <3>4. /\ DOMAIN rs = DOMAIN qs
          /\ \A k \in DOMAIN qs :
                /\ rs[k].cap = qs[k].cap
                /\ qs[k].cap # cap => rs[k].default = qs[k].default
      BY <1>7
    <3> QED  BY <3>3, <3>4, <2>2, OtherCapabilities, Zenon
  <2> QED  BY <2>1, <2>2
<1>10. GoodProfiles(rs, n)  BY <1>7, <1>9 DEF GoodProfiles
<1>11. p.cap = cap /\ p.default = default /\ p.kind \in Kinds  BY <1>2
<1>12. GoodProfiles(WithDefault([(IF p.default THEN WithoutDefault(ps, p.cap)
                                              ELSE ps) EXCEPT ![i] = p],
                                p.cap), n)
  BY <1>10, <1>11 DEF rs, qs, others
<1> QED  BY <1>11, <1>12 DEF p

\* delete_provider_profile leaves one default for each capability.
LEMMA DeletedIsGood ==
    ASSUME NEW n \in 0..MaxProfiles, NEW ps, GoodProfiles(ps, n),
           NEW i \in DOMAIN ps
    PROVE  /\ ps[i].kind \in Kinds
           /\ GoodProfiles(WithDefault(RemoveAt(ps, i), ps[i].cap), n)
<1> DEFINE cap == ps[i].cap
           qs == RemoveAt(ps, i)
           rs == WithDefault(qs, cap)
           from(k) == IF k < i THEN k ELSE k + 1
           before == SubSeq(ps, 1, i - 1)
           after == SubSeq(ps, i + 1, Len(ps))
<1>1. /\ ProfileRows(ps, n) /\ ps[i] \in ProfileRow /\ ps \in Seq(ProfileRow)
      /\ DOMAIN ps = 1..Len(ps) /\ Len(ps) \in Nat /\ i \in 1..Len(ps)
  BY DEF GoodProfiles, ProfileRows
<1>2. /\ qs \in Seq(ProfileRow) /\ Len(qs) = Len(ps) - 1
      /\ DOMAIN qs = 1..(Len(ps) - 1)
      /\ \A k \in DOMAIN qs : qs[k] = ps[from(k)]
  <2>1. /\ before \in Seq(ProfileRow) /\ Len(before) = i - 1
        /\ \A k \in 1..(i - 1) : before[k] = ps[k]
    BY <1>1
  <2>2. /\ after \in Seq(ProfileRow) /\ Len(after) = Len(ps) - i
        /\ \A k \in 1..(Len(ps) - i) : after[k] = ps[k + i]
    BY <1>1
  <2> HIDE DEF before, after
  <2>3. /\ before \o after \in Seq(ProfileRow)
        /\ Len(before \o after) = Len(ps) - 1
        /\ \A k \in 1..(Len(ps) - 1) :
              (before \o after)[k] = IF k <= i - 1 THEN before[k]
                                     ELSE after[k - (i - 1)]
    <3>1. /\ before \o after \in Seq(ProfileRow)
          /\ Len(before \o after) = Len(before) + Len(after)
          /\ \A k \in 1..(Len(before) + Len(after)) :
                (before \o after)[k] = IF k <= Len(before) THEN before[k]
                                       ELSE after[k - Len(before)]
      BY <2>1, <2>2, ConcatProperties
    <3>2. Len(before) + Len(after) = Len(ps) - 1
      BY <1>1, <2>1, <2>2
    <3> QED  BY <3>1, <3>2, <2>1
  <2>4. qs = before \o after  BY DEF RemoveAt, before, after
  <2>5. \A k \in 1..(Len(ps) - 1) :
           (before \o after)[k] = ps[IF k < i THEN k ELSE k + 1]
    <3> TAKE k \in 1..(Len(ps) - 1)
    <3>1. CASE k < i  BY <3>1, <1>1, <2>1, <2>3
    <3>2. CASE ~ (k < i)
      <4>1. k - (i - 1) \in 1..(Len(ps) - i) /\ (k - (i - 1)) + i = k + 1
        BY <3>2, <1>1
      <4>2. after[k - (i - 1)] = ps[k + 1]  BY <4>1, <2>2
      <4>3. ~ (k <= i - 1)  BY <3>2, <1>1
      <4> QED  BY <2>3, <4>2, <4>3, <3>2
    <3> QED  BY <3>1, <3>2
  <2>6. DOMAIN (before \o after) = 1..(Len(ps) - 1)
    BY <2>3, <1>1
  <2> QED  BY <2>3, <2>4, <2>5, <2>6
<1> HIDE DEF qs
<1>3. /\ \A k \in DOMAIN qs : from(k) \in DOMAIN ps /\ from(k) # i
      /\ \A j, k \in DOMAIN qs : from(j) = from(k) => j = k
      /\ \A k \in DOMAIN ps : k # i => \E j \in DOMAIN qs : from(j) = k
  <2>1. ASSUME NEW k \in DOMAIN ps, k # i
        PROVE  \E j \in DOMAIN qs : from(j) = k
    <3>1. CASE k < i
      <4>1. k \in DOMAIN qs /\ from(k) = k  BY <1>1, <1>2, <3>1
      <4> QED  BY <4>1
    <3>2. CASE ~ (k < i)
      <4>1. k - 1 \in DOMAIN qs /\ from(k - 1) = k  BY <1>1, <1>2, <2>1, <3>2
      <4> QED  BY <4>1
    <3> QED  BY <3>1, <3>2
  <2>2. /\ \A k \in DOMAIN qs : from(k) \in DOMAIN ps /\ from(k) # i
        /\ \A j, k \in DOMAIN qs : from(j) = from(k) => j = k
    BY <1>1, <1>2
  <2> QED  BY <2>1, <2>2
<1> HIDE DEF from
<1>4. ProfileRows(qs, n)
  BY <1>1, <1>2, <1>3 DEF ProfileRows
<1>5. \A c : /\ AtMostOneDefault(ps, c) => AtMostOneDefault(qs, c)
             /\ c # cap /\ HasDefault(ps, c) => HasDefault(qs, c)
  <2> TAKE c
  <2>1. \A k \in Uses(qs, c) : /\ k \in DOMAIN qs /\ from(k) \in Uses(ps, c)
                               /\ qs[k].default = ps[from(k)].default
    BY <1>2, <1>3 DEF Uses
  <2>2. \A k \in Uses(ps, c) :
           c # cap => \E j \in Uses(qs, c) : /\ from(j) = k
                                             /\ qs[j].default = ps[k].default
    BY <1>2, <1>3 DEF Uses
  <2>3. AtMostOneDefault(ps, c) => AtMostOneDefault(qs, c)
    BY <2>1, <1>3 DEF AtMostOneDefault
  <2>4. c # cap /\ HasDefault(ps, c) => HasDefault(qs, c)
    BY <2>1, <2>2 DEF HasDefault
  <2> QED  BY <2>3, <2>4
<1>6. /\ ProfileRows(rs, n)
      /\ DOMAIN rs = DOMAIN qs
      /\ \A k \in DOMAIN qs : /\ rs[k].cap = qs[k].cap
                              /\ qs[k].cap # cap => rs[k].default = qs[k].default
      /\ HasDefault(rs, cap)
      /\ AtMostOneDefault(qs, cap) => AtMostOneDefault(rs, cap)
  BY <1>4, WithDefaultRows
<1> HIDE DEF rs
<1>7. ASSUME NEW c \in Capabilities
      PROVE  AtMostOneDefault(rs, c) /\ HasDefault(rs, c)
  <2>1. AtMostOneDefault(ps, c) /\ HasDefault(ps, c)  BY DEF GoodProfiles
  <2>2. CASE c = cap  BY <2>1, <2>2, <1>5, <1>6
  <2>3. CASE c # cap
    <3>1. AtMostOneDefault(qs, c) /\ HasDefault(qs, c)
      BY <2>1, <2>3, <1>5
    <3> QED  BY <3>1, <2>3, <1>6, OtherCapabilities
  <2> QED  BY <2>2, <2>3
<1>8. GoodProfiles(rs, n)  BY <1>6, <1>7 DEF GoodProfiles
<1>9. ps[i].kind \in Kinds  BY <1>1 DEF ProfileRow
<1> QED  BY <1>8, <1>9 DEF rs, qs

\* What is migrated at the first start is the default of its capability.
LEMMA MigratedIsGood ==
    ASSUME NEW n \in Nat, NEW configured \in SUBSET Capabilities
    PROVE  LET caps == SetToSeq(configured)
           IN  GoodProfiles([i \in DOMAIN caps |-> Migrated(caps[i])], n)
<1> DEFINE caps == SetToSeq(configured)
           size == Cardinality(configured)
           ps == [i \in DOMAIN caps |-> Migrated(caps[i])]
<1>1. IsFiniteSet(configured)
  BY ProvidersAssumption, FS_Subset
<1>2. /\ size \in Nat /\ caps \in [1..size -> configured]
      /\ \A i, k \in 1..size : caps[i] = caps[k] => i = k
  BY <1>1, SetToSeqLists
<1> HIDE DEF caps, size
<1>3. \A i \in 1..size : caps[i] \in Capabilities
  BY <1>2
<1>4. \A c \in Capabilities : Migrated(c) \in ProfileRow
  BY DEF Migrated, ProfileRow, Kinds
<1>5. /\ ps \in Seq(ProfileRow) /\ DOMAIN ps = 1..size
      /\ \A i \in 1..size : ps[i] = Migrated(caps[i])
  BY <1>2, <1>3, <1>4
<1> HIDE DEF ps
<1>6. \A i \in 1..size : /\ ps[i].id = caps[i] /\ ps[i].cap = caps[i]
                         /\ ps[i].default = TRUE
  BY <1>5 DEF Migrated
<1>7. ProfileRows(ps, n)
  BY <1>2, <1>3, <1>5, <1>6 DEF ProfileRows
<1>8. ASSUME NEW c \in Capabilities
      PROVE  AtMostOneDefault(ps, c) /\ HasDefault(ps, c)
  BY <1>2, <1>5, <1>6 DEF AtMostOneDefault, HasDefault, Uses
<1>9. GoodProfiles(ps, n)  BY <1>7, <1>8 DEF GoodProfiles
<1> QED  BY <1>9 DEF ps, caps

\* A profile more or less says nothing about the number of those given out.
LEMMA GoodLater ==
    ASSUME NEW n \in Nat, NEW ps, GoodProfiles(ps, n)
    PROVE  GoodProfiles(ps, n + 1)
BY IdsAreFresh DEF GoodProfiles

-----------------------------------------------------------------------------
(* Credentials and cookies.                                                *)

\* What a superseding leaves of the credentials.
LEMMA SupersededRows ==
    ASSUME GoodSecrets(secrets), NEW kind
    PROVE  /\ GoodSecrets(Superseded(kind))
           /\ Len(Superseded(kind)) = Len(secrets)
           /\ DOMAIN Superseded(kind) = DOMAIN secrets
           /\ \A n \in DOMAIN secrets :
                 /\ Superseded(kind)[n].kind = secrets[n].kind
                 /\ Superseded(kind)[n].active => secrets[n].kind # kind
<1> DEFINE row(n) == IF secrets[n].kind = kind
                     THEN [secrets[n] EXCEPT !.active = FALSE] ELSE secrets[n]
<1>1. /\ Len(secrets) \in Nat /\ DOMAIN secrets = 1..Len(secrets)
      /\ \A n \in DOMAIN secrets : secrets[n] \in SecretRow
  BY DEF GoodSecrets
<1>2. Superseded(kind) = [n \in 1..Len(secrets) |-> row(n)]
  BY <1>1 DEF Superseded
<1>3. \A n \in DOMAIN secrets :
         /\ row(n) \in SecretRow /\ row(n).kind = secrets[n].kind
         /\ row(n).active => secrets[n].active /\ secrets[n].kind # kind
  BY <1>1 DEF SecretRow
<1> HIDE DEF row
<1>4. /\ Superseded(kind) \in Seq(SecretRow)
      /\ Len(Superseded(kind)) = Len(secrets)
      /\ DOMAIN Superseded(kind) = DOMAIN secrets
      /\ \A n \in DOMAIN secrets : Superseded(kind)[n] = row(n)
  BY <1>1, <1>2, <1>3
<1> QED  BY <1>1, <1>3, <1>4 DEF GoodSecrets

\* create_provider_secret: the new credential is the active one of its kind.
LEMMA StoredSecret ==
    ASSUME GoodSecrets(secrets), NEW kind \in Kinds, Len(secrets) < MaxSecrets
    PROVE  /\ GoodSecrets(Append(Superseded(kind),
                                 [kind |-> kind, active |-> TRUE]))
           /\ \A n \in DOMAIN secrets :
                 /\ n \in DOMAIN Append(Superseded(kind),
                                        [kind |-> kind, active |-> TRUE])
                 /\ Append(Superseded(kind), [kind |-> kind, active |-> TRUE])[n].kind
                       = secrets[n].kind
<1> DEFINE old == Superseded(kind)
           new == [kind |-> kind, active |-> TRUE]
           rows == Append(old, new)
<1>1. /\ GoodSecrets(old) /\ Len(old) = Len(secrets)
      /\ DOMAIN old = DOMAIN secrets
      /\ \A n \in DOMAIN secrets : /\ old[n].kind = secrets[n].kind
                                   /\ old[n].active => old[n].kind # kind
  BY SupersededRows
<1>2. new \in SecretRow /\ new.kind = kind  BY DEF SecretRow
<1> HIDE DEF old, new
<1>3. /\ old \in Seq(SecretRow) /\ Len(old) \in Nat /\ DOMAIN old = 1..Len(old)
  BY <1>1 DEF GoodSecrets
<1>4. /\ rows \in Seq(SecretRow) /\ Len(rows) = Len(secrets) + 1
      /\ DOMAIN rows = 1..(Len(secrets) + 1)
      /\ \A n \in DOMAIN secrets : rows[n] = old[n]
      /\ rows[Len(secrets) + 1] = new
  BY <1>1, <1>2, <1>3
<1> HIDE DEF rows
<1>5. Cardinality(Capabilities) \in Nat /\ MaxSecrets \in Nat
  BY ProvidersAssumption, FS_CardinalityType
<1>6. Len(secrets) + 1 <= MaxSecrets + Cardinality(Capabilities)
  BY <1>1, <1>3, <1>5
<1>7. \A m, n \in DOMAIN rows :
         rows[m].active /\ rows[n].active /\ rows[m].kind = rows[n].kind => m = n
  BY <1>1, <1>2, <1>3, <1>4 DEF GoodSecrets
<1>8. GoodSecrets(rows)  BY <1>4, <1>6, <1>7 DEF GoodSecrets
<1>9. \A n \in DOMAIN secrets : n \in DOMAIN rows /\ rows[n].kind = secrets[n].kind
  BY <1>1, <1>3, <1>4
<1> QED  BY <1>8, <1>9 DEF rows, old, new

\* clear_default_cookie_for_user: the rows stay, none is the default.
LEMMA NoDefaultRows ==
    ASSUME GoodCookies(cookies)
    PROVE  /\ GoodCookies(NoDefault)
           /\ Len(NoDefault) = Len(cookies)
           /\ DOMAIN NoDefault = DOMAIN cookies
           /\ \A n \in DOMAIN cookies : NoDefault[n] # "default"
<1>1. /\ Len(cookies) \in Nat /\ DOMAIN cookies = 1..Len(cookies)
  BY DEF GoodCookies
<1>2. NoDefault = [n \in 1..Len(cookies) |->
                      IF cookies[n] # None THEN "plain" ELSE None]
  BY <1>1 DEF NoDefault, Stored
<1>3. /\ NoDefault \in Seq({"plain", "default", None})
      /\ Len(NoDefault) = Len(cookies)
      /\ DOMAIN NoDefault = DOMAIN cookies
      /\ \A n \in DOMAIN cookies : NoDefault[n] # "default"
  BY <1>1, <1>2, ProvidersAssumption
<1> QED  BY <1>3 DEF GoodCookies

\* The rows that the three handlers write have one default at most.
LEMMA WrittenCookies ==
    ASSUME GoodCookies(cookies), NEW default \in BOOLEAN
    PROVE  /\ GoodCookies(Append(Demoted(default), Flag(default)))
           /\ \A n \in DOMAIN cookies :
                 /\ GoodCookies([Demoted(default) EXCEPT ![n] = Flag(default)])
                 /\ GoodCookies([cookies EXCEPT ![n] = None])
<1> DEFINE rows == Demoted(default)
           f == Flag(default)
           Values == {"plain", "default", None}
<1>1. f \in Values /\ (f = "default" <=> default)  BY DEF Flag
<1>2. /\ GoodCookies(rows) /\ DOMAIN rows = DOMAIN cookies
      /\ default => \A n \in DOMAIN rows : rows[n] # "default"
  BY NoDefaultRows DEF Demoted
<1> HIDE DEF rows, f
<1>3. rows \in Seq(Values) /\ Len(rows) \in Nat /\ DOMAIN rows = 1..Len(rows)
  BY <1>2 DEF GoodCookies
<1>4. GoodCookies(Append(rows, f))
  <2>1. /\ Append(rows, f) \in Seq(Values)
        /\ DOMAIN Append(rows, f) = 1..(Len(rows) + 1)
        /\ \A n \in DOMAIN rows : Append(rows, f)[n] = rows[n]
        /\ Append(rows, f)[Len(rows) + 1] = f
    BY <1>1, <1>3
  <2> QED  BY <2>1, <1>1, <1>2, <1>3 DEF GoodCookies
<1>5. ASSUME NEW n \in DOMAIN cookies
      PROVE  GoodCookies([rows EXCEPT ![n] = f])
  <2>0. n \in DOMAIN rows  BY <1>2
  <2>1. /\ [rows EXCEPT ![n] = f] \in Seq(Values)
        /\ DOMAIN [rows EXCEPT ![n] = f] = DOMAIN rows
        /\ \A m \in DOMAIN rows :
              [rows EXCEPT ![n] = f][m] = IF m = n THEN f ELSE rows[m]
    BY <1>1, <1>3, <2>0
  <2> QED  BY <2>1, <1>1, <1>2 DEF GoodCookies
<1>6. ASSUME NEW n \in DOMAIN cookies
      PROVE  GoodCookies([cookies EXCEPT ![n] = None])
  <2>1. cookies \in Seq(Values)  BY DEF GoodCookies
  <2>2. /\ [cookies EXCEPT ![n] = None] \in Seq(Values)
        /\ DOMAIN [cookies EXCEPT ![n] = None] = DOMAIN cookies
        /\ \A m \in DOMAIN cookies :
              [cookies EXCEPT ![n] = None][m] = IF m = n THEN None ELSE cookies[m]
    BY <2>1
  <2> QED  BY <2>2, ProvidersAssumption DEF GoodCookies
<1> QED  BY <1>4, <1>5, <1>6 DEF rows, f

-----------------------------------------------------------------------------
(* The handlers that configure.                                            *)

\* One write, or two, that are good.
LEMMA WritesToCome ==
    ASSUME NEW a, NEW b, NEW stored, NEW n, ConfigWrite(b, FALSE, stored, n)
    PROVE  /\ Listed(<<b>>) /\ ConfigWrites(<<b>>, stored, n)
           /\ <<>> \o <<b>> = <<b>>
           /\ <<a>> \o <<b>> = <<a, b>>
           /\ ConfigWrite(a, TRUE, stored, n) =>
                 /\ Listed(<<a>>) /\ ConfigWrites(<<a>>, stored, n)
                 /\ Listed(<<a, b>>) /\ ConfigWrites(<<a, b>>, stored, n)
<1>1. ConfigWrite(b, TRUE, stored, n)  BY DEF ConfigWrite
<1>2. /\ Listed(<<a>>) /\ Listed(<<b>>) /\ Listed(<<a, b>>)
  <2>1. <<a>> \in Seq({a, b}) /\ <<b>> \in Seq({a, b}) /\ <<a, b>> \in Seq({a, b})
    OBVIOUS
  <2> QED  BY <2>1, SeqOfItself, Zenon
<1>3. /\ DOMAIN <<a>> = {1} /\ <<a>>[1] = a
      /\ DOMAIN <<b>> = {1} /\ <<b>>[1] = b
      /\ DOMAIN <<a, b>> = {1, 2} /\ <<a, b>>[1] = a /\ <<a, b>>[2] = b
  OBVIOUS
<1>4. /\ <<>> \o <<b>> = <<b>>
      /\ <<a>> \o <<b>> = <<a, b>>
  <2>1. <<b>> \in Seq({a, b}) /\ <<a>> \in Seq({a, b})  OBVIOUS
  <2>2. <<>> \o <<b>> = <<b>>  BY <2>1, ConcatEmptySeq
  <2>3. <<a>> \o <<b>> = <<a, b>>
    <3> DEFINE s == <<a>> \o <<b>>
               u == <<a, b>>
    <3>1. /\ Len(<<a>>) = 1 /\ <<a>>[1] = a /\ Len(<<b>>) = 1 /\ <<b>>[1] = b
          /\ u \in Seq({a, b}) /\ Len(u) = 2 /\ u[1] = a /\ u[2] = b
      OBVIOUS
    <3>2. /\ s \in Seq({a, b}) /\ Len(s) = Len(<<a>>) + Len(<<b>>)
          /\ \A i \in 1..(Len(<<a>>) + Len(<<b>>)) :
                s[i] = IF i <= Len(<<a>>) THEN <<a>>[i] ELSE <<b>>[i - Len(<<a>>)]
      BY <2>1, ConcatProperties, Zenon
    <3> HIDE DEF s, u
    <3>3. Len(s) = 2 /\ s[1] = a /\ s[2] = b
      <4>1. Len(s) = 2 /\ 1 \in 1..(Len(<<a>>) + Len(<<b>>))
            /\ 2 \in 1..(Len(<<a>>) + Len(<<b>>)) /\ 2 - Len(<<a>>) = 1
        BY <3>1, <3>2
      <4> QED  BY <3>1, <3>2, <4>1
    <3>4. \A i \in 1..2 : s[i] = u[i]
      BY <3>1, <3>3
    <3>5. s = [i \in 1..2 |-> s[i]]  BY <3>2, <3>3
    <3>6. u = [i \in 1..2 |-> u[i]]  BY <3>1
    <3>7. s = u  BY <3>4, <3>5, <3>6
    <3> QED  BY <3>7 DEF s, u
  <2> QED  BY <2>2, <2>3
<1> QED  BY <1>1, <1>2, <1>3, <1>4 DEF ConfigWrites

\* What each put writes.
LEMMA WriteForms ==
    ASSUME NEW first \in BOOLEAN, NEW stored, NEW n
    PROVE  /\ \A kind \in Kinds : /\ ConfigWrite(PutClear(kind), first, stored, n)
                                  /\ stored < MaxSecrets =>
                                        ConfigWrite(PutSecret(kind), TRUE, stored, n)
           /\ \A ps : GoodProfiles(ps, n) =>
                         ConfigWrite(PutProfiles(ps), first, stored, n)
           /\ \A rows : GoodCookies(rows) =>
                         ConfigWrite(PutCookies(rows), first, stored, n)
<1>1. /\ \A kind : /\ PutClear(kind).put = "clear" /\ PutClear(kind).kind = kind
                   /\ PutSecret(kind).put = "secret" /\ PutSecret(kind).kind = kind
      /\ \A ps : PutProfiles(ps).put = "profiles" /\ PutProfiles(ps).list = ps
      /\ \A rows : PutCookies(rows).put = "cookies" /\ PutCookies(rows).rows = rows
  BY DEF PutClear, PutSecret, PutProfiles, PutCookies
<1> QED  BY <1>1 DEF ConfigWrite

\* While the API serves requests there are good profiles.
LEMMA Serving ==
    ASSUME Configured, Idle
    PROVE  GoodProfiles(profiles, made) /\ made \in Nat /\ Len(secrets) \in Nat
BY DEF Configured, Idle, GoodSecrets

LEMMA CreateProfileStep ==
    ASSUME Configured, CreateProfile
    PROVE  Configured' /\ Listed(todo') /\ Configuring'
<1>1. /\ GoodProfiles(profiles, made) /\ made \in Nat /\ made + 1 \in 1..MaxProfiles
      /\ Len(secrets) \in Nat /\ made' = made + 1
      /\ UNCHANGED <<profiles, secrets, cookies, up>>
  BY Serving, ProvidersAssumption DEF CreateProfile, Configured
<1>2. GoodProfiles(profiles, made + 1)  BY <1>1, GoodLater
<1>3. Configured'
  BY <1>1, <1>2 DEF Configured
<1>4. PICK cap \in Capabilities, wanted \in BOOLEAN, credential \in BOOLEAN :
         LET new == [id |-> NewId, cap |-> cap, kind |-> NewId,
                     default |-> wanted \/ Uses(profiles, cap) = {}]
             others == IF new.default THEN WithoutDefault(profiles, cap)
                                      ELSE profiles
         IN  /\ credential => Len(secrets) < MaxSecrets
             /\ todo' = (IF credential THEN <<PutSecret(new.kind)>> ELSE <<>>)
                           \o <<PutProfiles(Append(others, new))>>
  BY DEF CreateProfile
<1> DEFINE new == [id |-> made + 1, cap |-> cap, kind |-> made + 1,
                   default |-> wanted \/ Uses(profiles, cap) = {}]
           others == IF new.default THEN WithoutDefault(profiles, cap)
                                    ELSE profiles
           list == Append(others, new)
<1>5. GoodProfiles(list, made + 1)
  BY <1>1, CreatedIsGood
<1>6. /\ credential => Len(secrets) < MaxSecrets
      /\ todo' = (IF credential THEN <<PutSecret(made + 1)>> ELSE <<>>)
                    \o <<PutProfiles(list)>>
  BY <1>4 DEF NewId
<1> HIDE DEF list
<1>7. ConfigWrite(PutProfiles(list), FALSE, Len(secrets), made + 1)
  BY <1>5, WriteForms
<1>8. made + 1 \in Kinds  BY <1>1 DEF Kinds
<1>9. CASE credential
  <2>1. ConfigWrite(PutSecret(made + 1), TRUE, Len(secrets), made + 1)
    BY <1>6, <1>8, <1>9, WriteForms
  <2>2. todo' = <<PutSecret(made + 1), PutProfiles(list)>>
    BY <1>6, <1>7, <1>9, WritesToCome
  <2>3. Listed(todo') /\ ConfigWrites(todo', Len(secrets), made + 1)
    BY <1>7, <2>1, <2>2, WritesToCome
  <2> QED  BY <1>1, <1>3, <2>3 DEF Configuring
<1>10. CASE ~ credential
  <2>1. todo' = <<PutProfiles(list)>>
    BY <1>6, <1>7, <1>10, WritesToCome
  <2>2. Listed(todo') /\ ConfigWrites(todo', Len(secrets), made + 1)
    BY <1>7, <2>1, WritesToCome
  <2> QED  BY <1>1, <1>3, <2>2 DEF Configuring
<1> QED  BY <1>9, <1>10

LEMMA PatchProfileStep ==
    ASSUME Configured, PatchProfile
    PROVE  Configured' /\ Listed(todo') /\ Configuring'
<1>1. /\ GoodProfiles(profiles, made) /\ made \in 0..MaxProfiles
      /\ UNCHANGED <<profiles, made, secrets, cookies, up>>
  BY Serving DEF PatchProfile, Configured, providerVars
<1>2. Configured'
  BY <1>1 DEF Configured
<1>3. PICK i \in DOMAIN profiles, default \in BOOLEAN,
           credential \in {"keep", "new", "clear"} :
         LET p == Patched(profiles[i], default, credential)
             others == IF p.default THEN WithoutDefault(profiles, p.cap)
                                    ELSE profiles
         IN  /\ credential = "new" => Len(secrets) < MaxSecrets
             /\ todo' = (CASE credential = "keep"  -> <<>>
                           [] credential = "new"   -> <<PutSecret(p.kind)>>
                           [] credential = "clear" -> <<PutClear(p.kind)>>)
                           \o <<PutProfiles(WithDefault([others EXCEPT ![i] = p],
                                                        p.cap))>>
  BY DEF PatchProfile
<1> DEFINE p == Patched(profiles[i], default, credential)
           others == IF p.default THEN WithoutDefault(profiles, p.cap)
                                  ELSE profiles
           list == WithDefault([others EXCEPT ![i] = p], p.cap)
           kind == p.kind
<1>4. kind \in Kinds /\ GoodProfiles(list, made)
  BY <1>1, PatchedIsGood
<1>5. /\ credential = "new" => Len(secrets) < MaxSecrets
      /\ todo' = (CASE credential = "keep"  -> <<>>
                    [] credential = "new"   -> <<PutSecret(kind)>>
                    [] credential = "clear" -> <<PutClear(kind)>>)
                    \o <<PutProfiles(list)>>
  BY <1>3
<1> HIDE DEF list, kind
<1>6. /\ ConfigWrite(PutProfiles(list), FALSE, Len(secrets), made)
      /\ ConfigWrite(PutClear(kind), TRUE, Len(secrets), made)
      /\ credential = "new" =>
            ConfigWrite(PutSecret(kind), TRUE, Len(secrets), made)
  BY <1>4, <1>5, WriteForms
<1>7. \/ todo' = <<PutProfiles(list)>>
      \/ credential = "new" /\ todo' = <<PutSecret(kind), PutProfiles(list)>>
      \/ todo' = <<PutClear(kind), PutProfiles(list)>>
  <2>1. CASE credential = "keep"
    <3>1. todo' = <<>> \o <<PutProfiles(list)>>  BY <1>5, <2>1
    <3> QED  BY <3>1, <1>6, WritesToCome
  <2>2. CASE credential = "new"
    <3>1. todo' = <<PutSecret(kind)>> \o <<PutProfiles(list)>>  BY <1>5, <2>2
    <3> QED  BY <3>1, <2>2, <1>6, WritesToCome
  <2>3. CASE credential = "clear"
    <3>1. todo' = <<PutClear(kind)>> \o <<PutProfiles(list)>>  BY <1>5, <2>3
    <3> QED  BY <3>1, <1>6, WritesToCome
  <2> QED  BY <2>1, <2>2, <2>3
<1>8. Listed(todo') /\ ConfigWrites(todo', Len(secrets), made)
  BY <1>6, <1>7, WritesToCome
<1> QED  BY <1>1, <1>2, <1>8 DEF Configuring

LEMMA DeleteProfileStep ==
    ASSUME Configured, DeleteProfile
    PROVE  Configured' /\ Listed(todo') /\ Configuring'
<1>1. /\ GoodProfiles(profiles, made) /\ made \in 0..MaxProfiles
      /\ UNCHANGED <<profiles, made, secrets, cookies, up>>
  BY Serving DEF DeleteProfile, Configured, providerVars
<1>2. Configured'
  BY <1>1 DEF Configured
<1>3. PICK i \in DOMAIN profiles :
         todo' = <<PutClear(profiles[i].kind),
                   PutProfiles(WithDefault(RemoveAt(profiles, i),
                                           profiles[i].cap))>>
  BY DEF DeleteProfile
<1> DEFINE kind == profiles[i].kind
           list == WithDefault(RemoveAt(profiles, i), profiles[i].cap)
<1>4. kind \in Kinds /\ GoodProfiles(list, made)
  BY <1>1, DeletedIsGood
<1>5. todo' = <<PutClear(kind), PutProfiles(list)>>
  BY <1>3
<1> HIDE DEF kind, list
<1>6. /\ ConfigWrite(PutClear(kind), TRUE, Len(secrets), made)
      /\ ConfigWrite(PutProfiles(list), FALSE, Len(secrets), made)
  BY <1>4, WriteForms
<1>7. Listed(todo') /\ ConfigWrites(todo', Len(secrets), made)
  BY <1>5, <1>6, WritesToCome
<1> QED  BY <1>1, <1>2, <1>7 DEF Configuring

LEMMA PatchSettingsStep ==
    ASSUME Configured, PatchSettings
    PROVE  Configured' /\ Listed(todo') /\ Configuring'
<1>1. UNCHANGED <<profiles, made, secrets, cookies, up>>
  BY DEF PatchSettings, providerVars
<1>2. Configured'
  BY <1>1 DEF Configured
<1>3. PICK cap \in Capabilities :
         \/ todo' = <<PutSecret(cap)>> /\ Len(secrets) < MaxSecrets
         \/ todo' = <<PutClear(cap)>>
  BY DEF PatchSettings
<1>4. cap \in Kinds  BY DEF Kinds
<1>5. /\ ConfigWrite(PutClear(cap), FALSE, Len(secrets), made)
      /\ Len(secrets) < MaxSecrets =>
            ConfigWrite(PutSecret(cap), TRUE, Len(secrets), made)
  BY <1>4, WriteForms
<1>6. Listed(todo') /\ ConfigWrites(todo', Len(secrets), made)
  BY <1>3, <1>5, WritesToCome
<1> QED  BY <1>1, <1>2, <1>6 DEF Configuring

\* What the handlers of the cookies write.
LEMMA CookieWrites ==
    ASSUME Configured, NEW default \in BOOLEAN, NEW rows, GoodCookies(rows),
           todo' = Demotion(default) \o <<PutCookies(rows)>>
                \/ todo' = <<PutCookies(rows)>>,
           UNCHANGED providerVars, UNCHANGED up
    PROVE  Configured' /\ Listed(todo') /\ Configuring'
<1>1. Configured' /\ secrets' = secrets /\ made' = made
  BY DEF Configured, providerVars
<1>2. GoodCookies(cookies)  BY DEF Configured
<1>3. /\ ConfigWrite(PutCookies(NoDefault), TRUE, Len(secrets), made)
      /\ ConfigWrite(PutCookies(rows), FALSE, Len(secrets), made)
  BY <1>2, NoDefaultRows, WriteForms
<1>4. \/ todo' = <<PutCookies(rows)>>
      \/ todo' = <<PutCookies(NoDefault), PutCookies(rows)>>
  BY <1>3, WritesToCome DEF Demotion
<1>5. Listed(todo') /\ ConfigWrites(todo', Len(secrets), made)
  BY <1>3, <1>4, WritesToCome
<1> QED  BY <1>1, <1>5 DEF Configuring

LEMMA CookieStep ==
    ASSUME Configured, CreateCookie \/ PatchCookie \/ DeleteCookie
    PROVE  Configured' /\ Listed(todo') /\ Configuring'
<1>1. GoodCookies(cookies)  BY DEF Configured
<1>2. CASE CreateCookie
  <2>1. PICK default \in BOOLEAN :
           todo' = Demotion(default)
                      \o <<PutCookies(Append(Demoted(default), Flag(default)))>>
    BY <1>2 DEF CreateCookie
  <2>2. GoodCookies(Append(Demoted(default), Flag(default)))
    BY <1>1, WrittenCookies
  <2>3. UNCHANGED providerVars /\ UNCHANGED up  BY <1>2 DEF CreateCookie
  <2> QED  BY <2>1, <2>2, <2>3, CookieWrites
<1>3. CASE PatchCookie
  <2>1. PICK n \in DOMAIN cookies, default \in BOOLEAN :
           todo' = Demotion(default)
                      \o <<PutCookies([Demoted(default) EXCEPT
                                          ![n] = Flag(default)])>>
    BY <1>3 DEF PatchCookie
  <2>2. GoodCookies([Demoted(default) EXCEPT ![n] = Flag(default)])
    BY <1>1, WrittenCookies
  <2>3. UNCHANGED providerVars /\ UNCHANGED up  BY <1>3 DEF PatchCookie
  <2> QED  BY <2>1, <2>2, <2>3, CookieWrites
<1>4. CASE DeleteCookie
  <2>1. PICK n \in DOMAIN cookies : todo' = <<PutCookies([cookies EXCEPT ![n] = None])>>
    BY <1>4 DEF DeleteCookie
  <2>2. GoodCookies([cookies EXCEPT ![n] = None])
    BY <1>1, WrittenCookies
  <2>3. UNCHANGED providerVars /\ UNCHANGED up  BY <1>4 DEF DeleteCookie
  <2> QED  BY <2>1, <2>2, <2>3, CookieWrites
<1> QED  BY <1>2, <1>3, <1>4

LEMMA ConfigureStep ==
    ASSUME Configured, Configure
    PROVE  Configured' /\ Listed(todo') /\ Configuring'
BY CreateProfileStep, PatchProfileStep, DeleteProfileStep, PatchSettingsStep,
   CookieStep DEF Configure

-----------------------------------------------------------------------------
(* Statuses.                                                               *)

\* A status is found for a project that has jobs.
LEMMA DerivedIsStatus ==
    ASSUME NEW found \in SUBSET Statuses, found # {}
    PROVE  Derived(found) \in Statuses
<1> DEFINE Holds(i) == /\ Precedence[i] \in found
                       /\ \A k \in 1..(i - 1) : Precedence[k] \notin found
           there == {i \in 1..6 : Precedence[i] \in found}
<1>1. /\ DOMAIN Precedence = 1..6
      /\ \A i \in 1..6 : Precedence[i] \in Statuses
      /\ \A s \in Statuses : \E i \in 1..6 : Precedence[i] = s
  <2>1. /\ DOMAIN Precedence = 1..6
        /\ Precedence[1] = "running" /\ Precedence[2] = "queued"
        /\ Precedence[3] = "interrupted" /\ Precedence[4] = "failed"
        /\ Precedence[5] = "cancelled" /\ Precedence[6] = "succeeded"
    BY DEF Precedence
  <2>2. /\ 1 \in 1..6 /\ 2 \in 1..6 /\ 3 \in 1..6 /\ 4 \in 1..6
        /\ 5 \in 1..6 /\ 6 \in 1..6
        /\ \A i \in 1..6 : i \in {1, 2, 3, 4, 5, 6}
    OBVIOUS
  <2> QED  BY <2>1, <2>2 DEF Statuses
<1>2. there \subseteq Nat /\ there # {}
  BY <1>1
<1>3. PICK least \in there : \A k \in there : least <= k
  BY <1>2, LeastNumber
<1>4. \A k \in 1..(least - 1) : k \in 1..6 /\ k \notin there
  BY <1>3
<1>5. least \in DOMAIN Precedence /\ Holds(least)
  BY <1>1, <1>3, <1>4
<1> DEFINE best == CHOOSE i \in DOMAIN Precedence : Holds(i)
<1>6. best \in DOMAIN Precedence
  BY <1>5, Zenon
<1>7. Derived(found) = Precedence[best]
  BY DEF Derived
<1> QED  BY <1>1, <1>6, <1>7


\* The worker, between its refresh's two statements or before them.
AtRefresh(p) == worker.pc \in {"select", "update"} /\ jobs[worker.job].project = p

FinishedAt(p) ==
    Shown(p) /\ JobsOf(p) # {} /\ PendingJobs(p) = {} =>
       projects[p] = Derived(Found(p)) \/ AtRefresh(p)

CurrentAt(p) ==
    Refreshing(p) /\ Shown(p) /\ PendingJobs(p) = {}
       => worker.seen = Derived(Found(p))

LEMMA ByProject ==
    /\ FinishedProjectIsShown <=> \A p \in ProjectIds \ overtaken : FinishedAt(p)
    /\ RefreshIsCurrent <=> \A p \in ProjectIds \ overtaken : CurrentAt(p)
BY DEF FinishedProjectIsShown, RefreshIsCurrent, FinishedAt, CurrentAt,
       AtRefresh, Found

\* The jobs of a project and what follows from them stay as they are.
SameJobs(p) == /\ JobsOf(p)' = JobsOf(p)
               /\ PendingJobs(p)' = PendingJobs(p)
               /\ StatusesOf(jobs, p)' = StatusesOf(jobs, p)

LEMMA SameRows ==
    ASSUME NEW p,
           \A j \in DOMAIN jobs :
              jobs[j].project = p /\ jobs[j].status \in Statuses =>
                 /\ j \in DOMAIN jobs' /\ jobs'[j].project = p
                 /\ jobs'[j].status = jobs[j].status,
           \A j \in DOMAIN jobs' :
              jobs'[j].project = p /\ jobs'[j].status \in Statuses =>
                 /\ j \in DOMAIN jobs /\ jobs[j].project = p
                 /\ jobs'[j].status = jobs[j].status
    PROVE  SameJobs(p)
<1>1. JobsOf(p)' = JobsOf(p)  BY DEF JobsOf, HasRow
<1>2. \A j \in JobsOf(p) : jobs'[j].status = jobs[j].status
  BY DEF JobsOf, HasRow
<1>3. PendingJobs(p)' = PendingJobs(p)  BY <1>1, <1>2 DEF PendingJobs
<1>4. /\ StatusesOf(jobs, p) = {jobs[j].status : j \in JobsOf(p)}
      /\ StatusesOf(jobs', p) = {jobs'[j].status : j \in JobsOf(p)'}
  BY DEF StatusesOf, JobsOf, HasRow
<1>5. {jobs'[j].status : j \in JobsOf(p)'} = {jobs[j].status : j \in JobsOf(p)}
  BY <1>1, <1>2
<1>6. StatusesOf(jobs', p) = StatusesOf(jobs, p)
  BY <1>4, <1>5
<1> QED  BY <1>1, <1>3, <1>6 DEF SameJobs

\* A project that a step does not touch shows what it did.
LEMMA StaysShown ==
    ASSUME NEW p \in ProjectIds, SameJobs(p), projects'[p] = projects[p],
           dropped'[p] = dropped[p], FinishedAt(p), CurrentAt(p),
           \/ /\ worker' = worker
              /\ AtRefresh(p) => jobs'[worker.job].project = p
              /\ Refreshing(p)' => Refreshing(p)
           \/ ~ AtRefresh(p) /\ ~ Refreshing(p)'
    PROVE  FinishedAt(p)' /\ CurrentAt(p)'
<1>1. Shown(p)' <=> Shown(p)  BY DEF Shown
<1>2. /\ JobsOf(p)' = JobsOf(p) /\ PendingJobs(p)' = PendingJobs(p)
      /\ Found(p)' = Found(p)
  BY DEF SameJobs, Found
<1>3. AtRefresh(p) => AtRefresh(p)'
  BY DEF AtRefresh
<1>4. FinishedAt(p)'  BY <1>1, <1>2, <1>3 DEF FinishedAt
<1>5. CurrentAt(p)'  BY <1>1, <1>2 DEF CurrentAt
<1> QED  BY <1>4, <1>5

-----------------------------------------------------------------------------
(* Rows and videos.                                                        *)

LEMMA JobFields ==
    ASSUME NEW rows \in Seq(JobRow)
    PROVE  /\ Len(rows) \in Nat /\ DOMAIN rows = 1..Len(rows)
           /\ \A k \in DOMAIN rows :
                 /\ rows[k] \in JobRow
                 /\ rows[k].project \in ProjectIds
                 /\ rows[k].status \in Statuses \cup {"unborn", "gone"}
<1>1. \A r \in JobRow : /\ r.project \in ProjectIds
                        /\ r.status \in Statuses \cup {"unborn", "gone"}
  BY DEF JobRow
<1>2. \A k \in DOMAIN rows : rows[k] \in JobRow
  OBVIOUS
<1>3. Len(rows) \in Nat /\ DOMAIN rows = 1..Len(rows)
  OBVIOUS
<1> QED  BY <1>1, <1>2, <1>3

LEMMA RowReplaced ==
    ASSUME NEW rows \in Seq(JobRow), NEW j \in DOMAIN rows, NEW r \in JobRow
    PROVE  /\ [rows EXCEPT ![j] = r] \in Seq(JobRow)
           /\ DOMAIN [rows EXCEPT ![j] = r] = DOMAIN rows
           /\ \A k \in DOMAIN rows : k # j => [rows EXCEPT ![j] = r][k] = rows[k]
           /\ [rows EXCEPT ![j] = r][j] = r
OBVIOUS

\* The rows that no project is refreshed for keep what other parts rely on:
\* what a job stands for, and its status once it cannot run any more.
RowsKept ==
    /\ jobs' \in Seq(JobRow)
    /\ DOMAIN jobs' = DOMAIN jobs
    /\ \A k \in DOMAIN jobs :
          /\ jobs'[k].project = jobs[k].project
          /\ jobs'[k].upload = jobs[k].upload
          /\ jobs'[k].pin = jobs[k].pin
          /\ jobs[k].status \notin Pending => jobs'[k].status = jobs[k].status

\* What is shown stays shown, and what was created was created.
ProjectsKept ==
    \A p \in ProjectIds : /\ Shown(p) => Shown(p)'
                          /\ projects[p] # None => projects'[p] # None

LEMMA SameRowsKept ==
    ASSUME jobs \in Seq(JobRow), jobs' = jobs
    PROVE  RowsKept
BY DEF RowsKept

LEMMA KeptPending ==
    ASSUME RowsKept, jobs \in Seq(JobRow)
    PROVE  /\ Len(jobs') = Len(jobs)
           /\ \A k \in DOMAIN jobs :
                 jobs'[k].status \in Pending => jobs[k].status \in Pending
           /\ \A q : PendingJobs(q)' \subseteq PendingJobs(q)
<1>1. Len(jobs') = Len(jobs)  BY DEF RowsKept
<1>2. \A k \in DOMAIN jobs : jobs'[k].status \in Pending => jobs[k].status \in Pending
  BY DEF RowsKept
<1>3. Pending \subseteq Statuses  BY DEF Pending, Statuses
<1>4. \A q : PendingJobs(q)' \subseteq PendingJobs(q)
  BY <1>2, <1>3 DEF RowsKept, PendingJobs, JobsOf, HasRow
<1> QED  BY <1>1, <1>2, <1>4

\* What a video is, whatever others are lost.
LEMMA LostRows ==
    ASSUME uploads \in Seq(UploadRow), NEW us, NEW fate \in Fates
    PROVE  /\ Lost(us, fate) \in Seq(UploadRow)
           /\ DOMAIN Lost(us, fate) = DOMAIN uploads
           /\ \A u \in DOMAIN uploads :
                 /\ Lost(us, fate)[u].project = uploads[u].project
                 /\ \/ Lost(us, fate)[u].file = uploads[u].file
                    \/ u \in us /\ Lost(us, fate)[u].file = fate
<1> DEFINE row(u) == IF u \in us /\ Kept(u) THEN [uploads[u] EXCEPT !.file = fate]
                                            ELSE uploads[u]
<1>1. \A u \in DOMAIN uploads : /\ row(u) \in UploadRow
                                /\ row(u).project = uploads[u].project
                                /\ \/ row(u).file = uploads[u].file
                                   \/ u \in us /\ row(u).file = fate
  <2>1. \A u \in DOMAIN uploads : uploads[u] \in UploadRow  OBVIOUS
  <2> QED  BY <2>1 DEF UploadRow
<1>2. Lost(us, fate) = [u \in DOMAIN uploads |-> row(u)]  BY DEF Lost
<1> HIDE DEF row
<1>3. DOMAIN uploads = 1..Len(uploads) /\ Len(uploads) \in Nat  OBVIOUS
<1> QED  BY <1>1, <1>2, <1>3

\* Jobs keep their videos when these stay, and no job that has none of its own
\* starts to need one.
LEMMA VideosStay ==
    ASSUME Videos, NEW new,
           DOMAIN jobs' = DOMAIN jobs \cup new,
           \A k \in DOMAIN jobs :
              /\ jobs'[k].project = jobs[k].project
              /\ jobs'[k].upload = jobs[k].upload
              /\ jobs[k].status \in Ended \cup {"gone"} =>
                    jobs'[k].status \in Ended \cup {"gone"}
              /\ jobs'[k].status \in Pending =>
                    \/ jobs[k].status \in Pending
                    \/ uploads'[jobs[k].upload].file = "there",
           \A k \in new :
              /\ jobs'[k].upload \in DOMAIN uploads'
              /\ uploads'[jobs'[k].upload].project = jobs'[k].project
              /\ jobs'[k].status \notin Pending,
           DOMAIN uploads \subseteq DOMAIN uploads',
           \A u \in DOMAIN uploads : uploads'[u].project = uploads[u].project,
           \A k \in DOMAIN jobs :
              \/ jobs[k].status \notin Pending
              \/ uploads'[jobs[k].upload].file = uploads[jobs[k].upload].file
              \/ uploads'[jobs[k].upload].file \in {"there", "discarded"}
              \/ /\ uploads'[jobs[k].upload].file = "unlinked"
                 /\ \E i \in DOMAIN jobs \ {k} :
                       /\ jobs[i].upload = jobs[k].upload
                       /\ jobs[i].status \in Ended \cup {"gone"}
    PROVE  Videos'
<1>1. JobsNameVideos'
  <2> SUFFICES ASSUME NEW k \in DOMAIN jobs'
               PROVE  /\ jobs'[k].upload \in DOMAIN uploads'
                      /\ uploads'[jobs'[k].upload].project = jobs'[k].project
    BY DEF JobsNameVideos
  <2>1. CASE k \in DOMAIN jobs
    <3>1. /\ jobs[k].upload \in DOMAIN uploads
          /\ uploads[jobs[k].upload].project = jobs[k].project
      BY <2>1 DEF Videos, JobsNameVideos
    <3> QED  BY <2>1, <3>1
  <2> QED  BY <2>1
<1>2. UploadsOutliveTheirJobs'
  <2> SUFFICES ASSUME NEW k \in DOMAIN jobs', jobs'[k].status \in Pending
               PROVE  \/ uploads'[jobs'[k].upload].file \in {"there", "discarded"}
                      \/ /\ uploads'[jobs'[k].upload].file = "unlinked"
                         /\ \E i \in DOMAIN jobs' \ {k} :
                               /\ jobs'[i].upload = jobs'[k].upload
                               /\ jobs'[i].status \in Ended \cup {"gone"}
    BY DEF UploadsOutliveTheirJobs
  <2>1. k \in DOMAIN jobs /\ jobs'[k].upload = jobs[k].upload  OBVIOUS
  <2> PICK u : u = jobs[k].upload  OBVIOUS
  <2>2. (\E i \in DOMAIN jobs \ {k} : /\ jobs[i].upload = u
                                      /\ jobs[i].status \in Ended \cup {"gone"})
        => \E i \in DOMAIN jobs' \ {k} : /\ jobs'[i].upload = u
                                         /\ jobs'[i].status \in Ended \cup {"gone"}
    <3> SUFFICES ASSUME NEW i \in DOMAIN jobs \ {k}, jobs[i].upload = u,
                        jobs[i].status \in Ended \cup {"gone"}
                 PROVE  /\ i \in DOMAIN jobs' \ {k} /\ jobs'[i].upload = u
                        /\ jobs'[i].status \in Ended \cup {"gone"}
      BY Zenon
    <3> QED  OBVIOUS
  <2>3. CASE uploads'[u].file = "there"  BY <2>1, <2>3
  <2>4. CASE jobs[k].status \in Pending
    <3>1. \/ uploads[u].file \in {"there", "discarded"}
          \/ /\ uploads[u].file = "unlinked"
             /\ \E i \in DOMAIN jobs \ {k} : /\ jobs[i].upload = u
                                             /\ jobs[i].status \in Ended \cup {"gone"}
      BY <2>1, <2>4 DEF Videos, UploadsOutliveTheirJobs
    <3> QED  BY <2>1, <2>2, <2>4, <3>1
  <2> QED  BY <2>1, <2>3, <2>4
<1> QED  BY <1>1, <1>2 DEF Videos

\* ... and when their rows are kept.
LEMMA KeptVideos ==
    ASSUME Videos, RowsKept, jobs \in Seq(JobRow), uploads' = uploads
    PROVE  Videos'
<1>1. \A k \in DOMAIN jobs :
         /\ jobs[k].status \in Ended \cup {"gone"} =>
               jobs'[k].status \in Ended \cup {"gone"}
         /\ jobs'[k].status \in Pending => jobs[k].status \in Pending
  <2>1. \A s \in Ended \cup {"gone"} : s \notin Pending  BY DEF Ended, Pending
  <2> QED  BY <2>1, KeptPending DEF RowsKept
<1>2. DOMAIN jobs' = DOMAIN jobs \cup {}  BY DEF RowsKept
<1>3. \A k \in DOMAIN jobs : /\ jobs'[k].project = jobs[k].project
                             /\ jobs'[k].upload = jobs[k].upload
  BY DEF RowsKept
<1> DEFINE new == {}
<1>4. DOMAIN jobs' = DOMAIN jobs \cup new /\ \A k \in new : FALSE  BY <1>2
<1> HIDE DEF new
<1> QED  BY <1>1, <1>3, <1>4, VideosStay

\* Jobs that may still run have what they need when their rows are kept.
LEMMA KeptActive ==
    ASSUME RowsKept, jobs \in Seq(JobRow), ActiveJobsAreRunnable, ProjectsKept,
           secrets' = secrets
    PROVE  ActiveJobsAreRunnable'
<1> SUFFICES ASSUME NEW k \in DOMAIN jobs', jobs'[k].status \in Pending
             PROVE  projects'[jobs'[k].project] \in Statuses /\ Loadable(k)'
  BY DEF ActiveJobsAreRunnable, Shown
<1>1. /\ k \in DOMAIN jobs /\ jobs'[k].project = jobs[k].project
      /\ jobs'[k].pin = jobs[k].pin
  BY DEF RowsKept
<1>2. jobs[k].status \in Pending  BY <1>1, KeptPending
<1>3. Shown(jobs[k].project) /\ Loadable(k)
  BY <1>1, <1>2 DEF ActiveJobsAreRunnable
<1>4. jobs[k].project \in ProjectIds  BY <1>1, JobFields
<1>5. projects'[jobs[k].project] \in Statuses
  BY <1>3, <1>4 DEF ProjectsKept, Shown
<1>6. Loadable(k)'  BY <1>1, <1>3 DEF Loadable, HasConfig, Resolve
<1> QED  BY <1>1, <1>5, <1>6

\* What the running handler has still to write is still right.
LEMMA TodoKept ==
    ASSUME TodoFits, RowsKept, ProjectsKept, jobs \in Seq(JobRow),
           UNCHANGED <<todo, secrets, made, uploads>>
    PROVE  TodoFits'
<1> PICK n : n = Len(jobs)  OBVIOUS
<1>1. /\ Len(jobs') = n /\ DOMAIN jobs' = DOMAIN jobs
      /\ \A q : PendingJobs(q)' \subseteq PendingJobs(q)
  BY KeptPending DEF RowsKept
<1>2. CASE Configuring
  BY <1>2 DEF TodoFits, Configuring
<1>3. CASE Submitting
  <2> PICK us :
         \/ \E p \in ProjectIds, u \in Nat, pin \in Pins :
               Bringing(p, u, pin, us) \/ Naming(p, u, pin, us)
         \/ \E pin \in Pins : Pinning(pin, us)
         \/ Queueing(us)
         \/ Logging(us)
    BY <1>3 DEF Submitting
  <2>1. \A pin : PinFound(pin)' <=> PinFound(pin)
    BY DEF PinFound, Resolve
  <2>2. LaidOut => LaidOut' /\ (Loadable(n) => Loadable(n)')
    <3> HAVE LaidOut
    <3>1. n \in DOMAIN jobs /\ jobs[n].status = "unborn"
          /\ Kept(jobs[n].upload) /\ Shown(jobs[n].project)
      BY DEF LaidOut
    <3>2. "unborn" \notin Pending  BY DEF Pending
    <3>3. /\ jobs'[n].status = "unborn" /\ jobs'[n].project = jobs[n].project
          /\ jobs'[n].upload = jobs[n].upload /\ jobs'[n].pin = jobs[n].pin
      BY <3>1, <3>2 DEF RowsKept
    <3>4. jobs[n].project \in ProjectIds  BY <3>1, JobFields
    <3>5. LaidOut'
      BY <1>1, <3>1, <3>3, <3>4 DEF LaidOut, Kept, Shown, ProjectsKept
    <3>6. Loadable(n) => Loadable(n)'
      BY <3>3 DEF Loadable, HasConfig, Resolve
    <3> QED  BY <3>5, <3>6
  <2>3. CASE \E p \in ProjectIds, u \in Nat, pin \in Pins : Bringing(p, u, pin, us)
    <3> PICK p \in ProjectIds, u \in Nat, pin \in Pins : Bringing(p, u, pin, us)
      BY <2>3
    <3>1. Bringing(p, u, pin, us)'
      BY <1>1, <2>1 DEF Bringing, ProjectsKept, PutUpload, PutLayout, NewJob,
                        PutSnapshot, PutRow, PutLogged
    <3> QED  BY <3>1 DEF Submitting, TodoFits
  <2>4. CASE \E p \in ProjectIds, u \in Nat, pin \in Pins : Naming(p, u, pin, us)
    <3> PICK p \in ProjectIds, u \in Nat, pin \in Pins : Naming(p, u, pin, us)
      BY <2>4
    <3>1. Naming(p, u, pin, us)'
      BY <1>1, <2>1 DEF Naming, ProjectsKept, Kept, PutLayout, NewJob,
                        PutSnapshot, PutRow, PutLogged
    <3> QED  BY <3>1 DEF Submitting, TodoFits
  <2>5. CASE \E pin \in Pins : Pinning(pin, us)
    <3> PICK pin \in Pins : Pinning(pin, us)  BY <2>5
    <3>1. Pinning(pin, us)'
      BY <1>1, <2>1, <2>2 DEF Pinning, PutSnapshot, PutRow, PutLogged
    <3> QED  BY <3>1 DEF Submitting, TodoFits
  <2>6. CASE Queueing(us)
    <3>1. Queueing(us)'
      BY <1>1, <2>2, <2>6 DEF Queueing, PutRow, PutLogged
    <3> QED  BY <3>1 DEF Submitting, TodoFits
  <2>7. CASE Logging(us)
    <3>1. Logging(us)'  BY <2>7 DEF Logging, PutLogged
    <3> QED  BY <3>1 DEF Submitting, TodoFits
  <2> QED  BY <2>3, <2>4, <2>5, <2>6, <2>7
<1>4. CASE Cleaning
  <2> PICK j \in DOMAIN jobs : \A i \in DOMAIN todo : CleaningWrite(todo, i, j)
    BY <1>4 DEF Cleaning
  <2>1. jobs[j].status \in Ended => jobs'[j].status \in Ended
    BY DEF RowsKept, Ended
  <2>2. \A i \in DOMAIN todo' : CleaningWrite(todo, i, j)'
    BY <2>1 DEF CleaningWrite
  <2> QED  BY <1>1, <2>2 DEF Cleaning, TodoFits
<1>5. CASE \E p \in ProjectIds : Deleting(p)
  <2> PICK p \in ProjectIds : Deleting(p)  BY <1>5
  <2>1. PendingJobs(p) = {} => PendingJobs(p)' = {}  BY <1>1
  <2>2. Deleting(p)'
    BY <1>1, <2>1 DEF Deleting, PutGone, PutTree, PutAwait, PutCancel
  <2> QED  BY <2>2 DEF TodoFits
<1> QED  BY <1>2, <1>3, <1>4, <1>5 DEF TodoFits

\* A handler that ends, or is cut off, has nothing left to write.
LEMMA NothingToDo ==
    ASSUME todo' = <<>>
    PROVE  Listed(todo') /\ TodoFits'
<1>1. todo' \in Seq({})  BY SMT
<1>2. Listed(todo')  BY <1>1, SeqOfItself
<1>3. DOMAIN todo' = {}  OBVIOUS
<1>4. Configuring'  BY <1>3 DEF Configuring, ConfigWrites
<1> QED  BY <1>2, <1>4 DEF TodoFits

-----------------------------------------------------------------------------
(* What every step has to show.                                            *)

\* Nothing of the configuration changes.
Frame == UNCHANGED providerVars /\ up' = up

LEMMA FrameKeeps ==
    ASSUME Configured, Frame
    PROVE  Configured' /\ secrets' = secrets /\ made' = made
BY DEF Configured, Frame, providerVars

\* All but what is shown stands while the rows are kept.
LEMMA KeptStands ==
    ASSUME Standing, Frame, RowsKept, uploads' = uploads,
           projects' \in ProjectRows, ProjectsKept,
           overtaken' \subseteq ProjectIds, dropped' \in DroppedRows,
           worker' \in WorkerRow, WorkerRuns',
           FinishedProjectIsShown', RefreshIsCurrent'
    PROVE  Standing'
<1>1. Configured' /\ secrets' = secrets  BY FrameKeeps DEF Standing
<1>2. jobs \in Seq(JobRow) /\ Rows  BY DEF Standing, Rows
<1>3. Rows'  BY <1>2 DEF Rows, RowsKept
<1>4. ActiveJobsAreRunnable'  BY <1>1, <1>2, KeptActive DEF Standing
<1>5. Videos'  BY <1>2, KeptVideos DEF Standing
<1>6. JobsHaveProjects'
  <2> SUFFICES ASSUME NEW k \in DOMAIN jobs'
               PROVE  projects'[jobs'[k].project] # None
    BY DEF JobsHaveProjects
  <2>1. k \in DOMAIN jobs /\ jobs'[k].project = jobs[k].project
    BY DEF RowsKept
  <2>2. jobs[k].project \in ProjectIds  BY <1>2, <2>1, JobFields
  <2> QED  BY <2>1, <2>2 DEF Standing, JobsHaveProjects, ProjectsKept
<1> QED  BY <1>1, <1>3, <1>4, <1>5, <1>6 DEF Standing

\* Project by project.
LEMMA ShownByProject ==
    ASSUME \A p \in ProjectIds :
              p \notin overtaken' => FinishedAt(p)' /\ CurrentAt(p)'
    PROVE  FinishedProjectIsShown' /\ RefreshIsCurrent'
BY DEF FinishedProjectIsShown, RefreshIsCurrent, FinishedAt, CurrentAt,
       AtRefresh, Found

LEMMA SameJobsAll ==
    ASSUME jobs' = jobs
    PROVE  \A p : SameJobs(p)
BY DEF SameJobs, JobsOf, PendingJobs, HasRow, StatusesOf

\* The configuration is all that changes, and no credential goes.
LEMMA ConfigStands ==
    ASSUME Standing, Configured', UNCHANGED projectVars,
           \A n \in DOMAIN secrets : /\ n \in DOMAIN secrets'
                                     /\ secrets'[n].kind = secrets[n].kind
    PROVE  Standing' /\ \A pin : PinFound(pin) => PinFound(pin)'
<1>1. UNCHANGED <<projects, jobs, uploads, worker, overtaken, dropped>>
  BY DEF projectVars, shownVars
<1>2. \A ref, kind : ref # None /\ Resolve(ref, kind) = ref
                        => Resolve(ref, kind)' = ref
  BY DEF Resolve
<1>3. Rows' /\ JobsHaveProjects' /\ WorkerRuns'
  BY <1>1 DEF Standing, Rows, JobsHaveProjects, WorkerRuns
<1>4. ActiveJobsAreRunnable'
  <2>1. \A k : Loadable(k) => Loadable(k)'
    BY <1>1, <1>2 DEF Loadable, HasConfig
  <2> QED  BY <1>1, <2>1 DEF Standing, ActiveJobsAreRunnable, Shown
<1>5. FinishedProjectIsShown' /\ RefreshIsCurrent'
  BY <1>1 DEF Standing, FinishedProjectIsShown, RefreshIsCurrent, Shown, Found,
              JobsOf, PendingJobs, HasRow, StatusesOf, Refreshing
<1>6. \A pin : PinFound(pin) => PinFound(pin)'
  BY <1>2 DEF PinFound
<1>7. Videos'
  BY <1>1 DEF Standing, Videos, JobsNameVideos, UploadsOutliveTheirJobs
<1> QED  BY <1>3, <1>4, <1>5, <1>6, <1>7 DEF Standing

\* Only what is to be written changes.
LEMMA OnlyTodo ==
    ASSUME Standing, Frame, UNCHANGED projectVars
    PROVE  Standing'
<1>1. Configured' /\ secrets' = secrets  BY FrameKeeps DEF Standing
<1> QED  BY <1>1, ConfigStands

-----------------------------------------------------------------------------
(* The move of a job from one status to another.                           *)

\* A job that may still run gets a status; no row but its own changes, and of
\* that the status, the owner and the request to cancel.
Moved(j, status) ==
    /\ j \in DOMAIN jobs
    /\ jobs[j].status \in Pending
    /\ jobs' \in Seq(JobRow)
    /\ DOMAIN jobs' = DOMAIN jobs
    /\ \A k \in DOMAIN jobs : k # j => jobs'[k] = jobs[k]
    /\ jobs'[j].project = jobs[j].project
    /\ jobs'[j].upload = jobs[j].upload
    /\ jobs'[j].pin = jobs[j].pin
    /\ status \in Statuses
    /\ jobs'[j].status = status

\* What a transaction makes of the row of a job.
LEMMA RowWithStatus ==
    ASSUME jobs \in Seq(JobRow), NEW j \in DOMAIN jobs,
           NEW status \in Statuses \cup {"unborn", "gone"},
           NEW rows, \/ rows = WithStatus(j, status)
                     \/ rows = [WithStatus(j, status) EXCEPT ![j].cancel = FALSE,
                                                             ![j].owned = FALSE]
                     \/ rows = [WithStatus(j, status) EXCEPT ![j].owned = TRUE]
    PROVE  /\ rows \in Seq(JobRow)
           /\ DOMAIN rows = DOMAIN jobs
           /\ \A k \in DOMAIN jobs : k # j => rows[k] = jobs[k]
           /\ rows[j].project = jobs[j].project
           /\ rows[j].upload = jobs[j].upload
           /\ rows[j].pin = jobs[j].pin
           /\ rows[j].status = status
<1> DEFINE r1 == [jobs[j] EXCEPT !.status = status]
           r2 == [[r1 EXCEPT !.cancel = FALSE] EXCEPT !.owned = FALSE]
           r3 == [r1 EXCEPT !.owned = TRUE]
<1>1. jobs[j] \in JobRow  OBVIOUS
<1>2. \A r \in {r1, r2, r3} : /\ r \in JobRow /\ r.status = status
                              /\ r.project = jobs[j].project
                              /\ r.upload = jobs[j].upload /\ r.pin = jobs[j].pin
  BY <1>1 DEF JobRow
<1>3. \/ rows = [jobs EXCEPT ![j] = r1]
      \/ rows = [jobs EXCEPT ![j] = r2]
      \/ rows = [jobs EXCEPT ![j] = r3]
  BY DEF WithStatus
<1> HIDE DEF r1, r2, r3
<1> QED  BY <1>2, <1>3

LEMMA WithStatusMoves ==
    ASSUME Rows, NEW j \in DOMAIN jobs, jobs[j].status \in Pending,
           NEW status \in Statuses,
           \/ jobs' = WithStatus(j, status)
           \/ jobs' = [WithStatus(j, status) EXCEPT ![j].cancel = FALSE,
                                                    ![j].owned = FALSE]
           \/ jobs' = [WithStatus(j, status) EXCEPT ![j].owned = TRUE]
    PROVE  Moved(j, status)
<1>1. jobs \in Seq(JobRow) /\ status \in Statuses \cup {"unborn", "gone"}
  BY DEF Rows
<1>2. /\ jobs' \in Seq(JobRow)
      /\ DOMAIN jobs' = DOMAIN jobs
      /\ \A k \in DOMAIN jobs : k # j => jobs'[k] = jobs[k]
      /\ jobs'[j].project = jobs[j].project
      /\ jobs'[j].upload = jobs[j].upload
      /\ jobs'[j].pin = jobs[j].pin
      /\ jobs'[j].status = status
  BY <1>1, RowWithStatus
<1> QED  BY <1>2 DEF Moved

LEMMA MovedJobs ==
    ASSUME NEW j, NEW status, Moved(j, status), jobs \in Seq(JobRow)
    PROVE  /\ RowsKept
           /\ \A q : q # jobs[j].project => SameJobs(q)
           /\ \A q : q = jobs[j].project /\ status \in Pending =>
                       j \in PendingJobs(q)'
<1>1. /\ j \in DOMAIN jobs /\ DOMAIN jobs' = DOMAIN jobs
      /\ jobs[j].status \in Pending
      /\ jobs'[j].project = jobs[j].project
      /\ \A k \in DOMAIN jobs : k # j => jobs'[k] = jobs[k]
  BY DEF Moved
<1>2. RowsKept  BY DEF Moved, RowsKept
<1>3. ASSUME NEW q, q # jobs[j].project
      PROVE  SameJobs(q)
  <2>1. \A k \in DOMAIN jobs : jobs[k].project = q => jobs'[k] = jobs[k]
    BY <1>1, <1>3
  <2>2. \A k \in DOMAIN jobs' : jobs'[k].project = q => jobs'[k] = jobs[k]
    BY <1>1, <1>3
  <2> QED  BY <2>1, <2>2, <1>1, SameRows
<1>4. \A q : q = jobs[j].project /\ status \in Pending => j \in PendingJobs(q)'
  <2>1. jobs'[j].status = status /\ status \in Statuses  BY DEF Moved
  <2> QED  BY <2>1, <1>1 DEF PendingJobs, JobsOf, HasRow
<1> QED  BY <1>2, <1>3, <1>4

\* What is shown of the other projects does not change when a job moves.
LEMMA MovedShows ==
    ASSUME Standing, NEW j, NEW status, Moved(j, status),
           NEW own, own = jobs[j].project,
           \A p \in ProjectIds :
              p # own =>
                 /\ projects'[p] = projects[p] /\ dropped'[p] = dropped[p]
                 /\ p \notin overtaken' => p \notin overtaken,
           \/ worker' = worker
           \/ worker.pc \notin {"select", "update"} /\ worker'.pc # "update",
           own \notin overtaken' => FinishedAt(own)' /\ CurrentAt(own)'
    PROVE  FinishedProjectIsShown' /\ RefreshIsCurrent'
<1>1. jobs \in Seq(JobRow) /\ RowsKept  BY MovedJobs DEF Standing, Rows
<1>2. ASSUME NEW p \in ProjectIds, p \notin overtaken', p # own
      PROVE  FinishedAt(p)' /\ CurrentAt(p)'
  <2>1. SameJobs(p)  BY <1>1, <1>2, MovedJobs
  <2>2. projects'[p] = projects[p] /\ dropped'[p] = dropped[p] /\ p \notin overtaken
    BY <1>2
  <2>3. FinishedAt(p) /\ CurrentAt(p)  BY <2>2, ByProject DEF Standing
  <2>4. CASE worker' = worker
    <3>1. worker.pc # "idle" =>
             jobs'[worker.job].project = jobs[worker.job].project
      BY <1>1 DEF Standing, WorkerRuns, RowsKept
    <3>2. AtRefresh(p) => jobs'[worker.job].project = p
      BY <3>1 DEF AtRefresh
    <3>3. Refreshing(p)' => Refreshing(p)
      BY <2>4, <3>1 DEF Refreshing
    <3> QED  BY <2>1, <2>2, <2>3, <2>4, <3>2, <3>3, StaysShown
  <2>5. CASE worker.pc \notin {"select", "update"} /\ worker'.pc # "update"
    <3>1. ~ AtRefresh(p) /\ ~ Refreshing(p)'
      BY <2>5 DEF AtRefresh, Refreshing
    <3> QED  BY <2>1, <2>2, <2>3, <3>1, StaysShown
  <2> QED  BY <2>4, <2>5
<1>3. \A p \in ProjectIds : p \notin overtaken' => FinishedAt(p)' /\ CurrentAt(p)'
  BY <1>2
<1> QED  BY <1>3, ShownByProject

\* A status and the project's in one transaction: by the API for a job that the
\* worker does not run, or by the sweep while it runs none.
LEMMA SetAndRefreshStep ==
    ASSUME Standing, Frame, NEW j \in DOMAIN jobs, jobs[j].status \in Pending,
           NEW status \in Statuses, SetAndRefresh(j, status),
           UNCHANGED <<worker, uploads>>,
           jobs[j].status # "running" \/ worker.pc = "idle"
    PROVE  Standing' /\ RowsKept /\ ProjectsKept
<1>1. Rows /\ jobs \in Seq(JobRow) /\ jobs[j].project \in ProjectIds
  BY JobFields DEF Standing, Rows
<1>2. Moved(j, status) /\ RowsKept
  BY <1>1, WithStatusMoves, MovedJobs DEF SetAndRefresh
<1> PICK own : own = jobs[j].project  OBVIOUS
<1>3. own \in ProjectIds  BY <1>1
<1>4. /\ projects' = [projects EXCEPT ![own] = Derived(StatusesOf(jobs', own))]
      /\ overtaken' = IF Refreshing(own) THEN overtaken \cup {own}
                                         ELSE overtaken \ {own}
      /\ dropped' = [dropped EXCEPT ![own] = {}]
  BY DEF SetAndRefresh
<1>5. Derived(StatusesOf(jobs', own)) \in Statuses
  <2>1. j \in DOMAIN jobs' /\ jobs'[j].project = own /\ jobs'[j].status = status
    BY <1>2 DEF Moved
  <2>2. StatusesOf(jobs', own) \in SUBSET Statuses /\ StatusesOf(jobs', own) # {}
    BY <2>1 DEF StatusesOf
  <2> QED  BY <2>2, DerivedIsStatus
<1>6. /\ projects \in ProjectRows /\ dropped \in DroppedRows
      /\ overtaken \subseteq ProjectIds /\ worker \in WorkerRow
  BY <1>1 DEF Rows
<1>7. /\ projects' \in ProjectRows /\ overtaken' \subseteq ProjectIds
      /\ \A p \in ProjectIds :
            projects'[p] = IF p = own THEN Derived(StatusesOf(jobs', own))
                                      ELSE projects[p]
  BY <1>3, <1>4, <1>5, <1>6 DEF ProjectRows
<1>8. /\ dropped' \in DroppedRows
      /\ \A p \in ProjectIds : dropped'[p] = IF p = own THEN {} ELSE dropped[p]
  BY <1>3, <1>4, <1>6 DEF DroppedRows
<1>9. ProjectsKept
  <2>1. None \notin Statuses  BY ProjectsAssumption DEF Statuses
  <2> QED  BY <1>5, <1>7, <2>1 DEF ProjectsKept, Shown
<1>10. WorkerRuns'
  <2>1. WorkerRuns  BY DEF Standing
  <2>2. worker.pc # "idle" => worker.job \in DOMAIN jobs'
    BY <1>2, <2>1 DEF Moved, WorkerRuns
  <2>3. \/ worker.pc \in {"load", "ready", "work"}
        \/ worker.pc \in {"select", "update"} /\ worker.then = "work"
        => jobs'[worker.job].status = "running"
    BY <1>2, <2>1 DEF Moved, WorkerRuns
  <2> QED  BY <2>1, <2>2, <2>3 DEF WorkerRuns
<1>11. FinishedAt(own)'
  <2>1. StatusesOf(jobs', own) \cup dropped'[own] = StatusesOf(jobs', own)
    BY <1>3, <1>8
  <2> QED  BY <1>3, <1>7, <2>1 DEF FinishedAt, Found
<1>12. own \notin overtaken' => CurrentAt(own)'
  <2> SUFFICES ASSUME own \notin overtaken' PROVE  ~ Refreshing(own)'
    BY DEF CurrentAt
  <2>1. ~ Refreshing(own)  BY <1>4
  <2>2. worker.pc # "idle" => jobs'[worker.job].project = jobs[worker.job].project
    BY <1>2 DEF Standing, WorkerRuns, RowsKept
  <2> QED  BY <2>1, <2>2 DEF Refreshing
<1>13. \A p \in ProjectIds :
          p # own => /\ projects'[p] = projects[p] /\ dropped'[p] = dropped[p]
                     /\ p \notin overtaken' => p \notin overtaken
  BY <1>4, <1>7, <1>8
<1>14. FinishedProjectIsShown' /\ RefreshIsCurrent'
  BY <1>2, <1>11, <1>12, <1>13, MovedShows
<1>15. Standing'
  BY <1>2, <1>6, <1>7, <1>8, <1>9, <1>10, <1>14, KeptStands
<1> QED  BY <1>2, <1>9, <1>15

\* A request to cancel a running job.
LEMMA RequestStep ==
    ASSUME Standing, Frame, NEW j \in DOMAIN jobs, jobs[j].status = "running",
           jobs' = [jobs EXCEPT ![j].cancel = TRUE],
           UNCHANGED <<shownVars, worker, uploads>>
    PROVE  Standing' /\ RowsKept /\ ProjectsKept
<1>1. Rows /\ jobs \in Seq(JobRow)  BY DEF Standing, Rows
<1>2. Moved(j, "running")
  <2> DEFINE r == [jobs[j] EXCEPT !.cancel = TRUE]
  <2>1. jobs[j] \in JobRow  BY <1>1
  <2>2. /\ r \in JobRow /\ r.status = jobs[j].status
        /\ r.project = jobs[j].project
        /\ r.upload = jobs[j].upload /\ r.pin = jobs[j].pin
    BY <2>1 DEF JobRow
  <2>3. jobs' = [jobs EXCEPT ![j] = r]  OBVIOUS
  <2> HIDE DEF r
  <2>4. /\ jobs' \in Seq(JobRow)
        /\ DOMAIN jobs' = DOMAIN jobs
        /\ \A k \in DOMAIN jobs : k # j => jobs'[k] = jobs[k]
        /\ jobs'[j] = r
    <3>1. j \in DOMAIN jobs /\ r \in JobRow /\ jobs \in Seq(JobRow)
      BY <1>1, <2>2
    <3> DEFINE rows == [jobs EXCEPT ![j] = r]
    <3>2. /\ rows \in Seq(JobRow)
          /\ DOMAIN rows = DOMAIN jobs
          /\ \A k \in DOMAIN jobs : k # j => rows[k] = jobs[k]
          /\ rows[j] = r
      BY <3>1, RowReplaced
    <3>3. jobs' = rows  BY <2>3
    <3> HIDE DEF rows
    <3> QED  BY <3>2, <3>3
  <2> QED  BY <2>2, <2>4 DEF Moved, Pending, Statuses
<1>3. RowsKept  BY <1>1, <1>2, MovedJobs
<1>4. UNCHANGED <<projects, overtaken, dropped>>  BY DEF shownVars
<1>5. ProjectsKept  BY <1>4 DEF ProjectsKept, Shown
<1>6. /\ projects' \in ProjectRows /\ dropped' \in DroppedRows
      /\ overtaken' \subseteq ProjectIds /\ worker' \in WorkerRow
  BY <1>1, <1>4 DEF Rows
<1>7. WorkerRuns'
  BY <1>2 DEF Standing, WorkerRuns, Moved
<1> PICK own : own = jobs[j].project  OBVIOUS
<1>8. FinishedAt(own)' /\ CurrentAt(own)'
  <2>1. PendingJobs(own)' # {}
    BY <1>1, <1>2, MovedJobs DEF Pending
  <2> QED  BY <2>1 DEF FinishedAt, CurrentAt
<1>9. \A p \in ProjectIds : /\ projects'[p] = projects[p]
                            /\ dropped'[p] = dropped[p]
                            /\ p \notin overtaken' => p \notin overtaken
  BY <1>4
<1>10. FinishedProjectIsShown' /\ RefreshIsCurrent'
  BY <1>2, <1>8, <1>9, MovedShows
<1>11. Standing'
  BY <1>3, <1>5, <1>6, <1>7, <1>10, KeptStands
<1> QED  BY <1>3, <1>5, <1>11

-----------------------------------------------------------------------------
(* The steps of the worker.                                                *)

\* The claim of the next job, which shows its project as running.
LEMMA ClaimStep ==
    ASSUME Standing, ClaimNext
    PROVE  Standing' /\ ProjectsKept /\ RowsKept
<1>1. PICK j \in DOMAIN jobs :
         /\ jobs[j].status = "queued"
         /\ jobs' = [WithStatus(j, "running") EXCEPT ![j].owned = TRUE]
         /\ worker' = [Resting EXCEPT !.pc = "load", !.job = j]
         /\ projects' = [projects EXCEPT ![jobs[j].project] = "running"]
         /\ overtaken' = overtaken \ {jobs[j].project}
         /\ dropped' = [dropped EXCEPT ![jobs[j].project] = {}]
  BY DEF ClaimNext
<1>2. Frame /\ worker.pc = "idle" /\ uploads' = uploads
  BY DEF ClaimNext, Frame, apiVars
<1>3. Rows /\ jobs \in Seq(JobRow)  BY DEF Standing, Rows
<1>4. Moved(j, "running") /\ RowsKept
  <2>1. jobs[j].status \in Pending /\ "running" \in Statuses
    BY <1>1 DEF Pending, Statuses
  <2> QED  BY <1>1, <1>3, <2>1, WithStatusMoves, MovedJobs
<1> PICK own : own = jobs[j].project  OBVIOUS
<1>5. own \in ProjectIds  BY <1>3, JobFields
<1>6. /\ projects' = [projects EXCEPT ![own] = "running"]
      /\ overtaken' = overtaken \ {own}
      /\ dropped' = [dropped EXCEPT ![own] = {}]
  BY <1>1
<1>7. /\ projects' \in ProjectRows /\ dropped' \in DroppedRows
      /\ overtaken' \subseteq ProjectIds
      /\ \A p \in ProjectIds : /\ p # own => projects'[p] = projects[p]
                               /\ p # own => dropped'[p] = dropped[p]
                               /\ p = own => projects'[p] = "running"
  <2>1. /\ projects \in ProjectRows /\ dropped \in DroppedRows
        /\ overtaken \subseteq ProjectIds /\ "running" \in Statuses
    BY <1>3 DEF Rows, Statuses
  <2> QED  BY <1>5, <1>6, <2>1 DEF ProjectRows, DroppedRows
<1>8. ProjectsKept
  <2>1. "running" \in Statuses /\ "running" # None
    BY ProjectsAssumption DEF Statuses
  <2> QED  BY <1>7, <2>1 DEF ProjectsKept, Shown
<1>9. /\ worker'.pc = "load" /\ worker'.job = j /\ worker'.seen = None
      /\ worker' \in WorkerRow
  <2>1. j \in Nat  BY <1>3
  <2> QED  BY <1>1, <2>1 DEF Resting, WorkerRow
<1>10. WorkerRuns'
  BY <1>4, <1>9 DEF WorkerRuns, Moved
<1>11. FinishedAt(own)' /\ CurrentAt(own)'
  <2>1. Moved(j, "running") /\ "running" \in Pending  BY <1>4 DEF Pending
  <2>2. j \in PendingJobs(own)'  BY <1>3, <2>1, MovedJobs
  <2> QED  BY <2>2 DEF FinishedAt, CurrentAt
<1>12. \A p \in ProjectIds :
          p # own => /\ projects'[p] = projects[p] /\ dropped'[p] = dropped[p]
                     /\ p \notin overtaken' => p \notin overtaken
  BY <1>6, <1>7
<1>13. worker.pc \notin {"select", "update"} /\ worker'.pc # "update"
  BY <1>2, <1>9
<1>14. FinishedProjectIsShown' /\ RefreshIsCurrent'
  BY <1>4, <1>11, <1>12, <1>13, MovedShows
<1>15. Standing'
  BY <1>2, <1>4, <1>7, <1>8, <1>9, <1>10, <1>14, KeptStands
<1> QED  BY <1>4, <1>8, <1>15

\* A status of the worker's, whose project it refreshes next.
LEMMA SetAndGoStep ==
    ASSUME Standing, Frame, worker.pc \in {"load", "ready", "work"},
           NEW status \in Statuses, NEW then \in {"release", "work"},
           then = "work" => status = "running",
           SetAndGo(status, then), UNCHANGED <<shownVars, uploads>>
    PROVE  Standing' /\ RowsKept /\ ProjectsKept
<1>1. Rows /\ WorkerRuns /\ jobs \in Seq(JobRow) /\ worker \in WorkerRow
  BY DEF Standing, Rows
<1> PICK j : j = worker.job  OBVIOUS
<1>2. j \in DOMAIN jobs /\ jobs[j].status = "running" /\ worker.seen = None
  BY <1>1 DEF WorkerRuns
<1>3. Moved(j, status) /\ RowsKept
  <2>1. jobs[j].status \in Pending  BY <1>2 DEF Pending
  <2>2. jobs' = WithStatus(j, status)  BY DEF SetAndGo
  <2> QED  BY <1>1, <1>2, <2>1, <2>2, WithStatusMoves, MovedJobs
<1>4. UNCHANGED <<projects, overtaken, dropped>>  BY DEF shownVars
<1>5. ProjectsKept  BY <1>4 DEF ProjectsKept, Shown
<1>6. /\ worker'.pc = "select" /\ worker'.job = j /\ worker'.seen = None
      /\ worker'.then = then /\ worker' \in WorkerRow
  BY <1>1, <1>2 DEF SetAndGo, WorkerRow
<1>7. /\ projects' \in ProjectRows /\ dropped' \in DroppedRows
      /\ overtaken' \subseteq ProjectIds
  BY <1>1, <1>4 DEF Rows
<1>8. WorkerRuns'
  BY <1>2, <1>3, <1>6 DEF WorkerRuns, Moved
<1> PICK own : own = jobs[j].project  OBVIOUS
<1>9. FinishedAt(own)' /\ CurrentAt(own)'
  <2>1. AtRefresh(own)' /\ ~ Refreshing(own)'
    BY <1>3, <1>6 DEF AtRefresh, Refreshing, Moved
  <2> QED  BY <2>1 DEF FinishedAt, CurrentAt
<1>10. \A p \in ProjectIds : /\ projects'[p] = projects[p]
                             /\ dropped'[p] = dropped[p]
                             /\ p \notin overtaken' => p \notin overtaken
  BY <1>4
<1>11. worker.pc \notin {"select", "update"} /\ worker'.pc # "update"
  BY <1>6
<1>12. FinishedProjectIsShown' /\ RefreshIsCurrent'
  BY <1>3, <1>9, <1>10, <1>11, MovedShows
<1>13. Standing'
  BY <1>3, <1>5, <1>6, <1>7, <1>8, <1>12, KeptStands
<1> QED  BY <1>3, <1>5, <1>13

\* The worker has found the configuration.
LEMMA LoadedStep ==
    ASSUME Standing, Frame, worker.pc = "load", Goto("ready"),
           UNCHANGED <<jobs, shownVars, uploads>>
    PROVE  Standing' /\ RowsKept /\ ProjectsKept
<1>1. UNCHANGED <<projects, overtaken, dropped>>  BY DEF shownVars
<1>2. Rows /\ WorkerRuns /\ worker \in WorkerRow /\ RowsKept
  BY SameRowsKept DEF Standing, Rows
<1>3. /\ worker' \in WorkerRow /\ worker'.pc = "ready" /\ worker'.job = worker.job
      /\ worker'.seen = worker.seen
  BY <1>2 DEF Goto, WorkerRow
<1>4. WorkerRuns'  BY <1>2, <1>3 DEF WorkerRuns
<1>5. ProjectsKept  BY <1>1 DEF ProjectsKept, Shown
<1>6. ASSUME NEW p \in ProjectIds, p \notin overtaken'
      PROVE  FinishedAt(p)' /\ CurrentAt(p)'
  <2>1. FinishedAt(p) /\ CurrentAt(p)  BY <1>1, <1>6, ByProject DEF Standing
  <2>2. ~ AtRefresh(p) /\ ~ Refreshing(p)'
    BY <1>3 DEF AtRefresh, Refreshing
  <2> QED  BY <1>1, <2>1, <2>2, SameJobsAll, StaysShown
<1>7. FinishedProjectIsShown' /\ RefreshIsCurrent'  BY <1>6, ShownByProject
<1>8. /\ projects' \in ProjectRows /\ dropped' \in DroppedRows
      /\ overtaken' \subseteq ProjectIds
  BY <1>1, <1>2 DEF Rows
<1> QED  BY <1>2, <1>3, <1>4, <1>5, <1>7, <1>8, KeptStands

\* Where the worker goes after a refresh, or when it is killed.
LEMMA WorkerForms ==
    ASSUME Rows, WorkerRuns
    PROVE  /\ Resting \in WorkerRow /\ Resting.pc = "idle" /\ Resting.seen = None
           /\ Continued \in WorkerRow /\ Continued.seen = None
           /\ Continued.pc = worker.then /\ Continued.job = worker.job
           /\ worker.then \in {"idle", "work", "release"}
<1>1. worker.then \in {"idle", "work", "release"} /\ worker.job \in Nat
  BY DEF Rows, WorkerRow
<1> QED  BY <1>1 DEF Continued, Resting, WorkerRow

LEMMA ContinuedRuns ==
    ASSUME Rows, WorkerRuns, worker.pc \in {"select", "update"}, jobs' = jobs,
           worker' = Continued
    PROVE  /\ worker' \in WorkerRow /\ worker'.pc # "update"
           /\ WorkerRuns'
BY WorkerForms DEF WorkerRuns

\* The first statement of a refresh.
LEMMA SelectStep ==
    ASSUME Standing, SelectStatuses
    PROVE  Standing' /\ RowsKept /\ ProjectsKept
<1>1. Frame /\ UNCHANGED <<jobs, projects, uploads>> /\ worker.pc = "select"
  BY DEF SelectStatuses, Frame, apiVars
<1>2. Rows /\ WorkerRuns /\ worker \in WorkerRow /\ RowsKept
  BY <1>1, SameRowsKept DEF Standing, Rows
<1>3. ProjectsKept  BY <1>1 DEF ProjectsKept, Shown
<1> PICK own : own = jobs[worker.job].project  OBVIOUS
<1> DEFINE found == StatusesOf(jobs, own)
<1>4. /\ worker' = IF found = {} THEN Continued
                   ELSE [worker EXCEPT !.pc = "update", !.seen = Derived(found)]
      /\ overtaken' = overtaken \ {own}
      /\ dropped' = [dropped EXCEPT ![own] = {}]
  BY DEF SelectStatuses
<1>5. found \in SUBSET Statuses  BY DEF StatusesOf
<1> HIDE DEF found
<1>6. own \in ProjectIds
  BY <1>1, <1>2, JobFields DEF Rows, WorkerRuns
<1>7. /\ projects' \in ProjectRows /\ dropped' \in DroppedRows
      /\ overtaken' \subseteq ProjectIds
      /\ \A p \in ProjectIds : dropped'[p] = IF p = own THEN {} ELSE dropped[p]
  BY <1>1, <1>2, <1>4, <1>6 DEF Rows, DroppedRows
<1>8. ASSUME NEW p \in ProjectIds, p \notin overtaken', p # own,
             ~ Refreshing(p)'
      PROVE  FinishedAt(p)' /\ CurrentAt(p)'
  <2>1. p \notin overtaken  BY <1>4, <1>8
  <2>2. FinishedAt(p) /\ CurrentAt(p)  BY <2>1, ByProject DEF Standing
  <2>3. ~ AtRefresh(p)  BY <1>8 DEF AtRefresh
  <2>4. dropped'[p] = dropped[p]  BY <1>7, <1>8
  <2> QED  BY <1>1, <1>8, <2>2, <2>3, <2>4, SameJobsAll, StaysShown
<1>9. CASE found = {}
  <2>1. worker' = Continued  BY <1>4, <1>9
  <2>2. worker' \in WorkerRow /\ worker'.pc # "update" /\ WorkerRuns'
    BY <1>1, <1>2, <2>1, ContinuedRuns
  <2>3. JobsOf(own) = {}
    BY <1>9 DEF found, StatusesOf, JobsOf, HasRow
  <2>4. ASSUME NEW p \in ProjectIds, p \notin overtaken'
        PROVE  FinishedAt(p)' /\ CurrentAt(p)'
    <3>1. ~ Refreshing(p)'  BY <2>2 DEF Refreshing
    <3>2. CASE p = own
      <4>1. JobsOf(p)' = {}  BY <1>1, <2>3, <3>2 DEF JobsOf, HasRow
      <4> QED  BY <3>1, <4>1 DEF FinishedAt, CurrentAt
    <3> QED  BY <1>8, <2>4, <3>1, <3>2
  <2>5. FinishedProjectIsShown' /\ RefreshIsCurrent'  BY <2>4, ShownByProject
  <2> QED  BY <1>1, <1>2, <1>3, <1>7, <2>2, <2>5, KeptStands
<1>10. CASE found # {}
  <2>1. Derived(found) \in Statuses  BY <1>5, <1>10, DerivedIsStatus
  <2>2. /\ worker' \in WorkerRow /\ worker'.pc = "update"
        /\ worker'.seen = Derived(found) /\ worker'.job = worker.job
        /\ worker'.then = worker.then
    BY <1>2, <1>4, <1>10, <2>1 DEF WorkerRow
  <2>3. None \notin Statuses  BY ProjectsAssumption DEF Statuses
  <2>4. WorkerRuns'
    BY <1>1, <1>2, <2>1, <2>2, <2>3 DEF WorkerRuns
  <2>5. ASSUME NEW p \in ProjectIds, p \notin overtaken'
        PROVE  FinishedAt(p)' /\ CurrentAt(p)'
    <3>1. CASE p = own
      <4>1. AtRefresh(p)'  BY <1>1, <2>2, <3>1 DEF AtRefresh
      <4>2. StatusesOf(jobs', p) \cup dropped'[p] = found
        BY <1>1, <1>7, <3>1 DEF found
      <4>3. worker'.seen = Derived(Found(p))'
        BY <2>2, <4>2 DEF Found
      <4> QED  BY <4>1, <4>3 DEF FinishedAt, CurrentAt
    <3>2. CASE p # own
      <4>1. ~ Refreshing(p)'
        BY <1>1, <2>2, <3>2 DEF Refreshing
      <4> QED  BY <1>8, <2>5, <3>2, <4>1
    <3> QED  BY <3>1, <3>2
  <2>6. FinishedProjectIsShown' /\ RefreshIsCurrent'  BY <2>5, ShownByProject
  <2> QED  BY <1>1, <1>2, <1>3, <1>7, <2>2, <2>4, <2>6, KeptStands
<1> QED  BY <1>9, <1>10

\* The second statement of a refresh.
LEMMA UpdateStep ==
    ASSUME Standing, UpdateProject
    PROVE  Standing' /\ RowsKept /\ ProjectsKept
<1>1. /\ Frame /\ UNCHANGED <<jobs, uploads, overtaken, dropped>>
      /\ worker.pc = "update" /\ worker' = Continued
  BY DEF UpdateProject, Frame, apiVars
<1>2. Rows /\ WorkerRuns /\ projects \in ProjectRows /\ RowsKept
  BY <1>1, SameRowsKept DEF Standing, Rows
<1>3. worker.seen \in Statuses  BY <1>1, <1>2 DEF WorkerRuns
<1> PICK own : own = jobs[worker.job].project  OBVIOUS
<1>4. projects' = IF Shown(own) THEN [projects EXCEPT ![own] = worker.seen]
                                ELSE projects
  BY DEF UpdateProject
<1>5. own \in ProjectIds
  BY <1>1, <1>2, JobFields DEF Rows, WorkerRuns
<1>6. /\ projects' \in ProjectRows
      /\ \A p \in ProjectIds :
            projects'[p] = IF p = own /\ Shown(own) THEN worker.seen
                                                    ELSE projects[p]
  BY <1>2, <1>3, <1>4, <1>5 DEF ProjectRows
<1>7. None \notin Statuses  BY ProjectsAssumption DEF Statuses
<1>8. ProjectsKept  BY <1>3, <1>6, <1>7 DEF ProjectsKept, Shown
<1>9. worker' \in WorkerRow /\ worker'.pc # "update" /\ WorkerRuns'
  BY <1>1, <1>2, ContinuedRuns
<1>10. ASSUME NEW p \in ProjectIds, p \notin overtaken'
       PROVE  FinishedAt(p)' /\ CurrentAt(p)'
  <2>1. ~ Refreshing(p)'  BY <1>9 DEF Refreshing
  <2>2. FinishedAt(p) /\ CurrentAt(p)  BY <1>1, <1>10, ByProject DEF Standing
  <2>3. SameJobs(p)  BY <1>1, SameJobsAll
  <2>4. CASE p # own
    <3>1. ~ AtRefresh(p)  BY <2>4 DEF AtRefresh
    <3>2. projects'[p] = projects[p]  BY <1>6, <2>4
    <3> QED  BY <1>1, <2>1, <2>2, <2>3, <3>1, <3>2, StaysShown
  <2>5. CASE p = own /\ Shown(own)
    <3>1. Refreshing(p)  BY <1>1, <2>5 DEF Refreshing
    <3>2. projects'[p] = worker.seen  BY <1>6, <2>5
    <3>3. Found(p)' = Found(p)  BY <1>1, <2>3 DEF Found, SameJobs
    <3>4. FinishedAt(p)'
      BY <2>2, <2>3, <2>5, <3>1, <3>2, <3>3 DEF FinishedAt, CurrentAt, SameJobs
    <3> QED  BY <2>1, <3>4 DEF CurrentAt
  <2>6. CASE p = own /\ ~ Shown(own)
    <3>1. ~ Shown(p)'  BY <1>6, <2>6 DEF Shown
    <3> QED  BY <3>1 DEF FinishedAt, CurrentAt
  <2> QED  BY <2>4, <2>5, <2>6
<1>11. FinishedProjectIsShown' /\ RefreshIsCurrent'  BY <1>10, ShownByProject
<1>12. overtaken' \subseteq ProjectIds /\ dropped' \in DroppedRows
  BY <1>1, <1>2 DEF Rows
<1> QED  BY <1>1, <1>2, <1>6, <1>8, <1>9, <1>11, <1>12, KeptStands

\* The end of run_once: nobody owns the job.
LEMMA ReleaseStep ==
    ASSUME Standing, ReleaseClaim
    PROVE  Standing' /\ RowsKept /\ ProjectsKept
<1>1. /\ Frame /\ UNCHANGED <<projects, uploads, overtaken, dropped>>
      /\ worker.pc = "release" /\ worker' = Resting
      /\ jobs' = [jobs EXCEPT ![worker.job].owned = FALSE]
  BY DEF ReleaseClaim, Frame, apiVars, shownVars
<1>2. Rows /\ WorkerRuns /\ jobs \in Seq(JobRow)
  BY DEF Standing, Rows
<1> PICK j : j = worker.job  OBVIOUS
<1>3. j \in DOMAIN jobs  BY <1>1, <1>2 DEF WorkerRuns
<1> DEFINE r == [jobs[j] EXCEPT !.owned = FALSE]
<1>4. /\ r \in JobRow /\ r.status = jobs[j].status
      /\ r.project = jobs[j].project
      /\ r.upload = jobs[j].upload /\ r.pin = jobs[j].pin
  <2>1. jobs[j] \in JobRow  BY <1>2, <1>3
  <2> QED  BY <2>1 DEF JobRow
<1> DEFINE rows == [jobs EXCEPT ![j] = r]
<1>5. jobs' = rows  BY <1>1
<1> HIDE DEF r
<1>6. /\ rows \in Seq(JobRow) /\ DOMAIN rows = DOMAIN jobs /\ rows[j] = r
      /\ \A k \in DOMAIN jobs : k # j => rows[k] = jobs[k]
  BY <1>2, <1>3, <1>4, RowReplaced
<1> HIDE DEF rows
<1>7. /\ jobs' \in Seq(JobRow) /\ DOMAIN jobs' = DOMAIN jobs
      /\ \A k \in DOMAIN jobs : /\ jobs'[k].project = jobs[k].project
                                /\ jobs'[k].upload = jobs[k].upload
                                /\ jobs'[k].pin = jobs[k].pin
                                /\ jobs'[k].status = jobs[k].status
  BY <1>3, <1>4, <1>5, <1>6
<1>8. RowsKept  BY <1>7 DEF RowsKept
<1>9. ProjectsKept  BY <1>1 DEF ProjectsKept, Shown
<1>10. worker' \in WorkerRow /\ worker'.pc = "idle" /\ worker'.seen = None
  BY <1>1, <1>2, WorkerForms
<1>11. WorkerRuns'  BY <1>10 DEF WorkerRuns
<1>12. ASSUME NEW p \in ProjectIds, p \notin overtaken'
       PROVE  FinishedAt(p)' /\ CurrentAt(p)'
  <2>1. SameJobs(p)  BY <1>7, SameRows
  <2>2. FinishedAt(p) /\ CurrentAt(p)  BY <1>1, <1>12, ByProject DEF Standing
  <2>3. ~ AtRefresh(p) /\ ~ Refreshing(p)'
    BY <1>1, <1>10 DEF AtRefresh, Refreshing
  <2> QED  BY <1>1, <2>1, <2>2, <2>3, StaysShown
<1>13. FinishedProjectIsShown' /\ RefreshIsCurrent'  BY <1>12, ShownByProject
<1>14. /\ projects' \in ProjectRows /\ dropped' \in DroppedRows
       /\ overtaken' \subseteq ProjectIds
  BY <1>1, <1>2 DEF Rows
<1> QED  BY <1>1, <1>8, <1>9, <1>10, <1>11, <1>13, <1>14, KeptStands

\* A kill of the worker.
LEMMA KillWorkerStep ==
    ASSUME Standing, KillWorker
    PROVE  Standing' /\ RowsKept /\ ProjectsKept
<1>1. /\ Frame /\ UNCHANGED <<projects, jobs, uploads, dropped>>
      /\ worker.pc # "idle" /\ worker' = Resting
  BY DEF KillWorker, Frame
<1>2. Rows /\ WorkerRuns /\ RowsKept
  BY <1>1, SameRowsKept DEF Standing, Rows
<1>3. ProjectsKept  BY <1>1 DEF ProjectsKept, Shown
<1> PICK own : own = jobs[worker.job].project  OBVIOUS
<1>4. own \in ProjectIds
  BY <1>1, <1>2, JobFields DEF Rows, WorkerRuns
<1>5. overtaken' = IF worker.pc \in {"select", "update"} THEN overtaken \cup {own}
                                                        ELSE overtaken
  BY DEF KillWorker
<1>6. worker' \in WorkerRow /\ worker'.pc = "idle" /\ worker'.seen = None
  BY <1>1, <1>2, WorkerForms
<1>7. WorkerRuns'  BY <1>6 DEF WorkerRuns
<1>8. ASSUME NEW p \in ProjectIds, p \notin overtaken'
      PROVE  FinishedAt(p)' /\ CurrentAt(p)'
  <2>1. p \notin overtaken /\ ~ AtRefresh(p)
    BY <1>5, <1>8 DEF AtRefresh
  <2>2. FinishedAt(p) /\ CurrentAt(p)  BY <2>1, ByProject DEF Standing
  <2>3. ~ Refreshing(p)'  BY <1>6 DEF Refreshing
  <2> QED  BY <1>1, <2>1, <2>2, <2>3, SameJobsAll, StaysShown
<1>9. FinishedProjectIsShown' /\ RefreshIsCurrent'  BY <1>8, ShownByProject
<1>10. /\ projects' \in ProjectRows /\ dropped' \in DroppedRows
       /\ overtaken' \subseteq ProjectIds
  BY <1>1, <1>2, <1>4, <1>5 DEF Rows
<1> QED  BY <1>1, <1>2, <1>3, <1>6, <1>7, <1>9, <1>10, KeptStands

-----------------------------------------------------------------------------
(* The steps of the API.                                                   *)

\* A new project has no jobs yet.
LEMMA CreateProjectStep ==
    ASSUME Standing, CreateProject
    PROVE  Standing' /\ RowsKept /\ ProjectsKept
<1>1. Frame /\ UNCHANGED <<jobs, uploads, worker, overtaken, dropped>>
  BY DEF CreateProject, Frame, apiVars
<1>2. Rows /\ WorkerRuns /\ JobsHaveProjects /\ RowsKept
  BY <1>1, SameRowsKept DEF Standing, Rows
<1>3. PICK new \in ProjectIds :
         projects[new] = None /\ projects' = [projects EXCEPT ![new] = "queued"]
  BY DEF CreateProject
<1>4. None \notin Statuses /\ "queued" \in Statuses
  BY ProjectsAssumption DEF Statuses
<1>5. /\ projects' \in ProjectRows
      /\ \A p \in ProjectIds :
            projects'[p] = IF p = new THEN "queued" ELSE projects[p]
  BY <1>2, <1>3, <1>4 DEF Rows, ProjectRows
<1>6. ProjectsKept  BY <1>3, <1>4, <1>5 DEF ProjectsKept, Shown
<1>7. WorkerRuns'  BY <1>1, <1>2 DEF WorkerRuns
<1>8. \A k \in DOMAIN jobs : jobs[k].project # new
  BY <1>2, <1>3 DEF JobsHaveProjects
<1>9. ASSUME NEW p \in ProjectIds, p \notin overtaken'
      PROVE  FinishedAt(p)' /\ CurrentAt(p)'
  <2>1. SameJobs(p)  BY <1>1, SameJobsAll
  <2>2. CASE p = new
    <3>1. JobsOf(p)' = {}  BY <1>1, <1>8, <2>2 DEF JobsOf
    <3>2. ~ Refreshing(p)'
      BY <1>1, <1>2, <1>8, <2>2 DEF Refreshing, WorkerRuns
    <3> QED  BY <3>1, <3>2 DEF FinishedAt, CurrentAt
  <2>3. CASE p # new
    <3>1. projects'[p] = projects[p]  BY <1>5, <2>3
    <3>2. FinishedAt(p) /\ CurrentAt(p)  BY <1>1, <1>9, ByProject DEF Standing
    <3>3. /\ AtRefresh(p) => jobs'[worker.job].project = p
          /\ Refreshing(p)' => Refreshing(p)
      BY <1>1 DEF AtRefresh, Refreshing
    <3> QED  BY <1>1, <2>1, <3>1, <3>2, <3>3, StaysShown
  <2> QED  BY <2>2, <2>3
<1>10. FinishedProjectIsShown' /\ RefreshIsCurrent'  BY <1>9, ShownByProject
<1>11. /\ overtaken' \subseteq ProjectIds /\ dropped' \in DroppedRows
       /\ worker' \in WorkerRow
  BY <1>1, <1>2 DEF Rows
<1> QED  BY <1>1, <1>2, <1>5, <1>6, <1>7, <1>10, <1>11, KeptStands

-----------------------------------------------------------------------------
(* The next write.                                                         *)

LEMMA TodoShape ==
    ASSUME Listed(todo), todo # <<>>
    PROVE  /\ Len(todo) \in Nat /\ Len(todo) >= 1 /\ DOMAIN todo = 1..Len(todo)
           /\ Head(todo) = todo[1]
           /\ Listed(Tail(todo)) /\ Len(Tail(todo)) = Len(todo) - 1
           /\ DOMAIN Tail(todo) = 1..(Len(todo) - 1)
           /\ \A i \in 1..(Len(todo) - 1) : Tail(todo)[i] = todo[i + 1]
<1> DEFINE S == {todo[i] : i \in DOMAIN todo}
<1>1. todo \in Seq(S)  BY DEF Listed
<1> HIDE DEF S
<1>2. Tail(todo) \in Seq(S)  BY <1>1, TailStep
<1> QED  BY <1>1, <1>2, TailStep, SeqOfItself

\* The first of a few writes and the rest.
LEMMA ShortTails ==
    ASSUME NEW a, NEW b, NEW c, NEW d, NEW e
    PROVE  /\ Head(<<a>>) = a /\ Tail(<<a>>) = <<>>
           /\ Head(<<a, b>>) = a /\ Tail(<<a, b>>) = <<b>>
           /\ Head(<<a, b, c>>) = a /\ Tail(<<a, b, c>>) = <<b, c>>
           /\ Head(<<a, b, c, d>>) = a /\ Tail(<<a, b, c, d>>) = <<b, c, d>>
           /\ Head(<<a, b, c, d, e>>) = a
           /\ Tail(<<a, b, c, d, e>>) = <<b, c, d, e>>
OBVIOUS

\* What a submission writes next in each of its phases, and then.
LEMMA Phases ==
    ASSUME NEW p, NEW u, NEW pin, NEW us
    PROVE  /\ Bringing(p, u, pin, us) =>
                 /\ Head(todo) = PutUpload(p)
                 /\ Tail(todo) = <<PutLayout(NewJob(p, u)),
                                   PutSnapshot(Len(jobs) + 1, pin),
                                   PutRow(Len(jobs) + 1), PutLogged(us)>>
           /\ Naming(p, u, pin, us) =>
                 /\ Head(todo) = PutLayout(NewJob(p, u))
                 /\ Tail(todo) = <<PutSnapshot(Len(jobs) + 1, pin),
                                   PutRow(Len(jobs) + 1), PutLogged(us)>>
           /\ Pinning(pin, us) =>
                 /\ Head(todo) = PutSnapshot(Len(jobs), pin)
                 /\ Tail(todo) = <<PutRow(Len(jobs)), PutLogged(us)>>
           /\ Queueing(us) => /\ Head(todo) = PutRow(Len(jobs))
                              /\ Tail(todo) = <<PutLogged(us)>>
           /\ Logging(us) => /\ Head(todo) = PutLogged(us)
                             /\ Tail(todo) = <<>>
<1> DEFINE a == PutUpload(p)
           b == PutLayout(NewJob(p, u))
           c == PutSnapshot(Len(jobs) + 1, pin)
           d == PutRow(Len(jobs) + 1)
           e == PutLogged(us)
           f == PutSnapshot(Len(jobs), pin)
           g == PutRow(Len(jobs))
<1>1. /\ Bringing(p, u, pin, us) => todo = <<a, b, c, d, e>>
      /\ Naming(p, u, pin, us) => todo = <<b, c, d, e>>
      /\ Pinning(pin, us) => todo = <<f, g, e>>
      /\ Queueing(us) => todo = <<g, e>>
      /\ Logging(us) => todo = <<e>>
  BY DEF Bringing, Naming, Pinning, Queueing, Logging
<1> HIDE DEF a, b, c, d, e, f, g
<1>2. /\ Head(<<a, b, c, d, e>>) = a /\ Tail(<<a, b, c, d, e>>) = <<b, c, d, e>>
      /\ Head(<<b, c, d, e>>) = b /\ Tail(<<b, c, d, e>>) = <<c, d, e>>
      /\ Head(<<f, g, e>>) = f /\ Tail(<<f, g, e>>) = <<g, e>>
      /\ Head(<<g, e>>) = g /\ Tail(<<g, e>>) = <<e>>
      /\ Head(<<e>>) = e /\ Tail(<<e>>) = <<>>
  BY ShortTails
<1>3. /\ Bringing(p, u, pin, us) => Head(todo) = a /\ Tail(todo) = <<b, c, d, e>>
      /\ Naming(p, u, pin, us) => Head(todo) = b /\ Tail(todo) = <<c, d, e>>
      /\ Pinning(pin, us) => Head(todo) = f /\ Tail(todo) = <<g, e>>
      /\ Queueing(us) => Head(todo) = g /\ Tail(todo) = <<e>>
      /\ Logging(us) => Head(todo) = e /\ Tail(todo) = <<>>
  BY <1>1, <1>2, Zenon
<1> QED  BY <1>3 DEF a, b, c, d, e, f, g

\* The kind of its next write tells the phase.
LEMMA SubmittingHead ==
    ASSUME Submitting
    PROVE  LET put == Head(todo).put
           IN  /\ put \in {"upload", "layout", "snapshot", "row", "logged"}
               /\ put = "upload" =>
                     \E us : \E p \in ProjectIds, u \in Nat, pin \in Pins :
                                Bringing(p, u, pin, us)
               /\ put = "layout" =>
                     \E us : \E p \in ProjectIds, u \in Nat, pin \in Pins :
                                Naming(p, u, pin, us)
               /\ put = "snapshot" => \E us : \E pin \in Pins : Pinning(pin, us)
               /\ put = "row" => \E us : Queueing(us)
               /\ put = "logged" => \E us : Logging(us)
<1> DEFINE put == Head(todo).put
<1>1. PICK us :
         \/ \E p \in ProjectIds, u \in Nat, pin \in Pins :
               Bringing(p, u, pin, us) \/ Naming(p, u, pin, us)
         \/ \E pin \in Pins : Pinning(pin, us)
         \/ Queueing(us)
         \/ Logging(us)
  BY DEF Submitting
<1>2. \A x, y : /\ PutUpload(x).put = "upload" /\ PutLayout(x).put = "layout"
                /\ PutSnapshot(x, y).put = "snapshot"
                /\ PutRow(x).put = "row" /\ PutLogged(x).put = "logged"
  BY DEF PutUpload, PutLayout, PutSnapshot, PutRow, PutLogged
<1>3. ASSUME NEW p, NEW u, NEW pin
      PROVE  /\ Bringing(p, u, pin, us) => put = "upload"
             /\ Naming(p, u, pin, us) => put = "layout"
             /\ Pinning(pin, us) => put = "snapshot"
             /\ Queueing(us) => put = "row"
             /\ Logging(us) => put = "logged"
  <2> DEFINE job == NewJob(p, u)
             n == Len(jobs)
  <2>1. /\ Bringing(p, u, pin, us) => Head(todo) = PutUpload(p)
        /\ Naming(p, u, pin, us) => Head(todo) = PutLayout(job)
        /\ Pinning(pin, us) => Head(todo) = PutSnapshot(n, pin)
        /\ Queueing(us) => Head(todo) = PutRow(n)
        /\ Logging(us) => Head(todo) = PutLogged(us)
    BY Phases
  <2> HIDE DEF job, n
  <2> QED  BY <1>2, <2>1
<1>4. /\ Queueing(us) => put = "row"
      /\ Logging(us) => put = "logged"
      /\ \A p, u, pin : /\ Bringing(p, u, pin, us) => put = "upload"
                        /\ Naming(p, u, pin, us) => put = "layout"
                        /\ Pinning(pin, us) => put = "snapshot"
  BY <1>3
<1> HIDE DEF put
<1>5. /\ put \in {"upload", "layout", "snapshot", "row", "logged"}
      /\ put = "upload" =>
            \E p \in ProjectIds, u \in Nat, pin \in Pins : Bringing(p, u, pin, us)
      /\ put = "layout" =>
            \E p \in ProjectIds, u \in Nat, pin \in Pins : Naming(p, u, pin, us)
      /\ put = "snapshot" => \E pin \in Pins : Pinning(pin, us)
      /\ put = "row" => Queueing(us)
      /\ put = "logged" => Logging(us)
  BY <1>1, <1>4
<1> QED  BY <1>5 DEF put

LEMMA DeletingHead ==
    ASSUME NEW p, Deleting(p), Listed(todo), todo # <<>>
    PROVE  \/ /\ Len(todo) >= 4
              /\ \E j \in DOMAIN jobs : Head(todo) = PutCancel(j)
           \/ Len(todo) = 3 /\ Head(todo) = PutAwait(p)
           \/ Len(todo) = 2 /\ Head(todo) = PutTree(p)
           \/ Len(todo) = 1 /\ Head(todo) = PutGone(p)
<1> PICK n : n = Len(todo)  OBVIOUS
<1>1. /\ n \in Nat /\ n >= 1 /\ Head(todo) = todo[1]
  BY TodoShape
<1>2. n >= 4 \/ n = 1 \/ n = 2 \/ n = 3  BY <1>1
<1>3. CASE n >= 4
  <2>1. 1 \in 1..(n - 3)  BY <1>1, <1>3
  <2> QED  BY <1>1, <1>3, <2>1 DEF Deleting
<1>4. CASE n = 1  BY <1>1, <1>4 DEF Deleting
<1>5. CASE n = 2
  <2>1. n >= 2 /\ n - 1 = 1  BY <1>5
  <2> QED  BY <1>1, <1>5, <2>1 DEF Deleting
<1>6. CASE n = 3
  <2>1. n >= 3 /\ n - 2 = 1  BY <1>6
  <2> QED  BY <1>1, <1>6, <2>1 DEF Deleting
<1> QED  BY <1>2, <1>3, <1>4, <1>5, <1>6

\* The kind of the next write tells which handler runs.
LEMMA NextWrite ==
    ASSUME TodoFits, Listed(todo), todo # <<>>, jobs \in Seq(JobRow)
    PROVE  /\ Head(todo).put \in {"secret", "clear", "profiles", "cookies"}
                 => Configuring
           /\ Head(todo).put \in {"upload", "layout", "snapshot", "row", "logged"}
                 => Submitting
           /\ Head(todo).put \in {"cancel", "await", "tree", "gone"}
                 => \E p \in ProjectIds : Deleting(p)
           /\ Head(todo).put \in {"stop", "owner", "ended", "unlink",
                                  "directory", "mark", "erase"}
                 => Cleaning
<1>1. /\ \A j : PutCancel(j).put = "cancel"
      /\ \A p : /\ PutAwait(p).put = "await"
                /\ PutTree(p).put = "tree" /\ PutGone(p).put = "gone"
  BY DEF PutCancel, PutAwait, PutTree, PutGone
<1>2. Configuring =>
         Head(todo).put \in {"secret", "clear", "profiles", "cookies"}
  BY TodoShape DEF Configuring, ConfigWrites, ConfigWrite
<1>3. Submitting =>
         Head(todo).put \in {"upload", "layout", "snapshot", "row", "logged"}
  BY SubmittingHead
<1>4. \A p : Deleting(p) => Head(todo).put \in {"cancel", "await", "tree", "gone"}
  BY <1>1, DeletingHead
<1>5. Cleaning => Head(todo).put \in {"stop", "owner", "ended", "unlink",
                                      "directory", "mark", "erase"}
  BY TodoShape DEF Cleaning, CleaningWrite
<1> QED  BY <1>2, <1>3, <1>4, <1>5 DEF TodoFits

-----------------------------------------------------------------------------
(* Commits of the configuration.                                           *)

LEMMA CommitConfigStep ==
    ASSUME IInv, todo # <<>>, todo' = Tail(todo), up' = up,
           CommitConfig(Head(todo)), UNCHANGED projectVars
    PROVE  IInv'
<1> DEFINE w == Head(todo)
<1>1. /\ Configured /\ Standing /\ Listed(todo) /\ TodoFits
      /\ jobs \in Seq(JobRow) /\ GoodSecrets(secrets) /\ made \in 0..MaxProfiles
  BY DEF IInv, Standing, Rows, Configured
<1>2. Configuring
  BY <1>1, NextWrite DEF CommitConfig, CommitSecret, CommitClear,
                         CommitProfiles, CommitCookies
<1>3. ConfigWrite(w, TRUE, Len(secrets), made)
  <2>1. 1 \in DOMAIN todo /\ w = todo[1]  BY <1>1, TodoShape
  <2>2. ConfigWrite(todo[1], 1 = 1, Len(secrets), made)
    BY <1>2, <2>1 DEF Configuring, ConfigWrites
  <2> QED  BY <2>1, <2>2 DEF ConfigWrite
<1>4. /\ made' = made
      /\ GoodSecrets(secrets')
      /\ \A n \in DOMAIN secrets : /\ n \in DOMAIN secrets'
                                   /\ secrets'[n].kind = secrets[n].kind
  <2>1. CASE CommitSecret(w)
    <3>1. w.kind \in Kinds /\ Len(secrets) < MaxSecrets
      BY <1>3, <2>1 DEF ConfigWrite, CommitSecret
    <3>2. secrets' = Append(Superseded(w.kind), [kind |-> w.kind, active |-> TRUE])
      BY <2>1 DEF CommitSecret
    <3> QED  BY <1>1, <2>1, <3>1, <3>2, StoredSecret DEF CommitSecret
  <2>2. CASE CommitClear(w)
    <3>1. secrets' = Superseded(w.kind)  BY <2>2 DEF CommitClear
    <3> QED  BY <1>1, <2>2, <3>1, SupersededRows DEF CommitClear
  <2>3. CASE CommitProfiles(w) \/ CommitCookies(w)
    BY <1>1, <2>3 DEF CommitProfiles, CommitCookies
  <2> QED  BY <2>1, <2>2, <2>3 DEF CommitConfig
<1>5. /\ profiles' = profiles \/ GoodProfiles(profiles', made)
      /\ GoodCookies(cookies')
  BY <1>1, <1>3 DEF CommitConfig, CommitSecret, CommitClear, CommitProfiles,
                    CommitCookies, ConfigWrite, Configured
<1>6. Configured'
  BY <1>1, <1>4, <1>5 DEF Configured
<1>7. Standing'
  BY <1>1, <1>4, <1>6, ConfigStands
<1>8. Listed(todo') /\ Configuring'
  <2>1. \A i \in DOMAIN todo' : /\ i + 1 \in DOMAIN todo /\ i + 1 # 1
                                /\ todo'[i] = todo[i + 1]
    BY <1>1, TodoShape
  <2>2. \A i \in DOMAIN todo' : ConfigWrite(todo'[i], FALSE, Len(secrets), made)
    BY <1>2, <2>1 DEF Configuring, ConfigWrites
  <2>3. \A i \in DOMAIN todo' : ConfigWrite(todo'[i], i = 1, Len(secrets'), made')
    BY <1>4, <2>2 DEF ConfigWrite
  <2> QED  BY <1>1, <2>3, TodoShape DEF Configuring, ConfigWrites
<1> QED  BY <1>7, <1>8 DEF IInv, TodoFits

-----------------------------------------------------------------------------
(* Commits of a submission and of the deletions.                           *)

\* A write of the API to rows of jobs or to a project, while the worker
\* stands: what it has to keep, and what it has to show for the rest.
LEMMA WriteStands ==
    ASSUME Standing, Frame, UNCHANGED <<worker, overtaken>>,
           jobs' \in Seq(JobRow), DOMAIN jobs \subseteq DOMAIN jobs',
           uploads' \in Seq(UploadRow), dropped' \in DroppedRows, Videos',
           \A k \in DOMAIN jobs :
              /\ jobs'[k].project = jobs[k].project
              /\ jobs[k].status = "running" => jobs'[k].status = "running",
           \A k \in DOMAIN jobs' :
              k \in DOMAIN jobs \/ projects[jobs'[k].project] # None,
           projects' \in ProjectRows,
           \A p \in ProjectIds : projects[p] # None => projects'[p] # None,
           \A k \in DOMAIN jobs' :
              jobs'[k].status \in Pending =>
                 \/ /\ k \in DOMAIN jobs /\ jobs[k].status \in Pending
                    /\ jobs'[k].pin = jobs[k].pin
                    /\ projects'[jobs[k].project] = projects[jobs[k].project]
                 \/ projects'[jobs'[k].project] \in Statuses /\ Loadable(k)',
           \A p \in ProjectIds :
              p \notin overtaken =>
                 \/ /\ SameJobs(p) /\ projects'[p] = projects[p]
                    /\ dropped'[p] = dropped[p]
                 \/ FinishedAt(p)' /\ CurrentAt(p)'
    PROVE  Standing'
<1>1. Configured' /\ secrets' = secrets  BY FrameKeeps DEF Standing
<1>2. /\ Rows /\ WorkerRuns /\ JobsHaveProjects /\ ActiveJobsAreRunnable
      /\ jobs \in Seq(JobRow)
  BY DEF Standing, Rows
<1>3. Rows'  BY <1>2 DEF Rows
<1>4. \A k \in DOMAIN jobs' : jobs'[k].project \in ProjectIds
  BY JobFields
<1>5. JobsHaveProjects'
  BY <1>2, <1>4 DEF JobsHaveProjects
<1>6. worker.pc # "idle" => /\ worker.job \in DOMAIN jobs
                            /\ worker.job \in DOMAIN jobs'
                            /\ jobs'[worker.job].project = jobs[worker.job].project
  BY <1>2 DEF WorkerRuns
<1>7. WorkerRuns'
  <2>1. \/ worker.pc \in {"load", "ready", "work"}
        \/ worker.pc \in {"select", "update"} /\ worker.then = "work"
        => jobs'[worker.job].status = "running"
    BY <1>2, <1>6 DEF WorkerRuns
  <2> QED  BY <1>2, <1>6, <2>1 DEF WorkerRuns
<1>8. ActiveJobsAreRunnable'
  <2> SUFFICES ASSUME NEW k \in DOMAIN jobs', jobs'[k].status \in Pending
               PROVE  projects'[jobs'[k].project] \in Statuses /\ Loadable(k)'
    BY DEF ActiveJobsAreRunnable, Shown
  <2>1. CASE /\ k \in DOMAIN jobs /\ jobs[k].status \in Pending
             /\ jobs'[k].pin = jobs[k].pin
             /\ projects'[jobs[k].project] = projects[jobs[k].project]
    <3>1. projects[jobs[k].project] \in Statuses /\ Loadable(k)
      BY <1>2, <2>1 DEF ActiveJobsAreRunnable, Shown
    <3>2. Loadable(k)'
      BY <1>1, <2>1, <3>1 DEF Loadable, HasConfig, Resolve
    <3> QED  BY <2>1, <3>1, <3>2
  <2> QED  BY <2>1
<1>9. ASSUME NEW p \in ProjectIds, p \notin overtaken'
      PROVE  FinishedAt(p)' /\ CurrentAt(p)'
  <2>1. p \notin overtaken  BY <1>9
  <2>2. CASE /\ SameJobs(p) /\ projects'[p] = projects[p]
             /\ dropped'[p] = dropped[p]
    <3>1. FinishedAt(p) /\ CurrentAt(p)  BY <2>1, ByProject DEF Standing
    <3>2. /\ AtRefresh(p) => jobs'[worker.job].project = p
          /\ Refreshing(p)' => Refreshing(p)
      BY <1>6 DEF AtRefresh, Refreshing
    <3> QED  BY <2>2, <3>1, <3>2, StaysShown
  <2> QED  BY <2>1, <2>2
<1>10. FinishedProjectIsShown' /\ RefreshIsCurrent'  BY <1>9, ShownByProject
<1> QED  BY <1>1, <1>3, <1>5, <1>7, <1>8, <1>10 DEF Standing

\* ... and a write to rows of jobs alone that keeps all projects as they are
\* shown, because it keeps the statuses.
LEMMA RowsStand ==
    ASSUME Standing, Frame, UNCHANGED <<shownVars, worker>>,
           jobs' \in Seq(JobRow), DOMAIN jobs' = DOMAIN jobs,
           uploads' \in Seq(UploadRow), Videos',
           \A k \in DOMAIN jobs :
              /\ jobs'[k].project = jobs[k].project
              /\ jobs'[k].status = jobs[k].status
              /\ jobs[k].status \in Pending => jobs'[k].pin = jobs[k].pin
    PROVE  Standing' /\ \A p \in ProjectIds : SameJobs(p)
<1>1. UNCHANGED <<projects, overtaken, dropped>>  BY DEF shownVars
<1>2. projects' \in ProjectRows /\ dropped' \in DroppedRows
  BY <1>1 DEF Standing, Rows
<1>3. \A p \in ProjectIds : SameJobs(p)  BY SameRows
<1>4. \A k \in DOMAIN jobs' :
         jobs'[k].status \in Pending =>
            /\ k \in DOMAIN jobs /\ jobs[k].status \in Pending
            /\ jobs'[k].pin = jobs[k].pin
            /\ projects'[jobs[k].project] = projects[jobs[k].project]
  BY <1>1
<1>5. Standing'
  BY <1>1, <1>2, <1>3, <1>4, WriteStands
<1> QED  BY <1>3, <1>5

\* A write to the videos alone.
LEMMA UploadsStand ==
    ASSUME Standing, Frame, UNCHANGED <<shownVars, jobs, worker>>,
           uploads' \in Seq(UploadRow), Videos'
    PROVE  Standing'
<1>1. jobs \in Seq(JobRow)  BY DEF Standing, Rows
<1> QED  BY <1>1, RowsStand

LEMMA NewRow ==
    ASSUME NEW p \in ProjectIds, NEW u \in Nat
    PROVE  /\ NewJob(p, u) \in JobRow /\ NewJob(p, u).project = p
           /\ NewJob(p, u).status = "unborn" /\ NewJob(p, u).upload = u
BY DEF NewJob, JobRow

\* The video that a submission brings.
LEMMA UploadStep ==
    ASSUME IInv, todo # <<>>, todo' = Tail(todo), up' = up,
           CommitUpload(Head(todo))
    PROVE  IInv'
<1>1. /\ Standing /\ Listed(todo) /\ TodoFits /\ jobs \in Seq(JobRow)
      /\ Videos /\ uploads \in Seq(UploadRow)
  BY DEF IInv, Standing, Rows
<1>2. /\ Head(todo).put = "upload"
      /\ uploads' = Append(uploads, [project |-> Head(todo).project,
                                     file |-> "there"])
      /\ UNCHANGED <<shownVars, jobs, worker>> /\ Frame
  BY DEF CommitUpload, Frame
<1>3. PICK us : \E p \in ProjectIds, u \in Nat, pin \in Pins :
                   Bringing(p, u, pin, us)
  BY <1>1, <1>2, NextWrite, SubmittingHead
<1>4. PICK p \in ProjectIds, u \in Nat, pin \in Pins : Bringing(p, u, pin, us)
  BY <1>3
<1> PICK n : n = Len(jobs)  OBVIOUS
<1>5. /\ Head(todo) = PutUpload(p)
      /\ todo' = <<PutLayout(NewJob(p, u)), PutSnapshot(n + 1, pin),
                   PutRow(n + 1), PutLogged(us)>>
  BY <1>4, Phases
<1> DEFINE row == [project |-> p, file |-> "there"]
<1>6. row \in UploadRow /\ row.project = p /\ row.file = "there"
  BY DEF UploadRow, Fates
<1>7. uploads' = Append(uploads, row)  BY <1>2, <1>5 DEF PutUpload
<1> HIDE DEF row
<1> PICK m : m = Len(uploads)  OBVIOUS
<1>8. /\ u = m + 1 /\ Shown(p) /\ PinFound(pin)
  BY <1>4 DEF Bringing
<1>9. /\ uploads' \in Seq(UploadRow) /\ DOMAIN uploads \subseteq DOMAIN uploads'
      /\ u \in DOMAIN uploads' /\ uploads'[u] = row
      /\ \A v \in DOMAIN uploads : uploads'[v] = uploads[v]
  BY <1>1, <1>6, <1>7, <1>8
<1>10. Videos'
  <2>1. \A k \in DOMAIN jobs : jobs[k].upload \in DOMAIN uploads
    BY <1>1 DEF Videos, JobsNameVideos
  <2> DEFINE new == {}
  <2>2. DOMAIN jobs' = DOMAIN jobs \cup new /\ \A k \in new : FALSE  BY <1>2
  <2> HIDE DEF new
  <2> QED  BY <1>1, <1>2, <1>9, <2>1, <2>2, VideosStay
<1>11. Standing'  BY <1>1, <1>2, <1>9, <1>10, UploadsStand
<1>12. Naming(p, u, pin, us)'
  <2>1. PinFound(pin)' /\ Shown(p)'
    BY <1>2, <1>8 DEF PinFound, Resolve, Frame, providerVars, Shown, shownVars
  <2>2. u \in DOMAIN uploads' /\ uploads'[u].project = p /\ Kept(u)'
    BY <1>6, <1>9 DEF Kept
  <2>3. Len(jobs') = n  BY <1>2
  <2> QED  BY <1>5, <2>1, <2>2, <2>3
           DEF Naming, PutLayout, NewJob, PutSnapshot, PutRow, PutLogged
<1>13. Listed(todo')  BY <1>1, TodoShape
<1> QED  BY <1>11, <1>12, <1>13 DEF IInv, TodoFits, Submitting

\* The directory of the job.
LEMMA LayoutStep ==
    ASSUME IInv, todo # <<>>, todo' = Tail(todo), up' = up,
           CommitLayout(Head(todo))
    PROVE  IInv'
<1>1. /\ Standing /\ Listed(todo) /\ TodoFits /\ jobs \in Seq(JobRow)
      /\ Videos /\ Rows
  BY DEF IInv, Standing, Rows
<1>2. /\ Head(todo).put = "layout" /\ jobs' = Append(jobs, Head(todo).row)
      /\ UNCHANGED <<projects, overtaken, dropped, uploads, worker>> /\ Frame
  BY DEF CommitLayout, Frame, shownVars
<1>3. PICK us : \E p \in ProjectIds, u \in Nat, pin \in Pins : Naming(p, u, pin, us)
  BY <1>1, <1>2, NextWrite, SubmittingHead
<1>4. PICK p \in ProjectIds, u \in Nat, pin \in Pins : Naming(p, u, pin, us)
  BY <1>3
<1> PICK n : n = Len(jobs)  OBVIOUS
<1>5. /\ Head(todo) = PutLayout(NewJob(p, u))
      /\ todo' = <<PutSnapshot(n + 1, pin), PutRow(n + 1), PutLogged(us)>>
  BY <1>4, Phases
<1>6. /\ u \in DOMAIN uploads /\ uploads[u].project = p /\ Kept(u)
      /\ Shown(p) /\ PinFound(pin)
  BY <1>4 DEF Naming
<1> DEFINE new == NewJob(p, u)
<1>7. jobs' = Append(jobs, new)  BY <1>2, <1>5 DEF PutLayout
<1>8. new \in JobRow /\ new.project = p /\ new.status = "unborn" /\ new.upload = u
  BY NewRow
<1> HIDE DEF new
<1>9. /\ n \in Nat /\ DOMAIN jobs = 1..n
      /\ jobs' \in Seq(JobRow) /\ Len(jobs') = n + 1 /\ DOMAIN jobs' = 1..(n + 1)
      /\ \A k \in DOMAIN jobs : jobs'[k] = jobs[k]
      /\ jobs'[n + 1] = new
  BY <1>1, <1>7, <1>8
<1>10. None \notin Statuses /\ "unborn" \notin Statuses /\ "unborn" \notin Pending
  BY ProjectsAssumption DEF Statuses, Pending
<1>11. DOMAIN jobs' = DOMAIN jobs \cup {n + 1}  BY <1>9
<1>12. Videos'
  <2> DEFINE late == {n + 1}
  <2>1. DOMAIN jobs' = DOMAIN jobs \cup late  BY <1>11
  <2>2. \A k \in late : /\ jobs'[k].upload \in DOMAIN uploads'
                        /\ uploads'[jobs'[k].upload].project = jobs'[k].project
                        /\ jobs'[k].status \notin Pending
    BY <1>2, <1>6, <1>8, <1>9, <1>10
  <2>3. \A k \in DOMAIN jobs :
           /\ jobs'[k].project = jobs[k].project
           /\ jobs'[k].upload = jobs[k].upload
           /\ jobs'[k].status = jobs[k].status
    BY <1>9
  <2> HIDE DEF late
  <2> QED  BY <1>1, <1>2, <2>1, <2>2, <2>3, VideosStay
<1>13. Standing'
  <2>1. ASSUME NEW q \in ProjectIds PROVE SameJobs(q)
    <3>1. \A k \in DOMAIN jobs' : k \in DOMAIN jobs \/ jobs'[k].status = "unborn"
      BY <1>8, <1>9, <1>11
    <3> QED  BY <1>9, <1>10, <3>1, SameRows
  <2>2. projects[p] # None  BY <1>6, <1>10 DEF Shown
  <2>3. DOMAIN jobs \subseteq DOMAIN jobs'  BY <1>11
  <2>4. \A k \in DOMAIN jobs' :
           k \in DOMAIN jobs \/ projects[jobs'[k].project] # None
    BY <1>8, <1>9, <1>11, <2>2
  <2>5. \A k \in DOMAIN jobs' :
           jobs'[k].status \in Pending =>
              /\ k \in DOMAIN jobs /\ jobs[k].status \in Pending
              /\ jobs'[k].pin = jobs[k].pin
              /\ projects'[jobs[k].project] = projects[jobs[k].project]
    BY <1>2, <1>8, <1>9, <1>10, <1>11
  <2>6. /\ projects' \in ProjectRows /\ dropped' \in DroppedRows
        /\ uploads' \in Seq(UploadRow)
    BY <1>1, <1>2 DEF Rows
  <2> QED  BY <1>1, <1>2, <1>9, <1>12, <2>1, <2>3, <2>4, <2>5, <2>6, WriteStands
<1>14. Pinning(pin, us)'
  <2>1. PinFound(pin)'  BY <1>2, <1>6 DEF PinFound, Resolve, Frame, providerVars
  <2>2. LaidOut'
    <3>1. n + 1 \in DOMAIN jobs' /\ jobs'[n + 1].status = "unborn"
      BY <1>8, <1>9
    <3>2. /\ uploads'[jobs'[n + 1].upload].file = "there"
          /\ projects'[jobs'[n + 1].project] \in Statuses
      BY <1>2, <1>6, <1>8, <1>9 DEF Kept, Shown
    <3> QED  BY <1>9, <3>1, <3>2 DEF LaidOut, Kept, Shown
  <2>3. todo' = <<PutSnapshot(Len(jobs'), pin), PutRow(Len(jobs')), PutLogged(us)>>
    BY <1>5, <1>9
  <2> QED  BY <2>1, <2>2, <2>3 DEF Pinning, PutSnapshot, PutRow, PutLogged
<1>15. Listed(todo')  BY <1>1, TodoShape
<1> QED  BY <1>13, <1>14, <1>15 DEF IInv, TodoFits, Submitting

\* The configuration that the job pins.
LEMMA SnapshotStep ==
    ASSUME IInv, todo # <<>>, todo' = Tail(todo), up' = up,
           CommitSnapshot(Head(todo))
    PROVE  IInv'
<1>1. /\ Standing /\ Listed(todo) /\ TodoFits /\ jobs \in Seq(JobRow)
      /\ Videos /\ Rows
  BY DEF IInv, Standing, Rows
<1>2. /\ Head(todo).put = "snapshot"
      /\ UNCHANGED <<shownVars, uploads, worker>> /\ Frame
      /\ jobs' = [jobs EXCEPT ![Head(todo).job].pin = Head(todo).pin]
  BY DEF CommitSnapshot, Frame
<1>3. PICK us : \E pin \in Pins : Pinning(pin, us)
  BY <1>1, <1>2, NextWrite, SubmittingHead
<1>4. PICK pin \in Pins : Pinning(pin, us)  BY <1>3
<1> PICK n : n = Len(jobs)  OBVIOUS
<1>5. /\ Head(todo) = PutSnapshot(n, pin)
      /\ todo' = <<PutRow(n), PutLogged(us)>>
  BY <1>4, Phases
<1>6. /\ n \in DOMAIN jobs /\ jobs[n].status = "unborn"
      /\ Kept(jobs[n].upload) /\ Shown(jobs[n].project) /\ PinFound(pin)
  BY <1>4 DEF Pinning, LaidOut
<1> DEFINE new == [jobs[n] EXCEPT !.pin = pin]
<1>7. /\ new \in JobRow /\ new.project = jobs[n].project
      /\ new.status = "unborn" /\ new.upload = jobs[n].upload
      /\ new.pin = pin
  <2>1. jobs[n] \in JobRow  BY <1>1, <1>6
  <2> QED  BY <1>6, <2>1 DEF JobRow
<1>8. jobs' = [jobs EXCEPT ![n] = new]
  <2>1. Head(todo).job = n /\ Head(todo).pin = pin  BY <1>5 DEF PutSnapshot
  <2> QED  BY <1>1, <1>2, <1>6, <2>1
<1> HIDE DEF new
<1>9. /\ jobs' \in Seq(JobRow) /\ DOMAIN jobs' = DOMAIN jobs
      /\ \A k \in DOMAIN jobs : k # n => jobs'[k] = jobs[k]
      /\ jobs'[n] = new
  BY <1>1, <1>6, <1>7, <1>8, RowReplaced
<1>10. Len(jobs') = n  BY <1>1, <1>9
<1>11. "unborn" \notin Pending  BY DEF Pending
<1>12. \A k \in DOMAIN jobs :
          /\ jobs'[k].project = jobs[k].project
          /\ jobs'[k].upload = jobs[k].upload
          /\ jobs'[k].status = jobs[k].status
          /\ jobs[k].status \in Pending => jobs'[k].pin = jobs[k].pin
  BY <1>6, <1>7, <1>9, <1>11
<1>13. Videos'
  <2> DEFINE none == {}
  <2>1. DOMAIN jobs' = DOMAIN jobs \cup none /\ \A k \in none : FALSE  BY <1>9
  <2> HIDE DEF none
  <2> QED  BY <1>1, <1>2, <1>12, <2>1, VideosStay
<1>14. Standing'
  <2>1. uploads' \in Seq(UploadRow)  BY <1>1, <1>2 DEF Rows
  <2> QED  BY <1>1, <1>2, <1>9, <1>12, <1>13, <2>1, RowsStand
<1>15. Loadable(n)'
  <2>1. \A cap \in DOMAIN pin :
           pin[cap].ref # None =>
              Resolve(pin[cap].ref, pin[cap].kind)' = pin[cap].ref
    BY <1>2, <1>6 DEF PinFound, Resolve, Frame, providerVars
  <2>2. pin # None  BY ProjectsAssumption DEF Pins, PinRow
  <2>3. jobs'[n].pin = pin  BY <1>7, <1>9
  <2> QED  BY <2>1, <2>2, <2>3 DEF Loadable, HasConfig
<1>16. Queueing(us)'
  <2>1. LaidOut'
    BY <1>2, <1>6, <1>7, <1>9, <1>10 DEF LaidOut, Kept, Shown, shownVars
  <2> QED  BY <1>5, <1>10, <1>15, <2>1 DEF Queueing, PutRow, PutLogged
<1>17. Listed(todo')  BY <1>1, TodoShape
<1> QED  BY <1>14, <1>16, <1>17 DEF IInv, TodoFits, Submitting

\* The row that makes the job visible.
LEMMA RowStep ==
    ASSUME IInv, todo # <<>>, todo' = Tail(todo), up' = up,
           CommitRow(Head(todo))
    PROVE  IInv'
<1>1. /\ Standing /\ Listed(todo) /\ TodoFits /\ jobs \in Seq(JobRow)
      /\ Videos /\ Rows
  BY DEF IInv, Standing, Rows
<1>2. /\ Head(todo).put = "row"
      /\ UNCHANGED <<projects, overtaken, dropped, uploads, worker>> /\ Frame
      /\ jobs' = WithStatus(Head(todo).job, "queued")
  BY DEF CommitRow, Frame, shownVars
<1>3. PICK us : Queueing(us)
  BY <1>1, <1>2, NextWrite, SubmittingHead
<1> PICK n : n = Len(jobs)  OBVIOUS
<1>4. Head(todo) = PutRow(n) /\ todo' = <<PutLogged(us)>>
  BY <1>3, Phases
<1>5. /\ n \in DOMAIN jobs /\ jobs[n].status = "unborn"
      /\ Kept(jobs[n].upload) /\ Shown(jobs[n].project) /\ Loadable(n)
  BY <1>3 DEF Queueing, LaidOut
<1>6. jobs' = WithStatus(n, "queued")
  BY <1>2, <1>4 DEF PutRow
<1>7. /\ jobs' \in Seq(JobRow) /\ DOMAIN jobs' = DOMAIN jobs
      /\ \A k \in DOMAIN jobs : k # n => jobs'[k] = jobs[k]
      /\ jobs'[n].project = jobs[n].project
      /\ jobs'[n].upload = jobs[n].upload
      /\ jobs'[n].pin = jobs[n].pin
      /\ jobs'[n].status = "queued"
  <2> DEFINE r == [jobs[n] EXCEPT !.status = "queued"]
  <2>1. jobs[n] \in JobRow /\ "queued" \in Statuses  BY <1>1, <1>5 DEF Statuses
  <2>2. /\ r \in JobRow /\ r.status = "queued" /\ r.project = jobs[n].project
        /\ r.upload = jobs[n].upload /\ r.pin = jobs[n].pin
    BY <2>1 DEF JobRow
  <2>3. jobs' = [jobs EXCEPT ![n] = r]  BY <1>6 DEF WithStatus
  <2> HIDE DEF r
  <2> QED  BY <1>1, <1>5, <2>2, <2>3, RowReplaced
<1> PICK own : own = jobs[n].project  OBVIOUS
<1>8. /\ "unborn" # "running" /\ "unborn" \notin Ended \cup {"gone"}
      /\ "queued" \in Pending /\ "queued" \in Statuses
  BY DEF Statuses, Pending, Ended
<1>9. Videos'
  <2> DEFINE none == {}
  <2>1. DOMAIN jobs' = DOMAIN jobs \cup none /\ \A k \in none : FALSE  BY <1>7
  <2> HIDE DEF none
  <2>2. \A k \in DOMAIN jobs :
           /\ jobs'[k].project = jobs[k].project
           /\ jobs'[k].upload = jobs[k].upload
           /\ jobs[k].status \in Ended \cup {"gone"} =>
                 jobs'[k].status \in Ended \cup {"gone"}
           /\ jobs'[k].status \in Pending =>
                 \/ jobs[k].status \in Pending
                 \/ uploads'[jobs[k].upload].file = "there"
    BY <1>2, <1>5, <1>7, <1>8 DEF Kept
  <2> QED  BY <1>1, <1>2, <2>1, <2>2, VideosStay
<1>10. Standing'
  <2>1. ASSUME NEW q \in ProjectIds, q # own PROVE SameJobs(q)
    <3>1. /\ \A k \in DOMAIN jobs : jobs[k].project = q => jobs'[k] = jobs[k]
          /\ \A k \in DOMAIN jobs' : jobs'[k].project = q => jobs'[k] = jobs[k]
      BY <1>7, <2>1
    <3> QED  BY <1>7, <3>1, SameRows
  <2>2. FinishedAt(own)' /\ CurrentAt(own)'
    <3>1. n \in PendingJobs(own)'
      BY <1>5, <1>7, <1>8 DEF PendingJobs, JobsOf, HasRow
    <3> QED  BY <3>1 DEF FinishedAt, CurrentAt
  <2>3. \A p \in ProjectIds :
           \/ /\ SameJobs(p) /\ projects'[p] = projects[p]
              /\ dropped'[p] = dropped[p]
           \/ FinishedAt(p)' /\ CurrentAt(p)'
    BY <1>2, <2>1, <2>2
  <2>4. /\ projects' \in ProjectRows /\ dropped' \in DroppedRows
        /\ uploads' \in Seq(UploadRow) /\ DOMAIN jobs \subseteq DOMAIN jobs'
        /\ \A k \in DOMAIN jobs :
              /\ jobs'[k].project = jobs[k].project
              /\ jobs[k].status = "running" => jobs'[k].status = "running"
    BY <1>1, <1>2, <1>5, <1>7, <1>8 DEF Rows
  <2>5. Loadable(n)'
    <3>1. secrets' = secrets  BY <1>2 DEF Frame, providerVars
    <3>2. jobs'[n].pin = jobs[n].pin  BY <1>7
    <3> QED  BY <1>5, <3>1, <3>2 DEF Loadable, HasConfig, Resolve
  <2>6. \A k \in DOMAIN jobs' :
           jobs'[k].status \in Pending =>
              \/ /\ k \in DOMAIN jobs /\ jobs[k].status \in Pending
                 /\ jobs'[k].pin = jobs[k].pin
                 /\ projects'[jobs[k].project] = projects[jobs[k].project]
              \/ projects'[jobs'[k].project] \in Statuses /\ Loadable(k)'
    BY <1>2, <1>5, <1>7, <2>5 DEF Shown
  <2>7. \A k \in DOMAIN jobs' :
           k \in DOMAIN jobs \/ projects[jobs'[k].project] # None
    BY <1>7
  <2> QED  BY <1>1, <1>2, <1>7, <1>9, <2>3, <2>4, <2>6, <2>7, WriteStands
<1>11. Logging(us)'  BY <1>4 DEF Logging, PutLogged
<1>12. Listed(todo')  BY <1>1, TodoShape
<1> QED  BY <1>10, <1>11, <1>12 DEF IInv, TodoFits, Submitting

\* The operation log, the last of a submission.
LEMMA LoggedStep ==
    ASSUME IInv, todo # <<>>, todo' = Tail(todo), up' = up,
           CommitLogged(Head(todo))
    PROVE  IInv'
<1>1. Standing /\ Listed(todo) /\ TodoFits /\ jobs \in Seq(JobRow)
  BY DEF IInv, Standing, Rows
<1>2. Head(todo).put = "logged" /\ UNCHANGED projectVars /\ Frame
  BY DEF CommitLogged, Frame
<1>3. PICK us : Logging(us)  BY <1>1, <1>2, NextWrite, SubmittingHead
<1>4. todo' = <<>>  BY <1>3, Phases
<1>5. Standing'  BY <1>1, <1>2, OnlyTodo
<1> QED  BY <1>4, <1>5, NothingToDo DEF IInv

\* A submission that fails takes back the video it brought.
LEMMA RaisesStep ==
    ASSUME IInv, SubmissionRaises
    PROVE  IInv'
<1>1. /\ Standing /\ Videos /\ uploads \in Seq(UploadRow)
      /\ jobs \in Seq(JobRow)
  BY DEF IInv, Standing, Rows
<1>2. PICK us : us = Last(todo).discard  OBVIOUS
<1>3. /\ uploads' = Lost(us, "discarded") /\ todo' = <<>>
      /\ UNCHANGED <<shownVars, jobs, worker>> /\ Frame
  BY <1>2 DEF SubmissionRaises, Frame
<1>4. "discarded" \in Fates  BY DEF Fates
<1>5. /\ uploads' \in Seq(UploadRow) /\ DOMAIN uploads' = DOMAIN uploads
      /\ \A u \in DOMAIN uploads :
            /\ uploads'[u].project = uploads[u].project
            /\ uploads'[u].file = uploads[u].file \/ uploads'[u].file = "discarded"
  BY <1>1, <1>3, <1>4, LostRows
<1>6. Videos'
  <2> DEFINE none == {}
  <2>1. DOMAIN jobs' = DOMAIN jobs \cup none /\ \A k \in none : FALSE  BY <1>3
  <2> HIDE DEF none
  <2>2. \A k \in DOMAIN jobs : jobs[k].upload \in DOMAIN uploads
    BY <1>1 DEF Videos, JobsNameVideos
  <2> QED  BY <1>1, <1>3, <1>5, <2>1, <2>2, VideosStay
<1>7. Standing'  BY <1>1, <1>3, <1>5, <1>6, UploadsStand
<1> QED  BY <1>3, <1>7, NothingToDo DEF IInv

\* The jobs that a deletion waits for have ended.
LEMMA AwaitStep ==
    ASSUME IInv, todo # <<>>, todo' = Tail(todo), up' = up,
           CommitAwait(Head(todo))
    PROVE  IInv'
<1>1. /\ Standing /\ Listed(todo) /\ TodoFits /\ jobs \in Seq(JobRow)
      /\ Configured
  BY DEF IInv, Standing, Rows
<1>2. /\ Head(todo).put = "await" /\ PendingJobs(Head(todo).project) = {}
      /\ UNCHANGED projectVars /\ Frame
  BY DEF CommitAwait, Frame
<1>3. PICK p \in ProjectIds : Deleting(p)  BY <1>1, <1>2, NextWrite
<1>4. Len(todo) = 3 /\ Head(todo) = PutAwait(p)
  <2>1. /\ \A j : PutCancel(j).put # "await"
        /\ \A q : PutTree(q).put # "await" /\ PutGone(q).put # "await"
    BY DEF PutCancel, PutTree, PutGone
  <2> QED  BY <1>1, <1>2, <1>3, <2>1, DeletingHead
<1>5. PendingJobs(p)' = {}
  <2>1. PendingJobs(p) = {}  BY <1>2, <1>4 DEF PutAwait
  <2> QED  BY <1>2, <2>1 DEF PendingJobs, JobsOf, HasRow, projectVars
<1>6. /\ Listed(todo') /\ Len(todo') = 2 /\ todo'[1] = todo[2] /\ todo'[2] = todo[3]
  <2>1. /\ Listed(todo') /\ Len(todo') = Len(todo) - 1
        /\ \A i \in 1..(Len(todo) - 1) : todo'[i] = todo[i + 1]
    BY <1>1, TodoShape
  <2>2. /\ Len(todo) - 1 = 2 /\ 1 \in 1..(Len(todo) - 1) /\ 2 \in 1..(Len(todo) - 1)
        /\ 1 + 1 = 2 /\ 2 + 1 = 3
    BY <1>4
  <2> QED  BY <2>1, <2>2
<1>7. todo[3] = PutGone(p) /\ todo[2] = PutTree(p)
  <2>1. 3 >= 2 /\ 3 - 1 = 2  OBVIOUS
  <2> QED  BY <1>3, <1>4, <2>1 DEF Deleting
<1>8. Deleting(p)'
  <2>1. \A i \in 1..(2 - 3) : FALSE  OBVIOUS
  <2>2. 2 >= 1 /\ 2 >= 2 /\ ~ (2 >= 3) /\ 2 - 1 = 1  OBVIOUS
  <2> PICK m : m = Len(todo')  OBVIOUS
  <2>3. m = 2  BY <1>6, Zenon
  <2> QED  BY <1>5, <1>6, <1>7, <2>1, <2>2, <2>3
           DEF Deleting, PutGone, PutTree
<1>9. Standing'  BY <1>1, <1>2, OnlyTodo
<1> QED  BY <1>3, <1>6, <1>8, <1>9 DEF IInv, TodoFits

\* Some configurations go: no job changes in anything else.
LEMMA WithoutRows ==
    ASSUME jobs \in Seq(JobRow), NEW lost
    PROVE  /\ Without(lost) \in Seq(JobRow)
           /\ DOMAIN Without(lost) = DOMAIN jobs /\ Len(Without(lost)) = Len(jobs)
           /\ \A k \in DOMAIN jobs :
                 /\ Without(lost)[k].project = jobs[k].project
                 /\ Without(lost)[k].upload = jobs[k].upload
                 /\ Without(lost)[k].status = jobs[k].status
                 /\ k \notin lost => Without(lost)[k].pin = jobs[k].pin
<1> DEFINE row(k) == IF k \in lost THEN [jobs[k] EXCEPT !.pin = None] ELSE jobs[k]
<1>1. \A k \in DOMAIN jobs : /\ row(k) \in JobRow
                             /\ row(k).project = jobs[k].project
                             /\ row(k).upload = jobs[k].upload
                             /\ row(k).status = jobs[k].status
                             /\ k \notin lost => row(k) = jobs[k]
  <2>1. \A k \in DOMAIN jobs : jobs[k] \in JobRow  OBVIOUS
  <2> QED  BY <2>1 DEF JobRow
<1>2. Without(lost) = [k \in DOMAIN jobs |-> row(k)]  BY DEF Without
<1> HIDE DEF row
<1>3. DOMAIN jobs = 1..Len(jobs) /\ Len(jobs) \in Nat  OBVIOUS
<1> QED  BY <1>1, <1>2, <1>3

\* Some rows go.
LEMMA ErasedRows ==
    ASSUME jobs \in Seq(JobRow), NEW lost
    PROVE  /\ Erased(lost) \in Seq(JobRow)
           /\ DOMAIN Erased(lost) = DOMAIN jobs /\ Len(Erased(lost)) = Len(jobs)
           /\ \A k \in DOMAIN jobs :
                 /\ Erased(lost)[k].project = jobs[k].project
                 /\ Erased(lost)[k].upload = jobs[k].upload
                 /\ k \in lost => Erased(lost)[k].status = "gone"
                 /\ k \notin lost => Erased(lost)[k] = jobs[k]
<1> DEFINE gone(k) == [[[[jobs[k] EXCEPT !.status = "gone"] EXCEPT !.cancel = FALSE]
                          EXCEPT !.owned = FALSE] EXCEPT !.delete = FALSE]
           row(k) == IF k \in lost THEN gone(k) ELSE jobs[k]
<1>1. \A k \in DOMAIN jobs : jobs[k] \in JobRow  OBVIOUS
<1>2. \A k \in DOMAIN jobs : /\ gone(k) \in JobRow
                             /\ gone(k).project = jobs[k].project
                             /\ gone(k).upload = jobs[k].upload
                             /\ gone(k).status = "gone"
  BY <1>1 DEF JobRow
<1>3. Erased(lost) = [k \in DOMAIN jobs |-> row(k)]  BY DEF Erased
<1> HIDE DEF gone
<1>4. \A k \in DOMAIN jobs : /\ row(k) \in JobRow
                             /\ row(k).project = jobs[k].project
                             /\ row(k).upload = jobs[k].upload
                             /\ k \in lost => row(k).status = "gone"
                             /\ k \notin lost => row(k) = jobs[k]
  BY <1>1, <1>2
<1> HIDE DEF row
<1>5. DOMAIN jobs = 1..Len(jobs) /\ Len(jobs) \in Nat  OBVIOUS
<1> QED  BY <1>3, <1>4, <1>5

\* The configurations of jobs that cannot run any more go, and videos that no
\* job needs.
LEMMA FilesStand ==
    ASSUME Standing, Frame, NEW lost, jobs' = Without(lost),
           \A k \in lost : k \in DOMAIN jobs => jobs[k].status \notin Pending,
           UNCHANGED <<shownVars, worker>>,
           uploads' \in Seq(UploadRow), DOMAIN uploads' = DOMAIN uploads,
           \A u \in DOMAIN uploads : uploads'[u].project = uploads[u].project,
           \A k \in DOMAIN jobs :
              jobs[k].status \in Pending =>
                 uploads'[jobs[k].upload].file = uploads[jobs[k].upload].file
    PROVE  /\ Standing'
           /\ Len(jobs') = Len(jobs) /\ DOMAIN jobs' = DOMAIN jobs
           /\ \A k \in DOMAIN jobs : jobs'[k].status = jobs[k].status
           /\ \A q \in ProjectIds : SameJobs(q)
<1>1. jobs \in Seq(JobRow) /\ Videos  BY DEF Standing, Rows
<1>2. /\ jobs' \in Seq(JobRow) /\ DOMAIN jobs' = DOMAIN jobs
      /\ Len(jobs') = Len(jobs)
      /\ \A k \in DOMAIN jobs :
            /\ jobs'[k].project = jobs[k].project
            /\ jobs'[k].upload = jobs[k].upload
            /\ jobs'[k].status = jobs[k].status
            /\ k \notin lost => jobs'[k].pin = jobs[k].pin
  BY <1>1, WithoutRows
<1>3. Videos'
  <2> DEFINE none == {}
  <2>1. DOMAIN jobs' = DOMAIN jobs \cup none /\ \A k \in none : FALSE  BY <1>2
  <2> HIDE DEF none
  <2>2. \A k \in DOMAIN jobs :
           \/ jobs[k].status \notin Pending
           \/ uploads'[jobs[k].upload].file = uploads[jobs[k].upload].file
    OBVIOUS
  <2> QED  BY <1>1, <1>2, <2>1, <2>2, VideosStay
<1>4. Standing' /\ \A q \in ProjectIds : SameJobs(q)
  BY <1>2, <1>3, RowsStand
<1> QED  BY <1>2, <1>4

\* The files of a project that has no job left to run go.
LEMMA FilesGo ==
    ASSUME Standing, Frame, NEW p \in ProjectIds, PendingJobs(p) = {},
           NEW lost \in SUBSET FilesOf(p), jobs' = Without(lost),
           NEW ups \in SUBSET VideosOf(p), uploads' = Lost(ups, "removed"),
           UNCHANGED <<shownVars, worker>>
    PROVE  /\ Standing'
           /\ Len(jobs') = Len(jobs) /\ DOMAIN jobs' = DOMAIN jobs
           /\ \A q \in ProjectIds : SameJobs(q)
<1>1. /\ jobs \in Seq(JobRow) /\ uploads \in Seq(UploadRow) /\ JobsNameVideos
  BY DEF Standing, Rows, Videos
<1>2. "removed" \in Fates /\ Pending \subseteq Statuses
  BY DEF Fates, Pending, Statuses
<1>3. /\ uploads' \in Seq(UploadRow) /\ DOMAIN uploads' = DOMAIN uploads
      /\ \A u \in DOMAIN uploads :
            /\ uploads'[u].project = uploads[u].project
            /\ u \notin ups => uploads'[u].file = uploads[u].file
  BY <1>1, <1>2, LostRows
<1>4. \A k \in DOMAIN jobs : jobs[k].status \in Pending => jobs[k].project # p
  BY <1>2 DEF PendingJobs, JobsOf, HasRow
<1>5. \A k \in lost : k \in DOMAIN jobs => jobs[k].status \notin Pending
  BY <1>4 DEF FilesOf
<1>6. \A k \in DOMAIN jobs :
         jobs[k].status \in Pending =>
            uploads'[jobs[k].upload].file = uploads[jobs[k].upload].file
  <2> SUFFICES ASSUME NEW k \in DOMAIN jobs, jobs[k].status \in Pending
               PROVE  jobs[k].upload \in DOMAIN uploads /\ jobs[k].upload \notin ups
    BY <1>3
  <2>1. jobs[k].upload \in DOMAIN uploads
        /\ uploads[jobs[k].upload].project = jobs[k].project
    BY <1>1 DEF JobsNameVideos
  <2> QED  BY <1>4, <2>1 DEF VideosOf
<1> QED  BY <1>3, <1>5, <1>6, FilesStand

\* The directory of the project goes.
LEMMA TreeStep ==
    ASSUME IInv, todo # <<>>, todo' = Tail(todo), up' = up,
           CommitTree(Head(todo))
    PROVE  IInv'
<1>1. /\ Standing /\ Listed(todo) /\ TodoFits /\ jobs \in Seq(JobRow)
  BY DEF IInv, Standing, Rows
<1>2. /\ Head(todo).put = "tree" /\ jobs' = Without(FilesOf(Head(todo).project))
      /\ uploads' = Lost(VideosOf(Head(todo).project), "removed")
      /\ UNCHANGED <<shownVars, worker>> /\ Frame
  BY DEF CommitTree, Frame
<1>3. PICK p \in ProjectIds : Deleting(p)  BY <1>1, <1>2, NextWrite
<1>4. Len(todo) = 2 /\ Head(todo) = PutTree(p)
  <2>1. /\ \A j : PutCancel(j).put # "tree"
        /\ \A q : PutAwait(q).put # "tree" /\ PutGone(q).put # "tree"
    BY DEF PutCancel, PutAwait, PutGone
  <2> QED  BY <1>1, <1>2, <1>3, <2>1, DeletingHead
<1>5. PendingJobs(p) = {} /\ todo[2] = PutGone(p)
  BY <1>3, <1>4 DEF Deleting
<1>6. /\ Standing' /\ Len(jobs') = Len(jobs) /\ DOMAIN jobs' = DOMAIN jobs
      /\ \A q \in ProjectIds : SameJobs(q)
  <2>1. Head(todo).project = p  BY <1>4 DEF PutTree
  <2>2. jobs' = Without(FilesOf(p)) /\ uploads' = Lost(VideosOf(p), "removed")
    BY <1>2, <2>1
  <2> QED  BY <1>1, <1>2, <1>5, <2>2, FilesGo
<1>7. Listed(todo') /\ Len(todo') = 1 /\ todo'[1] = todo[2]
  <2>1. /\ Listed(todo') /\ Len(todo') = Len(todo) - 1
        /\ \A i \in 1..(Len(todo) - 1) : todo'[i] = todo[i + 1]
    BY <1>1, TodoShape
  <2>2. Len(todo) - 1 = 1 /\ 1 \in 1..(Len(todo) - 1) /\ 1 + 1 = 2
    BY <1>4
  <2> QED  BY <2>1, <2>2
<1>8. Deleting(p)'
  <2>1. \A i \in 1..(1 - 3) : FALSE  OBVIOUS
  <2>2. 1 >= 1 /\ ~ (1 >= 2) /\ ~ (1 >= 3)  OBVIOUS
  <2> PICK m : m = Len(todo')  OBVIOUS
  <2>3. m = 1  BY <1>7, Zenon
  <2>4. PendingJobs(p)' = {}  BY <1>5, <1>6 DEF SameJobs
  <2> QED  BY <1>5, <1>7, <2>1, <2>2, <2>3, <2>4 DEF Deleting, PutGone
<1> QED  BY <1>3, <1>6, <1>7, <1>8 DEF IInv, TodoFits

\* Some of the directory goes, and the deletion fails.
LEMMA BusyStep ==
    ASSUME IInv, TreeIsBusy
    PROVE  IInv'
<1>1. /\ Standing /\ Listed(todo) /\ TodoFits /\ jobs \in Seq(JobRow)
  BY DEF IInv, Standing, Rows
<1>2. /\ todo # <<>> /\ Head(todo).put = "tree" /\ todo' = <<>>
      /\ UNCHANGED <<shownVars, worker>> /\ Frame
  BY DEF TreeIsBusy, Frame
<1>3. PICK p \in ProjectIds : Deleting(p)  BY <1>1, <1>2, NextWrite
<1>4. Len(todo) = 2 /\ Head(todo) = PutTree(p)
  <2>1. /\ \A j : PutCancel(j).put # "tree"
        /\ \A q : PutAwait(q).put # "tree" /\ PutGone(q).put # "tree"
    BY DEF PutCancel, PutAwait, PutGone
  <2> QED  BY <1>1, <1>2, <1>3, <2>1, DeletingHead
<1>5. PendingJobs(p) = {}  BY <1>3, <1>4 DEF Deleting
<1>6. PICK lost \in SUBSET FilesOf(p), ups \in SUBSET VideosOf(p) :
         jobs' = Without(lost) /\ uploads' = Lost(ups, "removed")
  <2>1. Head(todo).project = p  BY <1>4 DEF PutTree
  <2> QED  BY <2>1 DEF TreeIsBusy
<1>7. Standing'  BY <1>1, <1>2, <1>5, <1>6, FilesGo
<1> QED  BY <1>2, <1>7, NothingToDo DEF IInv

\* The rows of the project go.
LEMMA GoneStep ==
    ASSUME IInv, todo # <<>>, todo' = Tail(todo), up' = up,
           CommitGone(Head(todo))
    PROVE  IInv'
<1>1. /\ Standing /\ Listed(todo) /\ TodoFits /\ jobs \in Seq(JobRow) /\ Rows
      /\ Videos
  BY DEF IInv, Standing, Rows
<1>2. /\ Head(todo).put = "gone" /\ UNCHANGED <<worker, overtaken, dropped, uploads>> /\ Frame
  BY DEF CommitGone, Frame
<1>3. PICK p \in ProjectIds : Deleting(p)  BY <1>1, <1>2, NextWrite
<1>4. Len(todo) = 1 /\ Head(todo) = PutGone(p)
  <2>1. /\ \A j : PutCancel(j).put # "gone"
        /\ \A q : PutAwait(q).put # "gone" /\ PutTree(q).put # "gone"
    BY DEF PutCancel, PutAwait, PutTree
  <2> QED  BY <1>1, <1>2, <1>3, <2>1, DeletingHead
<1>5. PendingJobs(p) = {}  BY <1>3, <1>4 DEF Deleting
<1>6. projects' = [projects EXCEPT ![p] = "gone"] /\ jobs' = Erased(JobsOf(p))
  <2>1. Head(todo).project = p  BY <1>4 DEF PutGone
  <2> QED  BY <2>1 DEF CommitGone
<1>7. /\ jobs' \in Seq(JobRow) /\ DOMAIN jobs' = DOMAIN jobs
      /\ \A k \in DOMAIN jobs :
            /\ jobs'[k].project = jobs[k].project
            /\ jobs'[k].upload = jobs[k].upload
            /\ k \in JobsOf(p) => jobs'[k].status = "gone"
            /\ k \notin JobsOf(p) => jobs'[k] = jobs[k]
  BY <1>1, <1>6, ErasedRows
<1>8. Videos'
  <2> DEFINE none == {}
  <2>1. DOMAIN jobs' = DOMAIN jobs \cup none /\ \A k \in none : FALSE  BY <1>7
  <2> HIDE DEF none
  <2>2. "gone" \notin Pending  BY DEF Pending
  <2>3. \A k \in DOMAIN jobs :
           /\ jobs[k].status \in Ended \cup {"gone"} =>
                 jobs'[k].status \in Ended \cup {"gone"}
           /\ jobs'[k].status \in Pending => jobs[k].status \in Pending
    BY <1>7, <2>2
  <2> QED  BY <1>1, <1>2, <1>7, <2>1, <2>3, VideosStay
<1>9. /\ "gone" \notin Statuses /\ "gone" \notin Pending
      /\ Pending \subseteq Statuses /\ "running" \in Pending /\ "gone" # None
  BY ProjectsAssumption DEF Statuses, Pending
<1>10. \A k \in DOMAIN jobs : jobs[k].status \in Pending =>
                                 k \notin JobsOf(p) /\ jobs[k].project # p
  BY <1>5, <1>9 DEF PendingJobs, JobsOf, HasRow
<1>11. Standing'
  <2>1. /\ projects' \in ProjectRows
        /\ projects'[p] = "gone"
        /\ \A q \in ProjectIds : q # p => projects'[q] = projects[q]
    BY <1>1, <1>6 DEF Rows, ProjectRows
  <2>2. ASSUME NEW q \in ProjectIds, q # p PROVE SameJobs(q)
    <3>1. \A k \in DOMAIN jobs : jobs[k].project = q => jobs'[k] = jobs[k]
      BY <1>7, <2>2 DEF JobsOf
    <3>2. \A k \in DOMAIN jobs' : jobs'[k].project = q => jobs'[k] = jobs[k]
      BY <1>7, <2>2 DEF JobsOf
    <3> QED  BY <1>7, <3>1, <3>2, SameRows
  <2>3. FinishedAt(p)' /\ CurrentAt(p)'
    <3>1. ~ Shown(p)'  BY <1>9, <2>1 DEF Shown
    <3> QED  BY <3>1 DEF FinishedAt, CurrentAt
  <2>4. \A k \in DOMAIN jobs :
           /\ jobs'[k].project = jobs[k].project
           /\ jobs[k].status = "running" => jobs'[k].status = "running"
    BY <1>7, <1>9, <1>10
  <2>5. \A k \in DOMAIN jobs' :
           jobs'[k].status \in Pending =>
              /\ k \in DOMAIN jobs /\ jobs[k].status \in Pending
              /\ jobs'[k].pin = jobs[k].pin
              /\ projects'[jobs[k].project] = projects[jobs[k].project]
    <3> SUFFICES ASSUME NEW k \in DOMAIN jobs, jobs'[k].status \in Pending
                 PROVE  /\ jobs[k].status \in Pending /\ jobs'[k].pin = jobs[k].pin
                        /\ projects'[jobs[k].project] = projects[jobs[k].project]
      BY <1>7
    <3>1. k \notin JobsOf(p)  BY <1>7, <1>9
    <3>2. jobs'[k] = jobs[k]  BY <1>7, <3>1
    <3>3. jobs[k].project \in ProjectIds /\ jobs[k].project # p
      BY <1>1, <1>10, <3>2, JobFields
    <3> QED  BY <2>1, <3>2, <3>3
  <2>6. \A q \in ProjectIds : projects[q] # None => projects'[q] # None
    BY <1>9, <2>1
  <2>7. \A q \in ProjectIds :
           \/ /\ SameJobs(q) /\ projects'[q] = projects[q]
              /\ dropped'[q] = dropped[q]
           \/ FinishedAt(q)' /\ CurrentAt(q)'
    BY <1>2, <2>1, <2>2, <2>3
  <2>8. /\ DOMAIN jobs \subseteq DOMAIN jobs'
        /\ \A k \in DOMAIN jobs' :
              k \in DOMAIN jobs \/ projects[jobs'[k].project] # None
        /\ dropped' \in DroppedRows /\ uploads' \in Seq(UploadRow)
    BY <1>1, <1>2, <1>7 DEF Rows
  <2> QED  BY <1>1, <1>2, <1>7, <1>8, <2>1, <2>4, <2>5, <2>6, <2>7, <2>8, WriteStands
<1>12. Listed(todo') /\ Configuring'
  <2>1. Listed(todo') /\ DOMAIN todo' = {}
    BY <1>1, <1>4, TodoShape
  <2> QED  BY <2>1 DEF Configuring, ConfigWrites
<1> QED  BY <1>11, <1>12 DEF IInv, TodoFits


\* A cancel, as a command of its own or as the next write of a deletion.
LEMMA CancelStands ==
    ASSUME Standing, NEW j \in DOMAIN jobs, Cancel(j), up' = up
    PROVE  Standing' /\ RowsKept /\ ProjectsKept
<1>1. Frame /\ UNCHANGED <<worker, uploads>> /\ jobs \in Seq(JobRow)
  BY DEF Cancel, Frame, Standing, Rows
<1>2. CASE jobs[j].status \in {"queued", "interrupted"}
           /\ SetAndRefresh(j, "cancelled")
  <2>1. /\ jobs[j].status \in Pending /\ jobs[j].status # "running"
        /\ "cancelled" \in Statuses
    BY <1>2 DEF Pending, Statuses
  <2> QED  BY <1>1, <1>2, <2>1, SetAndRefreshStep
<1>3. CASE /\ jobs[j].status = "running"
           /\ jobs' = [jobs EXCEPT ![j].cancel = TRUE]
           /\ UNCHANGED shownVars
  <2> DEFINE rows == [jobs EXCEPT ![j].cancel = TRUE]
  <2>1. jobs' = rows /\ UNCHANGED <<shownVars, worker, uploads>>
    BY <1>1, <1>3
  <2> QED  BY <1>1, <1>3, <2>1, RequestStep
<1>4. CASE UNCHANGED <<shownVars, jobs>>
  <2>1. UNCHANGED projectVars  BY <1>1, <1>4 DEF projectVars
  <2>2. Standing'  BY <1>1, <2>1, OnlyTodo
  <2>3. RowsKept  BY <1>1, <1>4, SameRowsKept
  <2>4. ProjectsKept  BY <1>4 DEF ProjectsKept, Shown, shownVars
  <2> QED  BY <2>2, <2>3, <2>4
<1> QED  BY <1>2, <1>3, <1>4 DEF Cancel

LEMMA CancelStep ==
    ASSUME IInv, todo # <<>>, todo' = Tail(todo), up' = up,
           CommitCancel(Head(todo))
    PROVE  IInv'
<1>1. /\ Standing /\ Listed(todo) /\ TodoFits /\ jobs \in Seq(JobRow)
  BY DEF IInv, Standing, Rows
<1>2. Head(todo).put = "cancel" /\ Cancel(Head(todo).job)
  BY DEF CommitCancel
<1>3. PICK p \in ProjectIds : Deleting(p)  BY <1>1, <1>2, NextWrite
<1> PICK n : n = Len(todo)  OBVIOUS
<1>4. n >= 4 /\ \E j \in DOMAIN jobs : Head(todo) = PutCancel(j)
  <2>1. \A q : /\ PutAwait(q).put # "cancel" /\ PutTree(q).put # "cancel"
               /\ PutGone(q).put # "cancel"
    BY DEF PutAwait, PutTree, PutGone
  <2> QED  BY <1>1, <1>2, <1>3, <2>1, DeletingHead
<1>5. PICK j \in DOMAIN jobs : Head(todo) = PutCancel(j)  BY <1>4
<1>6. Cancel(j)  BY <1>2, <1>5 DEF PutCancel
<1>7. Standing' /\ RowsKept  BY <1>1, <1>6, CancelStands
<1>8. DOMAIN jobs' = DOMAIN jobs  BY <1>7 DEF RowsKept
<1>9. /\ n \in Nat /\ Listed(todo') /\ Len(todo') = n - 1
      /\ \A i \in 1..(n - 1) : todo'[i] = todo[i + 1]
  BY <1>1, TodoShape
<1>10. /\ todo[n] = PutGone(p) /\ todo[n - 1] = PutTree(p)
       /\ todo[n - 2] = PutAwait(p)
       /\ \A i \in 1..(n - 3) : \E k \in DOMAIN jobs : todo[i] = PutCancel(k)
  <2>1. n >= 1 /\ n >= 2 /\ n >= 3  BY <1>4, <1>9
  <2> QED  BY <1>3, <2>1 DEF Deleting
<1>11. Deleting(p)'
  <2> PICK m : m = Len(todo')  OBVIOUS
  <2>1. m = n - 1  BY <1>9, Zenon
  <2>2. /\ m \in Nat /\ m >= 3 /\ ~ (m < 3)
        /\ m \in 1..(n - 1) /\ m - 1 \in 1..(n - 1) /\ m - 2 \in 1..(n - 1)
        /\ m + 1 = n /\ (m - 1) + 1 = n - 1 /\ (m - 2) + 1 = n - 2
    BY <1>4, <1>9, <2>1
  <2>3. /\ todo'[m] = PutGone(p) /\ todo'[m - 1] = PutTree(p)
        /\ todo'[m - 2] = PutAwait(p)
    <3>1. /\ todo'[m] = todo[m + 1] /\ todo'[m - 1] = todo[(m - 1) + 1]
          /\ todo'[m - 2] = todo[(m - 2) + 1]
      BY <1>9, <2>2
    <3> QED  BY <1>10, <2>2, <3>1
  <2>4. \A i \in 1..(m - 3) : \E k \in DOMAIN jobs' : todo'[i] = PutCancel(k)
    <3> TAKE i \in 1..(m - 3)
    <3>1. i \in 1..(n - 1) /\ i + 1 \in 1..(n - 3)  BY <1>4, <1>9, <2>1
    <3>2. todo'[i] = todo[i + 1]  BY <1>9, <3>1
    <3> QED  BY <1>8, <1>10, <3>1, <3>2
  <2> QED  BY <2>2, <2>3, <2>4 DEF Deleting, PutGone, PutTree, PutAwait, PutCancel
<1> QED  BY <1>3, <1>7, <1>9, <1>11 DEF IInv, TodoFits

-----------------------------------------------------------------------------
(* Commits of the deletion of one job.                                     *)

\* The job whose deletion goes on, and what is known of it.
LEMMA CleaningJob ==
    ASSUME TodoFits, Listed(todo), todo # <<>>, jobs \in Seq(JobRow),
           Head(todo).put \in {"stop", "owner", "ended", "unlink", "directory",
                               "mark", "erase"}
    PROVE  \E j \in DOMAIN jobs :
              /\ \A i \in DOMAIN todo : CleaningWrite(todo, i, j)
              /\ Head(todo).job = j
              /\ Head(todo).put = "ended" => Head(todo).wanted \subseteq Ended
              /\ Head(todo).put \in {"unlink", "directory", "erase"} =>
                    jobs[j].status \in Ended
              /\ Head(todo).put = "erase" => Tail(todo) = <<>>
<1>1. Cleaning  BY NextWrite
<1>2. PICK j \in DOMAIN jobs : \A i \in DOMAIN todo : CleaningWrite(todo, i, j)
  BY <1>1 DEF Cleaning
<1>3. /\ 1 \in DOMAIN todo /\ Head(todo) = todo[1] /\ Len(todo) \in Nat
      /\ DOMAIN todo = 1..Len(todo) /\ Len(Tail(todo)) = Len(todo) - 1
      /\ Listed(Tail(todo))
  BY TodoShape
<1>4. CleaningWrite(todo, 1, j)  BY <1>2, <1>3
<1>5. \A k \in 1..(1 - 1) : FALSE  OBVIOUS
<1>6. Head(todo).put = "erase" => Tail(todo) = <<>>
  <2> HAVE Head(todo).put = "erase"
  <2>1. 1 + 1 \notin 1..Len(todo)  BY <1>3, <1>4 DEF CleaningWrite
  <2>2. Len(Tail(todo)) = 0  BY <1>3, <2>1
  <2> DEFINE rest == Tail(todo)
             S == {rest[i] : i \in DOMAIN rest}
  <2>3. rest \in Seq(S) /\ Len(rest) = 0  BY <1>3, <2>2 DEF Listed
  <2> HIDE DEF rest, S
  <2>4. rest = <<>>  BY <2>3
  <2> QED  BY <2>4 DEF rest
<1> QED  BY <1>2, <1>3, <1>4, <1>5, <1>6 DEF CleaningWrite

\* What is left of it after its next write.
LEMMA CleaningTail ==
    ASSUME Listed(todo), todo # <<>>, todo' = Tail(todo),
           NEW j \in DOMAIN jobs', \A i \in DOMAIN todo : CleaningWrite(todo, i, j),
           jobs[j].status \in Ended => jobs'[j].status \in Ended,
           Head(todo).put = "ended" => jobs'[j].status \in Ended
    PROVE  Listed(todo') /\ TodoFits'
<1> PICK n : n = Len(todo)  OBVIOUS
<1>1. /\ n \in Nat /\ n >= 1 /\ DOMAIN todo = 1..n /\ Head(todo) = todo[1]
      /\ Listed(todo') /\ DOMAIN todo' = 1..(n - 1)
      /\ \A i \in 1..(n - 1) : todo'[i] = todo[i + 1]
  BY TodoShape
<1>2. ASSUME NEW i \in DOMAIN todo'
      PROVE  CleaningWrite(todo, i, j)'
  <2>1. /\ i \in 1..(n - 1) /\ i + 1 \in 1..n /\ todo'[i] = todo[i + 1]
    BY <1>1
  <2>2. CleaningWrite(todo, i + 1, j)  BY <1>1, <2>1
  <2>3. todo'[i].put = "erase" => i + 1 \notin DOMAIN todo'
    BY <1>1, <2>1, <2>2 DEF CleaningWrite
  <2>4. todo'[i].put \in {"unlink", "directory", "erase"} =>
           \/ jobs'[j].status \in Ended
           \/ \E k \in 1..(i - 1) : k \in DOMAIN todo' /\ todo'[k].put = "ended"
    <3> SUFFICES ASSUME todo'[i].put \in {"unlink", "directory", "erase"},
                        jobs'[j].status \notin Ended
                 PROVE  \E k \in 1..(i - 1) :
                           k \in DOMAIN todo' /\ todo'[k].put = "ended"
      OBVIOUS
    <3>1. PICK k \in 1..((i + 1) - 1) : k \in DOMAIN todo /\ todo[k].put = "ended"
      BY <2>1, <2>2 DEF CleaningWrite
    <3>2. k # 1  BY <1>1, <3>1
    <3>3. /\ k - 1 \in 1..(i - 1) /\ k - 1 \in 1..(n - 1) /\ (k - 1) + 1 = k
      BY <1>1, <2>1, <3>1, <3>2
    <3>4. todo'[k - 1] = todo[k]  BY <1>1, <3>3
    <3> QED  BY <1>1, <3>1, <3>3, <3>4
  <2> QED  BY <2>1, <2>2, <2>3, <2>4 DEF CleaningWrite
<1>3. Cleaning'  BY <1>2 DEF Cleaning
<1> QED  BY <1>1, <1>3 DEF TodoFits

\* A mark alone.
LEMMA OnlyMark ==
    ASSUME NEW j \in DOMAIN jobs', todo' = <<PutMark(j)>>
    PROVE  Listed(todo') /\ TodoFits'
<1> PICK a : a = PutMark(j)  OBVIOUS
<1>1. /\ todo' \in Seq({a}) /\ DOMAIN todo' = {1} /\ todo'[1] = a  OBVIOUS
<1>2. a.put = "mark" /\ a.job = j  BY DEF PutMark
<1>3. Listed(todo')  BY <1>1, SeqOfItself
<1>4. \A i \in DOMAIN todo' : CleaningWrite(todo, i, j)'
  BY <1>1, <1>2 DEF CleaningWrite
<1> QED  BY <1>3, <1>4 DEF Cleaning, TodoFits

\* A job that is still active is cancelled first.
LEMMA StopStep ==
    ASSUME IInv, todo # <<>>, todo' = Tail(todo), up' = up,
           CommitStop(Head(todo))
    PROVE  IInv'
<1>1. Standing /\ Listed(todo) /\ TodoFits /\ jobs \in Seq(JobRow)
  BY DEF IInv, Standing, Rows
<1>2. Head(todo).put = "stop" /\ Cancel(Head(todo).job)
  BY DEF CommitStop
<1>3. PICK j \in DOMAIN jobs : /\ \A i \in DOMAIN todo : CleaningWrite(todo, i, j)
                               /\ Head(todo).job = j
  BY <1>1, <1>2, CleaningJob
<1>4. Standing' /\ RowsKept  BY <1>1, <1>2, <1>3, CancelStands
<1>5. j \in DOMAIN jobs' /\ (jobs[j].status \in Ended => jobs'[j].status \in Ended)
  BY <1>4 DEF RowsKept, Ended
<1>6. Listed(todo') /\ TodoFits'
  BY <1>1, <1>2, <1>3, <1>5, CleaningTail
<1> QED  BY <1>4, <1>6 DEF IInv

\* Nobody owns the job, and it has ended as it should have.
LEMMA CheckStep ==
    ASSUME IInv, todo # <<>>, todo' = Tail(todo), up' = up,
           CommitOwner(Head(todo)) \/ CommitEnded(Head(todo))
    PROVE  IInv'
<1>1. Standing /\ Listed(todo) /\ TodoFits /\ jobs \in Seq(JobRow)
  BY DEF IInv, Standing, Rows
<1>2. /\ Head(todo).put \in {"owner", "ended"}
      /\ Head(todo).put = "ended" =>
            jobs[Head(todo).job].status \in Head(todo).wanted
      /\ UNCHANGED projectVars /\ Frame
  BY DEF CommitOwner, CommitEnded, Frame
<1>3. PICK j \in DOMAIN jobs :
         /\ \A i \in DOMAIN todo : CleaningWrite(todo, i, j)
         /\ Head(todo).job = j
         /\ Head(todo).put = "ended" => Head(todo).wanted \subseteq Ended
  BY <1>1, <1>2, CleaningJob
<1>4. Standing' /\ jobs' = jobs  BY <1>1, <1>2, OnlyTodo DEF projectVars
<1>5. Listed(todo') /\ TodoFits'
  BY <1>1, <1>2, <1>3, <1>4, CleaningTail
<1> QED  BY <1>4, <1>5 DEF IInv

\* The deletion is answered before the end.
LEMMA StopDeletingStep ==
    ASSUME IInv, StopDeleting
    PROVE  IInv'
<1>1. Standing /\ Listed(todo) /\ TodoFits /\ jobs \in Seq(JobRow)
  BY DEF IInv, Standing, Rows
<1>2. /\ todo # <<>> /\ Head(todo).put \in {"stop", "owner", "ended"}
      /\ todo' = <<>> \/ todo' = <<PutMark(Head(todo).job)>>
      /\ UNCHANGED projectVars /\ Frame
  BY DEF StopDeleting, Frame
<1>3. PICK j \in DOMAIN jobs : Head(todo).job = j
  BY <1>1, <1>2, CleaningJob
<1>4. Standing' /\ jobs' = jobs  BY <1>1, <1>2, OnlyTodo DEF projectVars
<1>5. Listed(todo') /\ TodoFits'
  BY <1>2, <1>3, <1>4, NothingToDo, OnlyMark
<1> QED  BY <1>4, <1>5 DEF IInv

\* The job is marked for the finalizer.
LEMMA MarkStep ==
    ASSUME IInv, todo # <<>>, todo' = Tail(todo), up' = up,
           CommitMark(Head(todo))
    PROVE  IInv'
<1>1. /\ Standing /\ Listed(todo) /\ TodoFits /\ jobs \in Seq(JobRow)
      /\ Videos /\ uploads \in Seq(UploadRow)
  BY DEF IInv, Standing, Rows
<1>2. /\ Head(todo).put = "mark"
      /\ jobs' = [jobs EXCEPT ![Head(todo).job].delete = HasRow(Head(todo).job)]
      /\ UNCHANGED <<shownVars, uploads, worker>> /\ Frame
  BY DEF CommitMark, Frame
<1>3. PICK j \in DOMAIN jobs : /\ \A i \in DOMAIN todo : CleaningWrite(todo, i, j)
                               /\ Head(todo).job = j
  BY <1>1, <1>2, CleaningJob
<1> DEFINE r == [jobs[j] EXCEPT !.delete = HasRow(j)]
<1>4. /\ r \in JobRow /\ r.project = jobs[j].project /\ r.status = jobs[j].status
      /\ r.upload = jobs[j].upload /\ r.pin = jobs[j].pin
  <2>1. jobs[j] \in JobRow  BY <1>1
  <2>2. HasRow(j) \in BOOLEAN  BY DEF HasRow
  <2> HIDE DEF HasRow
  <2> QED  BY <2>1, <2>2 DEF JobRow
<1>5. jobs' = [jobs EXCEPT ![j] = r]  BY <1>2, <1>3
<1> HIDE DEF r
<1>6. /\ jobs' \in Seq(JobRow) /\ DOMAIN jobs' = DOMAIN jobs
      /\ \A k \in DOMAIN jobs :
            /\ jobs'[k].project = jobs[k].project
            /\ jobs'[k].upload = jobs[k].upload
            /\ jobs'[k].status = jobs[k].status
            /\ jobs'[k].pin = jobs[k].pin
  BY <1>1, <1>4, <1>5, RowReplaced
<1>7. Videos'
  <2> DEFINE none == {}
  <2>1. DOMAIN jobs' = DOMAIN jobs \cup none /\ \A k \in none : FALSE  BY <1>6
  <2> HIDE DEF none
  <2> QED  BY <1>1, <1>2, <1>6, <2>1, VideosStay
<1>8. Standing'  BY <1>1, <1>2, <1>6, <1>7, RowsStand
<1>9. Listed(todo') /\ TodoFits'
  BY <1>1, <1>2, <1>3, <1>6, CleaningTail
<1> QED  BY <1>8, <1>9 DEF IInv

\* The video of a job that has ended goes, whoever else names it.
LEMMA UnlinkStep ==
    ASSUME IInv, todo # <<>>, todo' = Tail(todo), up' = up,
           CommitUnlink(Head(todo))
    PROVE  IInv'
<1>1. /\ Standing /\ Listed(todo) /\ TodoFits /\ jobs \in Seq(JobRow)
      /\ Videos /\ uploads \in Seq(UploadRow)
  BY DEF IInv, Standing, Rows
<1>2. /\ Head(todo).put = "unlink"
      /\ UNCHANGED <<shownVars, jobs, worker>> /\ Frame
  BY DEF CommitUnlink, Frame
<1>3. PICK j \in DOMAIN jobs :
         /\ \A i \in DOMAIN todo : CleaningWrite(todo, i, j)
         /\ Head(todo).job = j /\ jobs[j].status \in Ended
  BY <1>1, <1>2, CleaningJob
<1>4. "unlinked" \in Fates /\ \A s \in Ended : s \notin Pending
  BY DEF Fates, Ended
<1>5. /\ uploads' \in Seq(UploadRow) /\ DOMAIN uploads' = DOMAIN uploads
      /\ \A u \in DOMAIN uploads :
            /\ uploads'[u].project = uploads[u].project
            /\ \/ uploads'[u].file = uploads[u].file
               \/ u = jobs[j].upload /\ uploads'[u].file = "unlinked"
  <2>1. \/ uploads' = uploads
        \/ uploads' = Lost({jobs[j].upload}, "unlinked")
    BY <1>3 DEF CommitUnlink
  <2>2. CASE uploads' = uploads  BY <1>1, <2>2
  <2>3. CASE uploads' = Lost({jobs[j].upload}, "unlinked")
    BY <1>1, <1>4, <2>3, LostRows
  <2> QED  BY <2>1, <2>2, <2>3
<1>6. Videos'
  <2> DEFINE none == {}
  <2>1. DOMAIN jobs' = DOMAIN jobs \cup none /\ \A k \in none : FALSE  BY <1>2
  <2> HIDE DEF none
  <2>2. ASSUME NEW k \in DOMAIN jobs, jobs[k].status \in Pending
        PROVE  \/ uploads'[jobs[k].upload].file = uploads[jobs[k].upload].file
               \/ /\ uploads'[jobs[k].upload].file = "unlinked"
                  /\ \E i \in DOMAIN jobs \ {k} :
                        /\ jobs[i].upload = jobs[k].upload
                        /\ jobs[i].status \in Ended \cup {"gone"}
    <3>1. jobs[k].upload \in DOMAIN uploads
      BY <1>1 DEF Videos, JobsNameVideos
    <3>2. j \in DOMAIN jobs \ {k}  BY <1>3, <1>4, <2>2
    <3> QED  BY <1>3, <1>5, <3>1, <3>2
  <2> QED  BY <1>1, <1>2, <1>5, <2>1, <2>2, VideosStay
<1>7. Standing'  BY <1>1, <1>2, <1>5, <1>6, UploadsStand
<1>8. Listed(todo') /\ TodoFits'
  BY <1>1, <1>2, <1>3, CleaningTail
<1> QED  BY <1>7, <1>8 DEF IInv

\* The directory of the job goes, ...
LEMMA DirectoryStep ==
    ASSUME IInv, todo # <<>>, todo' = Tail(todo), up' = up,
           CommitDirectory(Head(todo))
    PROVE  IInv'
<1>1. /\ Standing /\ Listed(todo) /\ TodoFits /\ jobs \in Seq(JobRow)
      /\ uploads \in Seq(UploadRow)
  BY DEF IInv, Standing, Rows
<1>2. /\ Head(todo).put = "directory" /\ jobs' = Without({Head(todo).job})
      /\ UNCHANGED <<shownVars, uploads, worker>> /\ Frame
  BY DEF CommitDirectory, Frame
<1>3. PICK j \in DOMAIN jobs :
         /\ \A i \in DOMAIN todo : CleaningWrite(todo, i, j)
         /\ Head(todo).job = j /\ jobs[j].status \in Ended
  BY <1>1, <1>2, CleaningJob
<1>4. \A k \in {j} : k \in DOMAIN jobs => jobs[k].status \notin Pending
  BY <1>3 DEF Ended
<1>5. /\ Standing' /\ DOMAIN jobs' = DOMAIN jobs
      /\ jobs'[j].status = jobs[j].status
  <2> PICK lost : lost = {j}  OBVIOUS
  <2>1. jobs' = Without(lost)  BY <1>2, <1>3
  <2>2. \A k \in lost : k \in DOMAIN jobs => jobs[k].status \notin Pending
    BY <1>4
  <2> QED  BY <1>1, <1>2, <1>3, <2>1, <2>2, FilesStand
<1>6. Listed(todo') /\ TodoFits'
  BY <1>1, <1>2, <1>3, <1>5, CleaningTail
<1> QED  BY <1>5, <1>6 DEF IInv

\* ... or some of it, and the rest is left to the finalizer.
LEMMA DirectoryBusyStep ==
    ASSUME IInv, DirectoryIsBusy
    PROVE  IInv'
<1>1. /\ Standing /\ Listed(todo) /\ TodoFits /\ jobs \in Seq(JobRow)
      /\ uploads \in Seq(UploadRow)
  BY DEF IInv, Standing, Rows
<1>2. /\ todo # <<>> /\ Head(todo).put = "directory"
      /\ todo' = <<PutMark(Head(todo).job)>>
      /\ UNCHANGED <<shownVars, uploads, worker>> /\ Frame
  BY DEF DirectoryIsBusy, Frame
<1>3. PICK j \in DOMAIN jobs : Head(todo).job = j /\ jobs[j].status \in Ended
  BY <1>1, <1>2, CleaningJob
<1>4. PICK lost \in SUBSET {j} : jobs' = Without(lost)
  BY <1>3 DEF DirectoryIsBusy
<1>5. \A k \in lost : k \in DOMAIN jobs => jobs[k].status \notin Pending
  BY <1>3 DEF Ended
<1>6. Standing' /\ DOMAIN jobs' = DOMAIN jobs
  BY <1>1, <1>2, <1>4, <1>5, FilesStand
<1>7. Listed(todo') /\ TodoFits'  BY <1>2, <1>3, <1>6, OnlyMark
<1> QED  BY <1>6, <1>7 DEF IInv

\* The row goes, and the project is left as it is.
LEMMA EraseStep ==
    ASSUME IInv, todo # <<>>, todo' = Tail(todo), up' = up,
           CommitErase(Head(todo))
    PROVE  IInv'
<1>1. /\ Standing /\ Listed(todo) /\ TodoFits /\ jobs \in Seq(JobRow)
      /\ Videos /\ Rows
  BY DEF IInv, Standing, Rows
<1>2. /\ Head(todo).put = "erase"
      /\ UNCHANGED <<projects, overtaken, uploads, worker>> /\ Frame
  BY DEF CommitErase, Frame
<1>3. PICK j \in DOMAIN jobs : /\ Head(todo).job = j /\ jobs[j].status \in Ended
                               /\ Tail(todo) = <<>>
  BY <1>1, <1>2, CleaningJob
<1> PICK own, status : own = jobs[j].project /\ status = jobs[j].status
  OBVIOUS
<1>4. /\ own \in ProjectIds /\ status \in Ended
      /\ jobs' = Erased({j})
      /\ dropped' = [dropped EXCEPT ![own] = @ \cup {status}]
  BY <1>1, <1>3, JobFields DEF CommitErase
<1>5. /\ jobs' \in Seq(JobRow) /\ DOMAIN jobs' = DOMAIN jobs
      /\ \A k \in DOMAIN jobs :
            /\ jobs'[k].project = jobs[k].project
            /\ jobs'[k].upload = jobs[k].upload
            /\ k = j => jobs'[k].status = "gone"
            /\ k # j => jobs'[k] = jobs[k]
  BY <1>1, <1>4, ErasedRows
<1>6. /\ "gone" \notin Statuses /\ "gone" \notin Pending
      /\ Ended \subseteq Statuses /\ \A s \in Ended : s \notin Pending
      /\ "running" \in Pending
  BY DEF Statuses, Pending, Ended
<1>7. Videos'
  <2> DEFINE none == {}
  <2>1. DOMAIN jobs' = DOMAIN jobs \cup none /\ \A k \in none : FALSE  BY <1>5
  <2> HIDE DEF none
  <2>2. \A k \in DOMAIN jobs :
           /\ jobs[k].status \in Ended \cup {"gone"} =>
                 jobs'[k].status \in Ended \cup {"gone"}
           /\ jobs'[k].status \in Pending => jobs[k].status \in Pending
    BY <1>5, <1>6
  <2> QED  BY <1>1, <1>2, <1>5, <2>1, <2>2, VideosStay
<1>8. /\ dropped' \in DroppedRows
      /\ \A p \in ProjectIds :
            dropped'[p] = IF p = own THEN dropped[p] \cup {status} ELSE dropped[p]
  BY <1>1, <1>4 DEF Rows, DroppedRows
<1>9. ASSUME NEW q, q # own PROVE SameJobs(q)
  <2>1. /\ \A k \in DOMAIN jobs : jobs[k].project = q => jobs'[k] = jobs[k]
        /\ \A k \in DOMAIN jobs' : jobs'[k].project = q => jobs'[k] = jobs[k]
    BY <1>5, <1>9
  <2> QED  BY <1>5, <2>1, SameRows
<1>10. /\ JobsOf(own)' \subseteq JobsOf(own)
       /\ PendingJobs(own)' = PendingJobs(own)
       /\ Found(own)' = Found(own)
  <2>1. JobsOf(own)' = JobsOf(own) \ {j}  BY <1>5, <1>6 DEF JobsOf, HasRow
  <2>2. j \in JobsOf(own)  BY <1>4, <1>6 DEF JobsOf, HasRow
  <2>3. PendingJobs(own)' = PendingJobs(own)
    <3>1. j \notin PendingJobs(own)  BY <1>3, <1>6 DEF PendingJobs
    <3>2. \A k : k \in PendingJobs(own)' <=> k \in PendingJobs(own)
      <4> TAKE k
      <4>1. /\ k \in PendingJobs(own)' <=>
                  k \in JobsOf(own)' /\ jobs'[k].status \in Pending
            /\ k \in PendingJobs(own) <=>
                  k \in JobsOf(own) /\ jobs[k].status \in Pending
        BY DEF PendingJobs
      <4>2. k \in JobsOf(own) /\ k # j => jobs'[k] = jobs[k]
        BY <1>5 DEF JobsOf
      <4> QED  BY <2>1, <3>1, <4>1, <4>2
    <3> QED  BY <3>2
  <2>4. StatusesOf(jobs, own) = StatusesOf(jobs', own) \cup {status}
    <3>1. /\ StatusesOf(jobs, own) = {jobs[k].status : k \in JobsOf(own)}
          /\ StatusesOf(jobs', own) = {jobs'[k].status : k \in JobsOf(own)'}
      BY DEF StatusesOf, JobsOf, HasRow
    <3>2. \A k \in JobsOf(own) \ {j} : jobs'[k].status = jobs[k].status
      BY <1>5 DEF JobsOf
    <3>3. {jobs'[k].status : k \in JobsOf(own)'}
             = {jobs[k].status : k \in JobsOf(own) \ {j}}
      BY <2>1, <3>2
    <3> QED  BY <2>2, <3>1, <3>3
  <2>5. /\ Found(own)' = StatusesOf(jobs', own) \cup dropped'[own]
        /\ Found(own) = StatusesOf(jobs, own) \cup dropped[own]
        /\ dropped'[own] = dropped[own] \cup {status}
    BY <1>4, <1>8 DEF Found
  <2>6. Found(own)' = Found(own)  BY <2>4, <2>5
  <2> QED  BY <2>1, <2>3, <2>6
<1>11. own \notin overtaken => FinishedAt(own)' /\ CurrentAt(own)'
  <2> HAVE own \notin overtaken
  <2>1. FinishedAt(own) /\ CurrentAt(own)
    BY <1>1, <1>4, ByProject DEF Standing
  <2>2. worker.pc # "idle" => jobs'[worker.job].project = jobs[worker.job].project
    BY <1>1, <1>5 DEF Standing, WorkerRuns
  <2>3. /\ AtRefresh(own) => AtRefresh(own)'
        /\ Refreshing(own)' => Refreshing(own)
        /\ Shown(own)' <=> Shown(own)
    BY <1>2, <2>2 DEF AtRefresh, Refreshing, Shown
  <2>4. FinishedAt(own)'  BY <1>2, <1>10, <2>1, <2>3 DEF FinishedAt
  <2>5. CurrentAt(own)'  BY <1>2, <1>10, <2>1, <2>3 DEF CurrentAt
  <2> QED  BY <2>4, <2>5
<1>12. Standing'
  <2>1. \A p \in ProjectIds :
           p \notin overtaken =>
              \/ /\ SameJobs(p) /\ projects'[p] = projects[p]
                 /\ dropped'[p] = dropped[p]
              \/ FinishedAt(p)' /\ CurrentAt(p)'
    BY <1>2, <1>8, <1>9, <1>11
  <2>2. \A k \in DOMAIN jobs' :
           jobs'[k].status \in Pending =>
              /\ k \in DOMAIN jobs /\ jobs[k].status \in Pending
              /\ jobs'[k].pin = jobs[k].pin
              /\ projects'[jobs[k].project] = projects[jobs[k].project]
    BY <1>2, <1>5, <1>6
  <2>3. /\ projects' \in ProjectRows /\ uploads' \in Seq(UploadRow)
        /\ DOMAIN jobs \subseteq DOMAIN jobs'
        /\ \A k \in DOMAIN jobs :
              /\ jobs'[k].project = jobs[k].project
              /\ jobs[k].status = "running" => jobs'[k].status = "running"
    BY <1>1, <1>2, <1>3, <1>5, <1>6 DEF Rows
  <2>4. \A k \in DOMAIN jobs' :
           k \in DOMAIN jobs \/ projects[jobs'[k].project] # None
    BY <1>5
  <2>5. \A p \in ProjectIds : projects[p] # None => projects'[p] # None
    BY <1>2
  <2> QED  BY <1>1, <1>2, <1>5, <1>7, <1>8, <2>1, <2>2, <2>3, <2>4, <2>5,
              WriteStands
<1>13. todo' = <<>>  BY <1>3
<1> QED  BY <1>12, <1>13, NothingToDo DEF IInv

-----------------------------------------------------------------------------
(* The handlers that submit and delete.                                    *)

\* What a submission pins is found.
LEMMA PinnedIsFound ==
    ASSUME GoodSecrets(secrets), NEW kinds \in [Capabilities -> Kinds]
    PROVE  LET pin == [cap \in Capabilities |-> Pinned(kinds[cap])]
           IN  pin \in Pins /\ PinFound(pin)
<1> DEFINE pin == [cap \in Capabilities |-> Pinned(kinds[cap])]
<1>1. Len(secrets) \in Nat /\ DOMAIN secrets = 1..Len(secrets)
  BY DEF GoodSecrets
<1>2. ASSUME NEW kind \in Kinds
      PROVE  /\ Pinned(kind) \in PinRow
             /\ Pinned(kind).ref # None =>
                   Resolve(Pinned(kind).ref, Pinned(kind).kind) = Pinned(kind).ref
  <2>1. /\ Pinned(kind) = [kind |-> kind, ref |-> ActiveRef(kind)]
        /\ Pinned(kind).kind = kind /\ Pinned(kind).ref = ActiveRef(kind)
    BY DEF Pinned
  <2>2. ActiveRef(kind) = None \/ ActiveRef(kind) \in Active(kind)
    BY DEF ActiveRef
  <2>3. ActiveRef(kind) \in Active(kind) =>
           /\ ActiveRef(kind) \in DOMAIN secrets /\ ActiveRef(kind) \in Nat
           /\ secrets[ActiveRef(kind)].kind = kind
    BY <1>1 DEF Active
  <2>4. ActiveRef(kind) \in Nat \cup {None}  BY <2>2, <2>3
  <2>5. ActiveRef(kind) # None => Resolve(ActiveRef(kind), kind) = ActiveRef(kind)
    BY <2>2, <2>3 DEF Resolve
  <2> QED  BY <2>1, <2>4, <2>5 DEF PinRow
<1>3. \A cap \in Capabilities : kinds[cap] \in Kinds  OBVIOUS
<1>4. pin \in Pins  BY <1>2, <1>3 DEF Pins
<1>5. PinFound(pin)  BY <1>2, <1>3 DEF PinFound
<1> QED  BY <1>4, <1>5

\* Sequences of a few writes put together.
LEMMA Prepended ==
    ASSUME NEW a, NEW b, NEW c, NEW d, NEW e
    PROVE  /\ <<>> \o <<b, c, d, e>> = <<b, c, d, e>>
           /\ <<a>> \o <<b, c, d, e>> = <<a, b, c, d, e>>
<1> DEFINE S == {a, b, c, d, e}
           s == <<b, c, d, e>>
           t == <<a>> \o s
           all == <<a, b, c, d, e>>
<1>1. /\ s \in Seq(S) /\ Len(s) = 4 /\ <<a>> \in Seq(S) /\ Len(<<a>>) = 1
      /\ <<a>>[1] = a /\ s[1] = b /\ s[2] = c /\ s[3] = d /\ s[4] = e
  OBVIOUS
<1>2. /\ all \in Seq(S) /\ Len(all) = 5 /\ all[1] = a /\ all[2] = b
      /\ all[3] = c /\ all[4] = d /\ all[5] = e
  OBVIOUS
<1> HIDE DEF S, s, all
<1>3. <<>> \o s = s  BY <1>1, ConcatEmptySeq
<1>4. /\ t \in Seq(S) /\ Len(t) = 5
      /\ \A i \in 1..5 : t[i] = IF i <= 1 THEN <<a>>[i] ELSE s[i - 1]
  <2>1. /\ t \in Seq(S) /\ Len(t) = Len(<<a>>) + Len(s)
        /\ \A i \in 1..(Len(<<a>>) + Len(s)) :
              t[i] = IF i <= Len(<<a>>) THEN <<a>>[i] ELSE s[i - Len(<<a>>)]
    BY <1>1, ConcatProperties
  <2> QED  BY <1>1, <2>1
<1> HIDE DEF t
<1>5. t[1] = a /\ t[2] = b /\ t[3] = c /\ t[4] = d /\ t[5] = e
  BY <1>1, <1>4
<1>6. \A i \in 1..5 : t[i] = all[i]
  <2>1. \A i \in 1..5 : i \in {1, 2, 3, 4, 5}  OBVIOUS
  <2> QED  BY <1>2, <1>5, <2>1
<1>7. t = all  BY <1>2, <1>4, <1>6
<1> QED  BY <1>3, <1>7 DEF s, t, all

LEMMA WrittenOut ==
    ASSUME NEW a, NEW b, NEW c, NEW d, NEW e
    PROVE  Listed(<<b, c, d, e>>) /\ Listed(<<a, b, c, d, e>>)
<1> DEFINE S == {a, b, c, d, e}
           s == <<b, c, d, e>>
           t == <<a, b, c, d, e>>
<1>1. s \in Seq(S) /\ t \in Seq(S)  OBVIOUS
<1> HIDE DEF S, s, t
<1>2. Listed(s) /\ Listed(t)  BY <1>1, SeqOfItself
<1> QED  BY <1>2 DEF s, t

LEMMA CreateJobStep ==
    ASSUME IInv, CreateJob
    PROVE  IInv'
<1>1. /\ Standing /\ jobs \in Seq(JobRow) /\ GoodSecrets(secrets)
      /\ uploads \in Seq(UploadRow)
  BY DEF IInv, Standing, Rows, Configured
<1>2. Frame /\ UNCHANGED projectVars
  BY DEF CreateJob, Frame
<1>3. PICK p \in ProjectIds, kinds \in [Capabilities -> Kinds] :
         /\ Shown(p)
         /\ \E u \in Nameable(p) :
               todo' = Submission(p, u,
                                  [cap \in Capabilities |-> Pinned(kinds[cap])])
  BY DEF CreateJob
<1>4. PICK u \in Nameable(p) :
         todo' = Submission(p, u, [cap \in Capabilities |-> Pinned(kinds[cap])])
  BY <1>3
<1> PICK pin, us : /\ pin = [cap \in Capabilities |-> Pinned(kinds[cap])]
                   /\ us = Brought(u)
  OBVIOUS
<1>5. pin \in Pins /\ PinFound(pin)
  BY <1>1, PinnedIsFound
<1> DEFINE a == PutUpload(p)
           b == PutLayout(NewJob(p, u))
           c == PutSnapshot(Len(jobs) + 1, pin)
           d == PutRow(Len(jobs) + 1)
           e == PutLogged(us)
<1>6. todo' = Staging(p, u) \o <<b, c, d, e>>
  BY <1>4 DEF Submission
<1>7. /\ u \in Nat
      /\ \/ u \in DOMAIN uploads /\ uploads[u].project = p /\ Kept(u)
         \/ u \notin DOMAIN uploads /\ u = Len(uploads) + 1
  BY <1>1 DEF Nameable
<1>8. /\ UNCHANGED <<jobs, secrets, projects, uploads>>
  BY <1>2 DEF Frame, providerVars, projectVars, shownVars
<1>9. PinFound(pin)' /\ Shown(p)'
  BY <1>3, <1>5, <1>8 DEF PinFound, Resolve, Shown
<1>10. Standing'  BY <1>1, <1>2, OnlyTodo
<1>11. Listed(todo') /\ Submitting'
  <2>1. CASE u \in DOMAIN uploads
    <3>1. todo' = <<b, c, d, e>>
      <4> HIDE DEF b, c, d, e
      <4>1. todo' = <<>> \o <<b, c, d, e>>  BY <1>6, <2>1 DEF Staging
      <4> QED  BY <4>1, Prepended, Zenon
    <3>2. Listed(todo')
      <4> HIDE DEF b, c, d, e
      <4> QED  BY <3>1, WrittenOut, Zenon
    <3>3. uploads'[u].project = p /\ Kept(u)'
      BY <1>7, <1>8, <2>1 DEF Kept
    <3>4. Naming(p, u, pin, us)'
      BY <1>8, <1>9, <2>1, <3>1, <3>3
         DEF Naming, PutLayout, PutSnapshot, PutRow, PutLogged, NewJob
    <3> QED  BY <1>5, <1>7, <3>2, <3>4 DEF Submitting
  <2>2. CASE u \notin DOMAIN uploads
    <3>1. todo' = <<a, b, c, d, e>>
      <4> HIDE DEF b, c, d, e
      <4>1. todo' = <<a>> \o <<b, c, d, e>>  BY <1>6, <2>2 DEF Staging
      <4> HIDE DEF a
      <4>2. <<a>> \o <<b, c, d, e>> = <<a, b, c, d, e>>  BY Prepended
      <4> QED  BY <4>1, <4>2
    <3>2. Listed(todo')
      <4> HIDE DEF a, b, c, d, e
      <4> QED  BY <3>1, WrittenOut, Zenon
    <3>3. Bringing(p, u, pin, us)'
      BY <1>7, <1>8, <1>9, <2>2, <3>1
         DEF Bringing, PutUpload, PutLayout, PutSnapshot, PutRow, PutLogged,
             NewJob
    <3> QED  BY <1>5, <1>7, <3>2, <3>3 DEF Submitting
  <2> QED  BY <2>1, <2>2
<1> QED  BY <1>10, <1>11 DEF IInv, TodoFits

\* The writes td that delete a project whose pending jobs are active.
DeletionList(td, p, active) ==
    LET c == Len(td)
    IN  /\ Listed(td) /\ c \in Nat /\ c >= 2
        /\ td[c] = PutGone(p) /\ td[c - 1] = PutTree(p)
        /\ c >= 3 => td[c - 2] = PutAwait(p)
        /\ \A i \in 1..(c - 3) : \E j \in active : td[i] = PutCancel(j)
        /\ c < 3 => active = {}

LEMMA DeletionForm ==
    ASSUME NEW p, NEW n \in Nat, NEW active \in SUBSET (1..n)
    PROVE  DeletionList(Deletion(p, active), p, active)
<1> DEFINE td == Deletion(p, active)
           size == Cardinality(active)
           list == SetToSeq(active)
           All == {PutCancel(j) : j \in active}
                     \cup {PutAwait(p), PutTree(p), PutGone(p)}
           cancels == [i \in 1..size |-> PutCancel(list[i])]
           ends == <<PutTree(p), PutGone(p)>>
<1>1. IsFiniteSet(active)
  <2>1. IsFiniteSet(1..n)  BY FS_Interval
  <2> QED  BY <2>1, FS_Subset
<1>2. size \in Nat /\ list \in [1..size -> active]
  BY <1>1, SetToSeqLists
<1> HIDE DEF size, list
<1>3. /\ cancels \in Seq(All) /\ Len(cancels) = size
      /\ \A i \in 1..size : cancels[i] = PutCancel(list[i]) /\ list[i] \in active
  <2>1. \A i \in 1..size : list[i] \in active /\ PutCancel(list[i]) \in All
    BY <1>2
  <2> HIDE DEF All
  <2> QED  BY <1>2, <2>1
<1>4. /\ ends \in Seq(All) /\ Len(ends) = 2
      /\ ends[1] = PutTree(p) /\ ends[2] = PutGone(p)
      /\ <<PutAwait(p)>> \in Seq(All) /\ Len(<<PutAwait(p)>>) = 1
      /\ <<PutAwait(p)>>[1] = PutAwait(p)
  <2>1. PutTree(p) \in All /\ PutGone(p) \in All /\ PutAwait(p) \in All  OBVIOUS
  <2> HIDE DEF All
  <2> QED  BY <2>1
<1> HIDE DEF All
<1>5. CASE active = {}
  <2>1. td = <<>> \o ends  BY <1>5 DEF Deletion
  <2>2. <<>> \o ends = ends  BY <1>4, ConcatEmptySeq
  <2>3. td = ends  BY <2>1, <2>2
  <2> HIDE DEF td, ends
  <2>4. Listed(td)  BY <1>4, <2>3, SeqOfItself
  <2>5. Len(td) = 2 /\ td[2] = PutGone(p) /\ td[1] = PutTree(p)
    BY <1>4, <2>3
  <2>6. /\ 2 \in Nat /\ 2 >= 2 /\ ~ (2 >= 3) /\ 2 - 1 = 1
        /\ \A i \in 1..(2 - 3) : FALSE
    OBVIOUS
  <2>7. /\ Listed(td) /\ Len(td) \in Nat /\ Len(td) >= 2
        /\ td[Len(td)] = PutGone(p) /\ td[Len(td) - 1] = PutTree(p)
        /\ Len(td) >= 3 => td[Len(td) - 2] = PutAwait(p)
        /\ \A i \in 1..(Len(td) - 3) : \E j \in active : td[i] = PutCancel(j)
        /\ Len(td) < 3 => active = {}
    BY <1>5, <2>4, <2>5, <2>6
  <2>8. DeletionList(td, p, active)  BY <2>7 DEF DeletionList
  <2> QED  BY <2>8, Zenon DEF td
<1>6. CASE active # {}
  <2> DEFINE head == cancels \o <<PutAwait(p)>>
  <2>1. td = head \o ends  BY <1>6 DEF Deletion, size, list
  <2> HIDE DEF td, ends, cancels
  <2>2. /\ head \in Seq(All) /\ Len(head) = size + 1
        /\ \A i \in 1..size : head[i] = cancels[i]
        /\ head[size + 1] = PutAwait(p)
    <3>1. /\ head \in Seq(All)
          /\ Len(head) = Len(cancels) + Len(<<PutAwait(p)>>)
          /\ \A i \in 1..(Len(cancels) + Len(<<PutAwait(p)>>)) :
                head[i] = IF i <= Len(cancels) THEN cancels[i]
                          ELSE <<PutAwait(p)>>[i - Len(cancels)]
      BY <1>3, <1>4, ConcatProperties
    <3> HIDE DEF head
    <3>2. Len(cancels) = size /\ Len(<<PutAwait(p)>>) = 1  BY <1>3, <1>4
    <3>3. Len(head) = size + 1  BY <3>1, <3>2
    <3>4. \A i \in 1..size : head[i] = cancels[i]
      BY <1>2, <3>1, <3>2
    <3>5. head[size + 1] = <<PutAwait(p)>>[1]
      <4>1. /\ size + 1 \in 1..(size + 1) /\ ~ (size + 1 <= size)
            /\ (size + 1) - size = 1
        BY <1>2
      <4> QED  BY <3>1, <3>2, <4>1
    <3> QED  BY <1>4, <3>1, <3>3, <3>4, <3>5
  <2> HIDE DEF head
  <2>3. /\ td \in Seq(All) /\ Len(td) = size + 3
        /\ \A i \in 1..(size + 1) : td[i] = head[i]
        /\ td[size + 2] = PutTree(p) /\ td[size + 3] = PutGone(p)
    <3>1. /\ head \o ends \in Seq(All)
          /\ Len(head \o ends) = Len(head) + Len(ends)
          /\ \A i \in 1..(Len(head) + Len(ends)) :
                (head \o ends)[i] = IF i <= Len(head) THEN head[i]
                                   ELSE ends[i - Len(head)]
      BY <1>4, <2>2, ConcatProperties
    <3>2. Len(head) = size + 1 /\ Len(ends) = 2  BY <1>4, <2>2
    <3>3. (size + 1) + 2 = size + 3  BY <1>2
    <3>4. \A i \in 1..(size + 3) :
             td[i] = IF i <= size + 1 THEN head[i] ELSE ends[i - (size + 1)]
      BY <2>1, <3>1, <3>2, <3>3
    <3>5. \A i \in 1..(size + 1) : td[i] = head[i]
      BY <1>2, <3>4
    <3>6. /\ size + 2 \in 1..(size + 3) /\ ~ (size + 2 <= size + 1)
          /\ (size + 2) - (size + 1) = 1
          /\ size + 3 \in 1..(size + 3) /\ ~ (size + 3 <= size + 1)
          /\ (size + 3) - (size + 1) = 2
      BY <1>2
    <3>7. td[size + 2] = ends[1] /\ td[size + 3] = ends[2]
      BY <3>4, <3>6
    <3> QED  BY <1>4, <2>1, <3>1, <3>2, <3>3, <3>5, <3>7
  <2>4. Listed(td)  BY <2>3, SeqOfItself
  <2> PICK c : c = Len(td)  OBVIOUS
  <2>5. size # 0
    BY <1>1, <1>6, FS_EmptySet DEF size
  <2>6. /\ c = size + 3 /\ c \in Nat /\ c >= 2 /\ ~ (c < 3) /\ c - 1 = size + 2
        /\ c - 2 = size + 1 /\ c - 3 = size
    BY <1>2, <2>3
  <2>7. /\ td[c] = PutGone(p) /\ td[c - 1] = PutTree(p)
        /\ td[c - 2] = PutAwait(p)
    <3>1. size + 1 \in 1..(size + 1)  BY <1>2
    <3> QED  BY <2>2, <2>3, <2>6, <3>1
  <2>8. \A i \in 1..(c - 3) : \E j \in active : td[i] = PutCancel(j)
    <3> TAKE i \in 1..(c - 3)
    <3>1. i \in 1..size /\ i \in 1..(size + 1)  BY <1>2, <2>6
    <3> QED  BY <1>3, <2>2, <2>3, <3>1
  <2>9. /\ Listed(td) /\ c \in Nat /\ c >= 2
        /\ td[c] = PutGone(p) /\ td[c - 1] = PutTree(p)
        /\ c >= 3 => td[c - 2] = PutAwait(p)
        /\ \A i \in 1..(c - 3) : \E j \in active : td[i] = PutCancel(j)
        /\ c < 3 => active = {}
    BY <2>4, <2>6, <2>7, <2>8
  <2>10. DeletionList(td, p, active)  BY <2>9 DEF DeletionList
  <2> QED  BY <2>10, Zenon DEF td
<1> QED  BY <1>5, <1>6

LEMMA DeleteProjectStep ==
    ASSUME IInv, DeleteProject
    PROVE  IInv'
<1>1. Standing /\ jobs \in Seq(JobRow)
  BY DEF IInv, Standing, Rows
<1>2. Frame /\ UNCHANGED projectVars /\ jobs' = jobs
  BY DEF DeleteProject, Frame, projectVars
<1>3. PICK p \in ProjectIds : todo' = Deletion(p, PendingJobs(p))
  BY DEF DeleteProject
<1> PICK n, active : n = Len(jobs) /\ active = PendingJobs(p)  OBVIOUS
<1>4. n \in Nat /\ DOMAIN jobs = 1..n  BY <1>1
<1>5. active \in SUBSET (1..n)  BY <1>4 DEF PendingJobs, JobsOf
<1>6. todo' = Deletion(p, active)  BY <1>3
<1> PICK c : c = Len(todo')  OBVIOUS
<1>7. /\ Listed(todo') /\ c \in Nat /\ c >= 2
      /\ todo'[c] = PutGone(p) /\ todo'[c - 1] = PutTree(p)
      /\ c >= 3 => todo'[c - 2] = PutAwait(p)
      /\ \A i \in 1..(c - 3) : \E j \in active : todo'[i] = PutCancel(j)
      /\ c < 3 => active = {}
  <2>1. n \in Nat  BY <1>4
  <2>2. DeletionList(Deletion(p, active), p, active)
    BY <1>5, <2>1, DeletionForm, Zenon
  <2>3. DeletionList(todo', p, active)  BY <1>6, <2>2, Zenon
  <2> QED  BY <2>3 DEF DeletionList
<1>8. Standing'  BY <1>1, <1>2, OnlyTodo
<1>9. Deleting(p)'
  <2>1. PendingJobs(p)' = active
    BY <1>2 DEF PendingJobs, JobsOf, HasRow
  <2>2. \A i \in 1..(c - 3) : \E j \in DOMAIN jobs' : todo'[i] = PutCancel(j)
    BY <1>2, <1>4, <1>5, <1>7
  <2>3. c >= 1  BY <1>7
  <2> QED  BY <1>7, <2>1, <2>2, <2>3
           DEF Deleting, PutGone, PutTree, PutAwait, PutCancel
<1> QED  BY <1>7, <1>8, <1>9 DEF IInv, TodoFits

\* The writes of a deletion: it is found to have ended second.
LEMMA CleanupWrites ==
    ASSUME NEW j, NEW marks, NEW wanted, NEW td, td = Cleanup(j, marks, wanted)
    PROVE  /\ Listed(td) /\ Len(td) = 5 /\ DOMAIN td = 1..5
           /\ td[2].put = "ended"
           /\ \A i \in 1..5 :
                 /\ td[i].job = j
                 /\ td[i].put \in {"owner", "ended", "unlink", "directory", "erase"}
                 /\ td[i].put = "ended" => td[i].wanted = wanted
                 /\ td[i].put \in {"unlink", "directory", "erase"} => i > 2
                 /\ td[i].put = "erase" => i = 5
<1> DEFINE a == PutOwner(j, marks)
           b == PutEnded(j, wanted)
           c == PutUnlink(j)
           d == PutDirectory(j)
           e == PutErase(j)
<1>1. td = <<a, b, c, d, e>>  BY DEF Cleanup
<1>2. /\ a.job = j /\ b.job = j /\ c.job = j /\ d.job = j /\ e.job = j
      /\ a.put = "owner" /\ b.put = "ended" /\ c.put = "unlink"
      /\ d.put = "directory" /\ e.put = "erase" /\ b.wanted = wanted
  BY DEF PutOwner, PutEnded, PutUnlink, PutDirectory, PutErase
<1> HIDE DEF a, b, c, d, e
<1>3. Listed(td)  BY <1>1, WrittenOut, Zenon
<1>4. /\ Len(td) = 5 /\ DOMAIN td = 1..5
      /\ td[1] = a /\ td[2] = b /\ td[3] = c /\ td[4] = d /\ td[5] = e
  BY <1>1
<1>5. \A i \in 1..5 : i \in {1, 2, 3, 4, 5}  OBVIOUS
<1> QED  BY <1>2, <1>3, <1>4, <1>5

\* A deletion of one job, with the cancel before it or without.
LEMMA CleanupFits ==
    ASSUME NEW j \in DOMAIN jobs', NEW marks, NEW wanted \in SUBSET Ended,
           NEW td, td = Cleanup(j, marks, wanted),
           todo' = td \/ todo' = <<PutStop(j)>> \o td
    PROVE  Listed(todo') /\ TodoFits'
<1>1. /\ Listed(td) /\ Len(td) = 5 /\ DOMAIN td = 1..5
      /\ td[2].put = "ended"
      /\ \A i \in 1..5 :
            /\ td[i].job = j
            /\ td[i].put \in {"owner", "ended", "unlink", "directory", "erase"}
            /\ td[i].put = "ended" => td[i].wanted = wanted
            /\ td[i].put \in {"unlink", "directory", "erase"} => i > 2
            /\ td[i].put = "erase" => i = 5
  BY CleanupWrites
<1>2. CASE todo' = td
  <2>1. ASSUME NEW i \in DOMAIN todo' PROVE CleaningWrite(todo, i, j)'
    <3>1. i \in 1..5 /\ todo'[i] = td[i] /\ DOMAIN todo' = 1..5  BY <1>1, <1>2
    <3>2. i > 2 => 2 \in 1..(i - 1)  BY <3>1
    <3>3. todo'[2].put = "ended" /\ 2 \in DOMAIN todo'  BY <1>1, <1>2
    <3>4. i = 5 => i + 1 \notin DOMAIN todo'  BY <3>1
    <3> QED  BY <1>1, <3>1, <3>2, <3>3, <3>4 DEF CleaningWrite
  <2> QED  BY <1>1, <1>2, <2>1 DEF Cleaning, TodoFits
<1>3. CASE todo' = <<PutStop(j)>> \o td
  <2> PICK a : a = PutStop(j)  OBVIOUS
  <2> DEFINE S == {a} \cup {td[i] : i \in DOMAIN td}
  <2>1. a.put = "stop" /\ a.job = j  BY DEF PutStop
  <2>2. td \in Seq(S)
    <3> DEFINE T == {td[i] : i \in DOMAIN td}
    <3>1. td \in Seq(T)  BY <1>1 DEF Listed
    <3>2. T \subseteq S  OBVIOUS
    <3> HIDE DEF S, T
    <3> QED  BY <3>1, <3>2
  <2>3. <<a>> \in Seq(S) /\ Len(<<a>>) = 1 /\ <<a>>[1] = a  OBVIOUS
  <2> HIDE DEF S
  <2>4. /\ todo' \in Seq(S) /\ Len(todo') = 6
        /\ \A i \in 1..6 : todo'[i] = IF i <= 1 THEN <<a>>[i] ELSE td[i - 1]
    <3>1. /\ <<a>> \o td \in Seq(S)
          /\ Len(<<a>> \o td) = Len(<<a>>) + Len(td)
          /\ \A i \in 1..(Len(<<a>>) + Len(td)) :
                (<<a>> \o td)[i] = IF i <= Len(<<a>>) THEN <<a>>[i]
                                   ELSE td[i - Len(<<a>>)]
      BY <2>2, <2>3, ConcatProperties
    <3>2. todo' = <<a>> \o td  BY <1>3
    <3>3. Len(<<a>>) + Len(td) = 6  BY <1>1, <2>3
    <3> QED  BY <2>3, <3>1, <3>2, <3>3
  <2>5. /\ DOMAIN todo' = 1..6 /\ todo'[1] = a
        /\ \A i \in 2..6 : todo'[i] = td[i - 1]
    BY <2>3, <2>4
  <2>6. Listed(todo')  BY <2>4, SeqOfItself
  <2>7. ASSUME NEW i \in DOMAIN todo' PROVE CleaningWrite(todo, i, j)'
    <3>1. CASE i = 1
      BY <2>1, <2>5, <3>1 DEF CleaningWrite
    <3>2. CASE i # 1
      <4>1. i - 1 \in 1..5 /\ todo'[i] = td[i - 1]  BY <2>5, <3>2
      <4>2. i - 1 > 2 => 3 \in 1..(i - 1)  BY <4>1
      <4>3. todo'[3].put = "ended" /\ 3 \in DOMAIN todo'
        <5>1. 3 \in 2..6 /\ 3 - 1 = 2  OBVIOUS
        <5> QED  BY <1>1, <2>5, <5>1
      <4>4. i - 1 = 5 => i + 1 \notin DOMAIN todo'  BY <2>5
      <4> QED  BY <1>1, <4>1, <4>2, <4>3, <4>4 DEF CleaningWrite
    <3> QED  BY <3>1, <3>2
  <2> QED  BY <2>6, <2>7 DEF Cleaning, TodoFits
<1> QED  BY <1>2, <1>3

\* The delete command of a job, and the finalizer's attempt.
LEMMA DeleteJobStep ==
    ASSUME IInv, DeleteJob \/ FinalizeDelete
    PROVE  IInv'
<1>1. Standing /\ Frame /\ UNCHANGED projectVars /\ jobs' = jobs
  BY DEF IInv, DeleteJob, FinalizeDelete, Frame, projectVars
<1>2. "cancelled" \in Ended  BY DEF Ended, Statuses, Pending
<1>3. PICK j \in DOMAIN jobs, marks \in BOOLEAN, wanted \in SUBSET Ended :
         \/ todo' = Cleanup(j, marks, wanted)
         \/ todo' = <<PutStop(j)>> \o Cleanup(j, marks, wanted)
  <2>1. CASE DeleteJob
    <3>1. PICK j \in DOMAIN jobs :
             todo' = IF jobs[j].status \in Pending
                     THEN <<PutStop(j)>> \o Cleanup(j, TRUE, {"cancelled"})
                     ELSE Cleanup(j, TRUE, Ended)
      BY <2>1 DEF DeleteJob
    <3>2. {"cancelled"} \in SUBSET Ended /\ Ended \in SUBSET Ended  BY <1>2
    <3> QED  BY <3>1, <3>2
  <2>2. CASE FinalizeDelete
    <3>1. PICK j \in DOMAIN jobs : todo' = Cleanup(j, FALSE, Ended)
      BY <2>2 DEF FinalizeDelete
    <3> QED  BY <3>1
  <2> QED  BY <2>1, <2>2
<1>4. Listed(todo') /\ TodoFits'
  <2> PICK td : td = Cleanup(j, marks, wanted)  OBVIOUS
  <2>1. j \in DOMAIN jobs'  BY <1>1
  <2>2. todo' = td \/ todo' = <<PutStop(j)>> \o td  BY <1>3
  <2> QED  BY <2>1, <2>2, CleanupFits
<1>5. Standing'  BY <1>1, OnlyTodo
<1> QED  BY <1>4, <1>5 DEF IInv

-----------------------------------------------------------------------------
(* Every step.                                                             *)

LEMMA CommitStep ==
    ASSUME IInv, Commit
    PROVE  IInv'
BY CommitConfigStep, UploadStep, LayoutStep, SnapshotStep, RowStep, LoggedStep,
   CancelStep, AwaitStep, TreeStep, GoneStep, StopStep, CheckStep, MarkStep,
   UnlinkStep, DirectoryStep, EraseStep DEF Commit, CommitProjectWrite

\* A step that leaves the running handler alone.
LEMMA HandlerRuns ==
    ASSUME IInv, Standing', RowsKept, ProjectsKept, Frame,
           todo' = todo, uploads' = uploads
    PROVE  IInv'
<1>1. /\ jobs \in Seq(JobRow) /\ TodoFits /\ Listed(todo)
      /\ secrets' = secrets /\ made' = made
  BY FrameKeeps DEF IInv, Standing, Rows
<1>2. TodoFits'  BY <1>1, TodoKept
<1> QED  BY <1>1, <1>2 DEF IInv

LEMMA ApiStepKeeps ==
    ASSUME IInv, ApiStep
    PROVE  IInv'
<1>1. Standing  BY DEF IInv
<1>2. CASE Configure /\ UNCHANGED projectVars
  <2>1. Configured' /\ Listed(todo') /\ Configuring'
    BY <1>1, <1>2, ConfigureStep DEF Standing
  <2>2. secrets' = secrets
    BY <1>2 DEF Configure, CreateProfile, PatchProfile, DeleteProfile,
                PatchSettings, CreateCookie, PatchCookie, DeleteCookie,
                providerVars
  <2>3. Standing'  BY <1>1, <1>2, <2>1, <2>2, ConfigStands
  <2> QED  BY <2>1, <2>3 DEF IInv, TodoFits
<1>3. CASE CreateProject
  <2>1. Frame /\ todo' = todo /\ uploads' = uploads
    BY <1>3 DEF CreateProject, Frame, apiVars
  <2> QED  BY <1>1, <1>3, <2>1, CreateProjectStep, HandlerRuns
<1>4. CASE CancelJob
  <2>1. PICK j \in DOMAIN jobs : Cancel(j)  BY <1>4 DEF CancelJob
  <2>2. todo' = todo /\ up' = up  BY <1>4 DEF CancelJob, apiVars
  <2>3. Frame /\ uploads' = uploads  BY <2>1, <2>2 DEF Cancel, Frame
  <2>4. Standing' /\ RowsKept /\ ProjectsKept
    BY <1>1, <2>1, <2>2, CancelStands
  <2> QED  BY <2>2, <2>3, <2>4, HandlerRuns
<1>5. CASE RecoverJob
  <2>1. PICK j \in DOMAIN jobs : /\ jobs[j].status = "interrupted"
                                 /\ SetAndRefresh(j, "queued")
    BY <1>5 DEF RecoverJob
  <2>2. Frame /\ UNCHANGED <<todo, worker, uploads>>
    BY <1>5 DEF RecoverJob, Frame, apiVars
  <2>3. /\ jobs[j].status \in Pending /\ jobs[j].status # "running"
        /\ "queued" \in Statuses
    BY <2>1 DEF Pending, Statuses
  <2>4. Standing' /\ RowsKept /\ ProjectsKept
    BY <1>1, <2>1, <2>2, <2>3, SetAndRefreshStep
  <2> QED  BY <2>2, <2>4, HandlerRuns
<1>6. CASE GiveUpWaiting
  <2>1. Frame /\ UNCHANGED projectVars /\ todo' = <<>>
    BY <1>6 DEF GiveUpWaiting, Frame
  <2> QED  BY <1>1, <2>1, OnlyTodo, NothingToDo DEF IInv
<1>7. CASE CreateJob \/ SubmissionRaises \/ DeleteProject \/ TreeIsBusy
           \/ DeleteJob \/ FinalizeDelete \/ StopDeleting \/ DirectoryIsBusy
           \/ Commit
  BY <1>7, CreateJobStep, RaisesStep, DeleteProjectStep, BusyStep,
     DeleteJobStep, StopDeletingStep, DirectoryBusyStep, CommitStep
<1> QED  BY <1>2, <1>3, <1>4, <1>5, <1>6, <1>7 DEF ApiStep

LEMMA WorkerStepKeeps ==
    ASSUME IInv, WorkerStep \/ KillWorker
    PROVE  IInv'
<1>1. Standing  BY DEF IInv
<1>2. Frame /\ todo' = todo /\ uploads' = uploads
  BY DEF WorkerStep, ClaimNext, SweepStale, LoadConfig, BeginStage, EndJob,
         SelectStatuses, UpdateProject, ReleaseClaim, KillWorker, Frame, apiVars
<1>3. CASE ClaimNext
  BY <1>1, <1>2, <1>3, ClaimStep, HandlerRuns
<1>4. CASE SweepStale
  <2>1. PICK j \in DOMAIN jobs : /\ jobs[j].status = "running"
                                 /\ SetAndRefresh(j, "interrupted")
    BY <1>4 DEF SweepStale
  <2>2. worker' = worker /\ worker.pc = "idle"  BY <1>4 DEF SweepStale
  <2>3. jobs[j].status \in Pending /\ "interrupted" \in Statuses
    BY <2>1 DEF Pending, Statuses
  <2>4. Standing' /\ RowsKept /\ ProjectsKept
    BY <1>1, <1>2, <2>1, <2>2, <2>3, SetAndRefreshStep
  <2> QED  BY <1>2, <2>4, HandlerRuns
<1>5. CASE LoadConfig
  <2>1. CASE Goto("ready") /\ UNCHANGED jobs
    <3>1. worker.pc = "load" /\ UNCHANGED <<jobs, shownVars>>
      BY <1>5, <2>1 DEF LoadConfig
    <3>2. Standing' /\ RowsKept /\ ProjectsKept
      BY <1>1, <1>2, <2>1, <3>1, LoadedStep
    <3> QED  BY <1>2, <3>2, HandlerRuns
  <2>2. CASE SetAndGo("failed", "release")
    <3>1. /\ worker.pc = "load" /\ UNCHANGED shownVars /\ "failed" \in Statuses
      BY <1>5 DEF LoadConfig, Statuses
    <3>2. Standing' /\ RowsKept /\ ProjectsKept
      BY <1>1, <1>2, <2>2, <3>1, SetAndGoStep
    <3> QED  BY <1>2, <3>2, HandlerRuns
  <2> QED  BY <1>5, <2>1, <2>2 DEF LoadConfig
<1>6. CASE BeginStage
  <2>1. /\ worker.pc \in {"ready", "work"} /\ SetAndGo("running", "work")
        /\ UNCHANGED shownVars /\ "running" \in Statuses
    BY <1>6 DEF BeginStage, Statuses
  <2>2. Standing' /\ RowsKept /\ ProjectsKept
    BY <1>1, <1>2, <2>1, SetAndGoStep
  <2> QED  BY <1>2, <2>2, HandlerRuns
<1>7. CASE EndJob
  <2>1. PICK status \in {"succeeded", "failed", "cancelled"} :
           /\ worker.pc \in {"ready", "work"}
           /\ SetAndGo(status, "release")
    BY <1>7 DEF EndJob
  <2>2. UNCHANGED shownVars /\ status \in Statuses
    BY <1>7 DEF EndJob, Statuses
  <2>3. Standing' /\ RowsKept /\ ProjectsKept
    BY <1>1, <1>2, <2>1, <2>2, SetAndGoStep
  <2> QED  BY <1>2, <2>3, HandlerRuns
<1>8. CASE SelectStatuses \/ UpdateProject \/ ReleaseClaim \/ KillWorker
  BY <1>1, <1>2, <1>8, SelectStep, UpdateStep, ReleaseStep, KillWorkerStep,
     HandlerRuns
<1> QED  BY <1>3, <1>4, <1>5, <1>6, <1>7, <1>8 DEF WorkerStep

\* The first start migrates what was configured before there were profiles.
LEMMA StartStep ==
    ASSUME IInv, StartApi, UNCHANGED projectVars
    PROVE  IInv'
<1>1. Standing /\ Configured /\ made \in Nat /\ Listed(todo) /\ TodoFits
      /\ jobs \in Seq(JobRow)
  BY DEF IInv, Standing, Configured, Rows
<1>2. /\ UNCHANGED <<made, secrets, cookies, todo>> /\ up' = TRUE
      /\ UNCHANGED <<projects, jobs, uploads, worker>>
  BY DEF StartApi, projectVars, shownVars
<1>3. GoodProfiles(profiles', made)
  <2>1. CASE profiles # None
    <3>1. profiles' = profiles  BY <2>1 DEF StartApi
    <3> QED  BY <1>1, <2>1, <3>1 DEF Configured
  <2>2. CASE profiles = None
    <3>1. PICK configured \in SUBSET Capabilities :
             LET caps == SetToSeq(configured)
             IN  profiles' = [i \in DOMAIN caps |-> Migrated(caps[i])]
      BY <2>2 DEF StartApi
    <3> QED  BY <1>1, <3>1, MigratedIsGood
  <2> QED  BY <2>1, <2>2
<1>4. Configured'  BY <1>1, <1>2, <1>3 DEF Configured
<1>5. Standing'
  BY <1>1, <1>2, <1>4, ConfigStands
<1>6. TodoFits'
  <2>1. RowsKept /\ ProjectsKept
    BY <1>1, <1>2, SameRowsKept DEF ProjectsKept, Shown
  <2> QED  BY <1>1, <1>2, <2>1, TodoKept
<1> QED  BY <1>1, <1>2, <1>5, <1>6 DEF IInv

LEMMA KillStep ==
    ASSUME IInv, KillApi, UNCHANGED projectVars
    PROVE  IInv'
<1>1. Standing /\ Configured  BY DEF IInv, Standing
<1>2. /\ UNCHANGED <<profiles, made, secrets, cookies>> /\ up' = FALSE
      /\ todo' = <<>> /\ up = TRUE
  BY <1>1 DEF KillApi, providerVars, Configured
<1>3. Configured'  BY <1>1, <1>2 DEF Configured
<1>4. Standing'  BY <1>1, <1>2, <1>3, ConfigStands
<1> QED  BY <1>2, <1>4, NothingToDo DEF IInv

\* At first some older settings have a credential each.
LEMMA InitIInv ==
    ASSUME Init
    PROVE  IInv
<1>1. /\ profiles = None /\ made = 0 /\ cookies = <<>> /\ todo = <<>>
      /\ up = FALSE /\ projects = [p \in ProjectIds |-> None]
      /\ jobs = <<>> /\ uploads = <<>> /\ worker = Resting /\ overtaken = {}
      /\ dropped = [p \in ProjectIds |-> {}]
  BY DEF Init, ProvidersInit
<1>2. GoodSecrets(secrets)
  <2>1. PICK caps \in SUBSET Capabilities :
           secrets = [i \in DOMAIN SetToSeq(caps) |->
                         [kind |-> SetToSeq(caps)[i], active |-> TRUE]]
    BY DEF Init, ProvidersInit
  <2> DEFINE size == Cardinality(caps)
             list == SetToSeq(caps)
  <2>2. /\ IsFiniteSet(caps) /\ size <= Cardinality(Capabilities)
        /\ Cardinality(Capabilities) \in Nat /\ MaxSecrets \in Nat
    BY ProvidersAssumption, FS_Subset, FS_CardinalityType
  <2>3. /\ size \in Nat /\ list \in [1..size -> caps]
        /\ \A i, k \in 1..size : list[i] = list[k] => i = k
    BY <2>2, SetToSeqLists
  <2>4. secrets = [i \in DOMAIN list |-> [kind |-> list[i], active |-> TRUE]]
    BY <2>1
  <2> HIDE DEF size, list
  <2>5. \A i \in 1..size : list[i] \in Kinds  BY <2>3 DEF Kinds
  <2>6. \A k \in Kinds : [kind |-> k, active |-> TRUE] \in SecretRow
    BY DEF SecretRow
  <2>7. /\ secrets \in Seq(SecretRow) /\ Len(secrets) = size
        /\ DOMAIN secrets = 1..size
        /\ \A i \in 1..size : secrets[i].kind = list[i]
    BY <2>3, <2>4, <2>5, <2>6
  <2>8. Len(secrets) <= MaxSecrets + Cardinality(Capabilities)
    BY <2>2, <2>3, <2>7
  <2> QED  BY <2>3, <2>7, <2>8 DEF GoodSecrets
<1>3. GoodCookies(cookies)
  BY <1>1 DEF GoodCookies
<1>4. Configured
  <2>1. MaxProfiles \in Nat  BY ProvidersAssumption
  <2>2. made \in 0..MaxProfiles  BY <1>1, <2>1
  <2>3. up \in BOOLEAN /\ ~ (profiles # None \/ up)  BY <1>1
  <2> QED  BY <1>2, <1>3, <2>2, <2>3, Zenon DEF Configured
<1>5. /\ Resting \in WorkerRow /\ Resting.pc = "idle" /\ Resting.seen = None
  BY DEF Resting, WorkerRow
<1>6. Rows
  <2>1. jobs \in Seq(JobRow) /\ uploads \in Seq(UploadRow)  BY <1>1
  <2>2. projects \in ProjectRows /\ dropped \in DroppedRows
    BY <1>1 DEF ProjectRows, DroppedRows
  <2> QED  BY <1>1, <1>5, <2>1, <2>2 DEF Rows
<1>7. DOMAIN jobs = {}  BY <1>1
<1>8. JobsHaveProjects /\ ActiveJobsAreRunnable /\ Videos
  BY <1>7 DEF JobsHaveProjects, ActiveJobsAreRunnable, Videos, JobsNameVideos,
              UploadsOutliveTheirJobs
<1>9. WorkerRuns  BY <1>1, <1>5 DEF WorkerRuns
<1>10. FinishedProjectIsShown
  BY <1>7 DEF FinishedProjectIsShown, JobsOf
<1>11. RefreshIsCurrent
  BY <1>1, <1>5 DEF RefreshIsCurrent, Refreshing
<1>12. Listed(todo) /\ TodoFits
  <2>1. todo \in Seq({}) /\ DOMAIN todo = {}  BY <1>1
  <2>2. Listed(todo)  BY <2>1, SeqOfItself
  <2>3. Configuring  BY <2>1 DEF Configuring, ConfigWrites
  <2> QED  BY <2>2, <2>3 DEF TodoFits
<1> QED  BY <1>4, <1>6, <1>8, <1>9, <1>10, <1>11, <1>12 DEF IInv, Standing

LEMMA StutterStep ==
    ASSUME IInv, UNCHANGED vars
    PROVE  IInv'
<1>1. Frame /\ UNCHANGED projectVars /\ todo' = todo /\ Standing
      /\ UNCHANGED <<jobs, projects, uploads>> /\ jobs \in Seq(JobRow)
  BY DEF vars, Frame, apiVars, projectVars, shownVars, IInv, Standing, Rows
<1>2. Standing'  BY <1>1, OnlyTodo
<1>3. RowsKept /\ ProjectsKept
  BY <1>1, SameRowsKept DEF ProjectsKept, Shown
<1> QED  BY <1>1, <1>2, <1>3, HandlerRuns

LEMMA StepIInv ==
    ASSUME IInv, [Next]_vars
    PROVE  IInv'
BY ApiStepKeeps, WorkerStepKeeps, StartStep, KillStep, StutterStep DEF Next

LEMMA Invariance == Spec => []IInv
<1>1. Init => IInv  BY InitIInv
<1>2. IInv /\ [Next]_vars => IInv'  BY StepIInv
<1> QED  BY <1>1, <1>2, PTL DEF Spec

-----------------------------------------------------------------------------
(* The theorems.                                                           *)

LEMMA IInvTypes ==
    ASSUME IInv
    PROVE  TypeOK
<1>1. Configured /\ Rows /\ WorkerRuns /\ Videos  BY DEF IInv, Standing
<1>2. profiles # None =>
         /\ \A i \in DOMAIN profiles :
               /\ profiles[i].id \in Capabilities \cup (1..made)
               /\ profiles[i].kind \in Kinds
               /\ profiles[i].default \in BOOLEAN
         /\ \A i, k \in DOMAIN profiles :
               profiles[i].id = profiles[k].id => i = k
  <2> HAVE profiles # None
  <2>1. ProfileRows(profiles, made)  BY <1>1 DEF Configured, GoodProfiles
  <2>2. \A i \in DOMAIN profiles : profiles[i] \in ProfileRow
    BY <2>1 DEF ProfileRows
  <2>3. \A row \in ProfileRow : row.kind \in Kinds /\ row.default \in BOOLEAN
    BY DEF ProfileRow
  <2> QED  BY <2>1, <2>2, <2>3 DEF ProfileRows
<1>3. Len(secrets) <= MaxSecrets + Cardinality(Capabilities)
  BY <1>1 DEF Configured, GoodSecrets
<1>4. \A j \in DOMAIN jobs :
         /\ jobs[j].project \in ProjectIds
         /\ jobs[j].status \in Statuses \cup {"unborn", "gone"}
         /\ jobs[j].upload \in DOMAIN uploads
         /\ {jobs[j].owned, jobs[j].delete} \subseteq BOOLEAN
  <2>1. \A j \in DOMAIN jobs : jobs[j] \in JobRow  BY <1>1 DEF Rows
  <2>2. \A row \in JobRow : /\ row.project \in ProjectIds
                            /\ row.status \in Statuses \cup {"unborn", "gone"}
                            /\ {row.owned, row.delete} \subseteq BOOLEAN
    BY DEF JobRow
  <2> QED  BY <1>1, <2>1, <2>2 DEF Videos, JobsNameVideos
<1>5. \A u \in DOMAIN uploads :
         uploads[u].project \in ProjectIds /\ uploads[u].file \in Fates
  <2>1. \A u \in DOMAIN uploads : uploads[u] \in UploadRow  BY <1>1 DEF Rows
  <2> QED  BY <2>1 DEF UploadRow
<1>6. worker.pc \in {"idle", "load", "ready", "work", "select", "update",
                     "release"}
  BY <1>1 DEF Rows, WorkerRow
<1>7. projects \in [ProjectIds -> Statuses \cup {None, "gone"}]
      /\ dropped \in [ProjectIds -> SUBSET Ended]
  BY <1>1 DEF Rows, ProjectRows, DroppedRows
<1> QED  BY <1>1, <1>2, <1>3, <1>4, <1>5, <1>6, <1>7 DEF TypeOK, Rows, WorkerRuns

LEMMA IInvDefaults ==
    ASSUME IInv
    PROVE  OneDefaultEach
<1>1. /\ profiles # None => GoodProfiles(profiles, made)
      /\ GoodSecrets(secrets) /\ GoodCookies(cookies)
  BY DEF IInv, Standing, Configured
<1>2. ASSUME profiles # None, NEW cap \in Capabilities, Uses(profiles, cap) # {}
      PROVE  Cardinality({i \in Uses(profiles, cap) : profiles[i].default}) = 1
  <2> DEFINE defaults == {i \in Uses(profiles, cap) : profiles[i].default}
  <2>1. AtMostOneDefault(profiles, cap) /\ HasDefault(profiles, cap)
    BY <1>1, <1>2 DEF GoodProfiles
  <2>2. \A x, y \in defaults : x = y  BY <2>1 DEF AtMostOneDefault
  <2>3. defaults # {}  BY <1>2, <2>1 DEF HasDefault
  <2> HIDE DEF defaults
  <2>4. PICK x \in defaults : TRUE  BY <2>3
  <2>5. \A y \in defaults : y = x  BY <2>2
  <2>6. Cardinality(defaults) = 1  BY <2>5, OnlyMember
  <2> QED  BY <2>6 DEF defaults
<1>3. ASSUME NEW kind \in Kinds
      PROVE  Cardinality(Active(kind)) <= 1
  <2>1. \A x, y \in Active(kind) : x = y
    BY <1>1 DEF GoodSecrets, Active
  <2> QED  BY <2>1, AtMostOne
<1>4. Cardinality({n \in DOMAIN cookies : cookies[n] = "default"}) <= 1
  <2> DEFINE defaults == {n \in DOMAIN cookies : cookies[n] = "default"}
  <2>1. \A x, y \in defaults : x = y  BY <1>1 DEF GoodCookies
  <2> HIDE DEF defaults
  <2>2. Cardinality(defaults) <= 1  BY <2>1, AtMostOne
  <2> QED  BY <2>2 DEF defaults
<1> QED  BY <1>2, <1>3, <1>4 DEF OneDefaultEach

\* The rows of projects, jobs, profiles and credentials and what the worker
\* remembers are what the tables and the code's records can hold; profiles
\* have identifiers of their own whatever is created and deleted.
THEOREM ProjectsTypeOK == Spec => []TypeOK
<1>1. IInv => TypeOK  BY IInvTypes
<1> QED  BY <1>1, Invariance, PTL

\* A capability that has profiles always has exactly one default, a kind has
\* one active credential at most and there is one default cookie at most,
\* wherever a kill cuts off the handler that changes them (apps/api/
\* service.py: create_provider_profile, patch_provider_profile,
\* delete_provider_profile, create_cookie, patch_cookie).
THEOREM OneDefaultIsKept == Spec => []OneDefaultEach
<1>1. IInv => OneDefaultEach  BY IInvDefaults
<1> QED  BY <1>1, Invariance, PTL

\* A job that is queued, running or interrupted has its project, the
\* configuration it pinned and the credentials in it, whatever submission,
\* deletion of a project or of a job, or change of the profiles a kill, an
\* exception or a busy file ended halfway (apps/api/service.py: create_job,
\* delete_project, _cleanup_job_workspace, delete_provider_profile).
THEOREM PendingJobsCanRun == Spec => []ActiveJobsAreRunnable
<1>1. IInv => ActiveJobsAreRunnable  BY DEF IInv, Standing
<1> QED  BY <1>1, Invariance, PTL

\* The video of a job that is queued, running or interrupted is there, was
\* discarded with the request that brought it, or was unlinked with another
\* job that named it and had ended: no deletion of a project takes it, nor the
\* job's own before it has ended (apps/api/main.py: post_upload_local_video;
\* apps/api/service.py: discard_local_upload, delete_project,
\* _cleanup_staged_upload_for_job).
THEOREM PendingJobsKeepVideos == Spec => []UploadsOutliveTheirJobs
<1>1. IInv => UploadsOutliveTheirJobs  BY DEF IInv, Standing, Videos
<1> QED  BY <1>1, Invariance, PTL

\* When all jobs of a project have ended it shows the status that follows
\* from theirs and from those of the jobs deleted since it was refreshed,
\* except for what an unfinished refresh is about to write or an overtaken one
\* wrote (packages/pipeline/orchestrator.py and packages/infra/
\* sqlite_repository.py: refresh_project_status, delete_job).
THEOREM ProjectsShowTheirJobs == Spec => []FinishedProjectIsShown
<1>1. IInv => FinishedProjectIsShown  BY DEF IInv, Standing
<1> QED  BY <1>1, Invariance, PTL

=============================================================================
